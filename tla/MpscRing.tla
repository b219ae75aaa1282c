------------------------------ MODULE MpscRing ------------------------------
(***************************************************************************)
(* The bounded multi-producer single-consumer ring of u64 tokens           *)
(* (rust/handoff-compare/src/mpsc.rs).  A producer claims a range of       *)
(* sequence numbers with fetch_add, waits until the consumer is past the   *)
(* slots it will overwrite, stores its tokens and publishes each of them   *)
(* by the round number in the availability buffer.  The consumer takes the *)
(* contiguous published prefix.                                            *)
(*                                                                         *)
(* An action is one access of shared memory.  The slot stores are Relaxed: *)
(* a later one may take effect before the availability store of an earlier *)
(* one, but an availability store (Release) comes after every slot store   *)
(* and availability store before it in the program.                        *)
(*                                                                         *)
(* The ring never looks at a token; the token of sequence s is s + 1.      *)
(***************************************************************************)
EXTENDS Integers, Sequences, FiniteSets, FiniteSetsExt

CONSTANTS
    Producers,  \* the clones of MpProducer
    Cap,        \* slots in the ring, a power of two
    MaxBurst,   \* largest n given to batch_publish
    MaxDrain,   \* the max given to drain
    Total       \* bound: sequence numbers claimed

ASSUME RingAssumption ==
    /\ Cap \in Nat \ {0}
    /\ MaxBurst \in 1..Cap          \* batch_publish asserts n <= cap
    /\ MaxDrain \in Nat \ {0}
    /\ Total \in Nat

VARIABLES
    buf,        \* the slots
    avail,      \* round in which a slot was last published, -1 before
    claim,      \* next sequence to claim
    head,       \* the consumer's cursor, as published to the producers
    ppc,        \* per producer: "idle", "wait" (spinning) or "fill"
    range,      \* per producer: the claimed sequences not yet published
    stored,     \* per producer: those of them whose slot is stored
    cachedHead, \* per producer: last observed head
    cpc,        \* consumer: "idle", "scan" or "read"
    next,       \* the consumer's own cursor
    count,      \* tokens taken in this drain
    out         \* every token read, oldest first

prodVars == <<claim, ppc, range, stored, cachedHead>>
consVars == <<head, cpc, next, count, out>>
vars == <<buf, avail, prodVars, consVars>>

Slot(s) == s % Cap

Round(s) == s \div Cap

Init ==
    /\ buf = [i \in 0..(Cap - 1) |-> 0]
    /\ avail = [i \in 0..(Cap - 1) |-> -1]
    /\ claim = 0 /\ head = 0
    /\ ppc = [p \in Producers |-> "idle"]
    /\ range = [p \in Producers |-> {}]
    /\ stored = [p \in Producers |-> {}]
    /\ cachedHead = [p \in Producers |-> 0]
    /\ cpc = "idle" /\ next = 0 /\ count = 0
    /\ out = <<>>

-----------------------------------------------------------------------------
(* A producer.                                                             *)

\* The slot of the highest sequence is free once the consumer is past the
\* sequence that had it in the round before.
RoomFor(top, h) == h >= top + 1 - Cap

\* fetch_add, then the check against the stale head.
Claim(p, n) ==
    /\ ppc[p] = "idle"
    /\ claim + n <= Total
    /\ claim' = claim + n
    /\ range' = [range EXCEPT ![p] = claim..(claim + n - 1)]
    /\ ppc' = [ppc EXCEPT ![p] =
                  IF RoomFor(claim + n - 1, cachedHead[p]) THEN "fill" ELSE "wait"]
    /\ UNCHANGED <<buf, avail, stored, cachedHead, consVars>>

\* Faulty variant: the loop tests the cached head without reloading it.
RefreshHeadStale(p) ==
    /\ ppc[p] = "wait"
    /\ RoomFor(Max(range[p]), cachedHead[p])
    /\ ppc' = [ppc EXCEPT ![p] = "fill"]
    /\ UNCHANGED <<buf, avail, claim, range, stored, cachedHead, consVars>>

\* One turn of the backpressure loop: Acquire load of head.
RefreshHead(p) ==
    /\ ppc[p] = "wait"
    /\ cachedHead' = [cachedHead EXCEPT ![p] = head]
    /\ ppc' = [ppc EXCEPT ![p] = IF RoomFor(Max(range[p]), head) THEN "fill" ELSE "wait"]
    /\ UNCHANGED <<buf, avail, claim, range, stored, consVars>>

\* One Relaxed slot store.
StoreSlot(p, s) ==
    /\ ppc[p] = "fill"
    /\ s \in range[p] \ stored[p]
    /\ buf' = [buf EXCEPT ![Slot(s)] = s + 1]
    /\ stored' = [stored EXCEPT ![p] = @ \cup {s}]
    /\ UNCHANGED <<avail, claim, ppc, range, cachedHead, consVars>>

\* Faulty variant: a Relaxed availability store, which may come before the
\* slot store.
PublishEarly(p) ==
    /\ ppc[p] = "fill"
    /\ LET s == Min(range[p])
       IN  /\ avail' = [avail EXCEPT ![Slot(s)] = Round(s)]
           /\ range' = [range EXCEPT ![p] = @ \ {s}]
           /\ stored' = [stored EXCEPT ![p] = @ \ {s}]
           /\ ppc' = [ppc EXCEPT ![p] = IF range[p] = {s} THEN "idle" ELSE "fill"]
    /\ UNCHANGED <<buf, claim, cachedHead, consVars>>

\* The Release store of the next sequence's round.
Publish(p) ==
    /\ ppc[p] = "fill"
    /\ LET s == Min(range[p])
       IN  /\ s \in stored[p]
           /\ avail' = [avail EXCEPT ![Slot(s)] = Round(s)]
           /\ range' = [range EXCEPT ![p] = @ \ {s}]
           /\ stored' = [stored EXCEPT ![p] = @ \ {s}]
           /\ ppc' = [ppc EXCEPT ![p] = IF range[p] = {s} THEN "idle" ELSE "fill"]
    /\ UNCHANGED <<buf, claim, cachedHead, consVars>>

\* What a producer does once it has claimed.
Deliver(p) ==
    \/ RefreshHead(p)
    \/ \E s \in range[p] : StoreSlot(p, s)
    \/ Publish(p)

-----------------------------------------------------------------------------
(* The consumer.                                                           *)

StartDrain ==
    /\ cpc = "idle"
    /\ cpc' = "scan"
    /\ count' = 0
    /\ UNCHANGED <<buf, avail, prodVars, head, next, out>>

\* Faulty variant: any published round will do.
PublishedAnyRound(s) == avail[Slot(s)] >= 0

\* A sequence is published iff its slot carries its round.
Published(s) == avail[Slot(s)] = Round(s)

\* The Acquire load of avail finds the next token.
FindToken(max) ==
    /\ cpc = "scan" /\ count < max
    /\ Published(next)
    /\ cpc' = "read"
    /\ UNCHANGED <<buf, avail, prodVars, head, next, count, out>>

LoadSlot ==
    /\ cpc = "read"
    /\ out' = Append(out, buf[Slot(next)])
    /\ next' = next + 1
    /\ count' = count + 1
    /\ cpc' = "scan"
    /\ UNCHANGED <<buf, avail, prodVars, head>>

\* The prefix ends or max is reached: head is stored once per drain.
EndDrain(max) ==
    /\ cpc = "scan"
    /\ count = max \/ ~Published(next)
    /\ head' = IF count > 0 THEN next ELSE head
    /\ cpc' = "idle"
    /\ UNCHANGED <<buf, avail, prodVars, next, count, out>>

Consumer == StartDrain \/ FindToken(MaxDrain) \/ LoadSlot \/ EndDrain(MaxDrain)

-----------------------------------------------------------------------------

Next ==
    \/ \E p \in Producers : (\E n \in 1..MaxBurst : Claim(p, n)) \/ Deliver(p)
    \/ Consumer

\* Running threads keep running; nobody is obliged to claim.
Fairness ==
    /\ \A p \in Producers : WF_vars(Deliver(p))
    /\ WF_vars(Consumer)

Spec == Init /\ [][Next]_vars /\ Fairness

-----------------------------------------------------------------------------
(* Properties.                                                             *)

Outstanding == UNION {range[p] : p \in Producers}

\* Every variable has its type; the cursors never overtake one another.
TypeOK ==
    /\ buf \in [0..(Cap - 1) -> 0..Total]
    /\ avail \in [0..(Cap - 1) -> -1..Total]
    /\ claim \in 0..Total /\ head \in 0..next /\ next \in 0..claim
    /\ ppc \in [Producers -> {"idle", "wait", "fill"}]
    /\ range \in [Producers -> SUBSET (0..(claim - 1))]
    /\ stored \in [Producers -> SUBSET (0..(claim - 1))]
    /\ cachedHead \in [Producers -> 0..head]
    /\ cpc \in {"idle", "scan", "read"} /\ count \in 0..next
    /\ out \in Seq(0..Total)

\* "every claimed sequence is delivered to the consumer exactly once, in
\* sequence order" (mpsc.rs, module comment), whatever order the producers
\* publish in.
FifoDelivery == Len(out) = next /\ \A i \in 1..Len(out) : out[i] = i

\* The token of a claimed sequence is in its slot.
InSlot(s) == s \notin Outstanding \/ \E p \in Producers : s \in stored[p]

\* "no slot overwritten before it is consumed": the slot of a token that is
\* stored and not yet read holds it.
NoOverwrite == \A s \in next..(claim - 1) : InSlot(s) => buf[Slot(s)] = s + 1

\* A round number in the availability buffer is never taken for the same
\* slot's token of an earlier or later round: what the consumer's test finds
\* published is exactly what some producer has published and nobody has read.
RoundsUnambiguous ==
    \A s \in next..(next + Cap - 1) : Published(s) <=> s < claim /\ s \notin Outstanding

\* What a producer holds: an interval of sequences that nobody else claimed
\* and the consumer has not reached, with nothing stored before there is room
\* for all of it behind the head the producer has seen.
Claims ==
    /\ \A p, q \in Producers : p # q => range[p] \cap range[q] = {}
    /\ \A p \in Producers :
          /\ \E lo, hi \in next..claim : range[p] = lo..(hi - 1)
          /\ ppc[p] = "idle" <=> range[p] = {}
          /\ stored[p] \subseteq range[p]
          /\ ppc[p] # "fill" => stored[p] = {}
          /\ ppc[p] = "fill" => \A s \in range[p] : RoomFor(s, cachedHead[p])

\* Tokens are in the slots of one round trip of the ring, and what the
\* consumer is about to load has been published.
Window ==
    /\ \A s \in 0..(claim - 1) : InSlot(s) => s < head + Cap
    /\ cpc = "read" => next < claim /\ next \notin Outstanding

\* The ring is sound: the consumer has read the claimed tokens in order, and
\* nothing the producers of mpsc.rs store destroys one it has still to read
\* or makes it take an old round number for a new token.  (Inductive.)
Inv == TypeOK /\ FifoDelivery /\ NoOverwrite /\ RoundsUnambiguous /\ Claims /\ Window

\* The end of the contiguous published prefix.
PrefixEnd == Min({s \in next..claim : s = claim \/ s \in Outstanding})

\* The ring implements the bounded FIFO channel; the store that closes a gap
\* makes every token behind it available at once.
Fifo == INSTANCE FifoChannel WITH
            queue     <- [i \in 1..(PrefixEnd - next) |-> next + i],
            delivered <- out

\* Every step of batch_publish and drain is a step of the channel or leaves it
\* unchanged, with producers that publish out of order.
RefinesFifo == Fifo!Init /\ [][Fifo!Next]_(Fifo!vars)

\* Whatever is claimed is delivered: no producer waits for ever for a slot,
\* and no gap stays open.
ClaimedIsDelivered ==
    \A s \in 0..(Total - 1) : (claim > s) ~> (Len(out) > s)
=============================================================================
