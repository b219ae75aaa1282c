------------------------------ MODULE BookOps ------------------------------
(***************************************************************************)
(* The limit order book as a value, and its operations as functions from   *)
(* book to book (rust/smr-collections/common/src/book.rs).                 *)
(*                                                                         *)
(* A book is a record: the pool of order slots, one ladder of price levels *)
(* per side, the high-water mark of the pool, the cached best tick per     *)
(* side, the head of the free list and the map from order id to slot.      *)
(* Links are slot numbers.  A freed slot keeps its price, quantity and     *)
(* side, gets id 0, and is chained to the next free slot by its `next`.    *)
(***************************************************************************)
EXTENDS Integers, Sequences, FiniteSets, FiniteSetsExt, Functions

CONSTANTS
    Cap,        \* slots in the pool (SMRC_CAP)
    Levels,     \* price levels per side (SMRC_LEVELS)
    PriceMin,   \* price of level 0 (SMRC_PRICE_MIN), any sign
    TickSize    \* price step between levels (SMRC_TICK)

\* The checks of SmrConfig::from_env that concern the book.
ASSUME BookConfig ==
    /\ Cap \in Nat \ {0}
    /\ Levels \in Nat \ {0}
    /\ PriceMin \in Int
    /\ TickSize \in Nat \ {0}

NIL == -1               \* u32::MAX in the code: no slot
NoLevel == -1           \* best_bid / best_ask of an empty side
BID == 0
ASK == 1

Slots == 0..(Cap - 1)
Ticks == 0..(Levels - 1)
Sides == {BID, ASK}

EmptyLevel == [head |-> NIL, tail |-> NIL, qtyTotal |-> 0, count |-> 0]

ZeroOrder == [id |-> 0, price |-> 0, qty |-> 0, filled |-> 0,
              next |-> NIL, prev |-> NIL, side |-> BID]

NewBook ==
    [pool     |-> [s \in Slots |-> ZeroOrder],
     lane     |-> [side \in Sides |-> [t \in Ticks |-> EmptyLevel]],
     hwm      |-> 0,
     best     |-> [side \in Sides |-> NoLevel],
     freeHead |-> NIL,
     idmap    |-> [i \in {} |-> NIL]]

PriceOf(t) == PriceMin + t * TickSize
TickOf(price) == (price - PriceMin) \div TickSize

-----------------------------------------------------------------------------
(* Slots.                                                                  *)

\* alloc_slot panics: nothing freed and the pool is used up.
Exhausted(b) == b.freeHead = NIL /\ b.hwm = Cap

\* The slot alloc_slot returns: the last one freed, else a fresh one.
NextSlot(b) == IF b.freeHead # NIL THEN b.freeHead ELSE b.hwm

\* What alloc_slot leaves behind.
AllocSlot(b) ==
    IF b.freeHead # NIL
    THEN [b EXCEPT !.freeHead = b.pool[b.freeHead].next]
    ELSE [b EXCEPT !.hwm = @ + 1]

\* Faulty variant: the freed slot is not chained to the older ones.
FreeSlotNoChain(b, s) ==
    [b EXCEPT !.pool[s].id = 0,
              !.pool[s].next = NIL,
              !.pool[s].prev = NIL,
              !.freeHead = s]

\* Faulty variant: the freed slot does not enter the free list.
FreeSlotLeaks(b, s) ==
    [b EXCEPT !.pool[s].id = 0,
              !.pool[s].next = NIL,
              !.pool[s].prev = NIL]

\* The slot becomes the head of the free list.
FreeSlot(b, s) ==
    [b EXCEPT !.pool[s].id = 0,
              !.pool[s].next = b.freeHead,
              !.pool[s].prev = NIL,
              !.freeHead = s]

-----------------------------------------------------------------------------
(* Links and aggregates of a level.                                        *)

SetNext(b, s, v) == IF s = NIL THEN b ELSE [b EXCEPT !.pool[s].next = v]
SetPrev(b, s, v) == IF s = NIL THEN b ELSE [b EXCEPT !.pool[s].prev = v]

\* Take slot s out of the queue of its level and debit what was left of it.
Unlink(b, s, side, t, rem) ==
    LET prev == b.pool[s].prev
        next == b.pool[s].next
    IN  [SetPrev(SetNext(b, prev, next), next, prev) EXCEPT !.lane[side][t] =
            [head     |-> IF @.head = s THEN next ELSE @.head,
             tail     |-> IF @.tail = s THEN prev ELSE @.tail,
             qtyTotal |-> @.qtyTotal - rem,
             count    |-> @.count - 1]]

\* Faulty variant: the ask side is searched downwards too.
RepairBestDown(b, side, t) ==
    IF b.best[side] # t \/ b.lane[side][t].head # NIL
    THEN b
    ELSE LET occupied == {i \in 0..t : b.lane[side][i].head # NIL}
         IN  [b EXCEPT !.best[side] = IF occupied = {} THEN NoLevel ELSE Max(occupied)]

\* If the level just emptied was the cached best, the best is the nearest
\* occupied level behind it: downwards for bids, upwards for asks.
RepairBest(b, side, t) ==
    IF b.best[side] # t \/ b.lane[side][t].head # NIL
    THEN b
    ELSE LET behind   == IF side = BID THEN 0..t ELSE t..(Levels - 1)
             occupied == {i \in behind : b.lane[side][i].head # NIL}
         IN  [b EXCEPT !.best[side] =
                 IF occupied = {} THEN NoLevel
                 ELSE IF side = BID THEN Max(occupied) ELSE Min(occupied)]

\* The cached best after an order came to rest at tick t.
ImproveBest(best, side, t) ==
    IF \/ best[side] = NoLevel
       \/ side = BID /\ t > best[side]
       \/ side = ASK /\ t < best[side]
    THEN [best EXCEPT ![side] = t]
    ELSE best

-----------------------------------------------------------------------------
(* The operations.  Their arguments are checked by the callers: an insert  *)
(* panics if Exhausted(b), a cancel or fill panics on an unknown id.       *)

Insert(b, id, price, qty, side) ==
    LET t     == TickOf(price)
        s     == NextSlot(b)
        tail  == b.lane[side][t].tail
        order == [id |-> id, price |-> price, qty |-> qty, filled |-> 0,
                  next |-> NIL, prev |-> tail, side |-> side]
    IN  [SetNext([AllocSlot(b) EXCEPT !.pool[s] = order], tail, s) EXCEPT
            !.lane[side][t] =
                [head     |-> IF tail = NIL THEN s ELSE @.head,
                 tail     |-> s,
                 qtyTotal |-> @.qtyTotal + qty,
                 count    |-> @.count + 1],
            !.idmap = [i \in DOMAIN @ \cup {id} |-> IF i = id THEN s ELSE @[i]],
            !.best  = ImproveBest(@, side, t)]

\* Faulty variant: more than the open quantity can be filled.
UpdateUncapped(b, id, fillQty) ==
    LET s == b.idmap[id]
        o == b.pool[s]
    IN  [b EXCEPT !.pool[s].filled = @ + fillQty,
                  !.lane[o.side][TickOf(o.price)].qtyTotal = @ - fillQty]

\* A partial fill, capped at the open quantity.  A fully filled order stays
\* in the book.
Update(b, id, fillQty) ==
    LET s   == b.idmap[id]
        o   == b.pool[s]
        add == Min({fillQty, o.qty - o.filled})
    IN  [b EXCEPT !.pool[s].filled = @ + add,
                  !.lane[o.side][TickOf(o.price)].qtyTotal = @ - add]

\* What cancel and fill do once the quantity to debit is known.
Depart(b, id, rem) ==
    LET s        == b.idmap[id]
        o        == b.pool[s]
        t        == TickOf(o.price)
        unmapped == [b EXCEPT !.idmap = Restrict(@, DOMAIN @ \ {id})]
    IN  RepairBest(FreeSlot(Unlink(unmapped, s, o.side, t, rem), s), o.side, t)

Cancel(b, id) ==
    LET o == b.pool[b.idmap[id]]
    IN  Depart(b, id, o.qty - o.filled)

\* Faulty variant: the level is debited by the whole quantity of the order.
FillWhole(b, id) ==
    LET s == b.idmap[id]
        o == b.pool[s]
    IN  Depart([b EXCEPT !.pool[s].filled = o.qty], id, o.qty)

\* Fill to completion and remove.
Fill(b, id) ==
    LET s == b.idmap[id]
        o == b.pool[s]
    IN  Depart([b EXCEPT !.pool[s].filled = o.qty], id, o.qty - o.filled)

-----------------------------------------------------------------------------
(* Reading a book.                                                         *)

\* The slots reached from slot s along `next`, oldest first.  The pool has
\* Cap slots, so a longer walk has met a cycle; it stops after Cap + 1.
Chain(b, s) ==
    LET walk[n \in 0..(Cap + 1)] ==
            [at \in Slots \cup {NIL} |->
                IF n = 0 \/ at = NIL THEN <<>>
                ELSE <<at>> \o walk[n - 1][b.pool[at].next]]
    IN  walk[Cap + 1][s]

\* The queue of a level, and the free list.
QueueOf(b, side, t) == Chain(b, b.lane[side][t].head)
FreeList(b) == Chain(b, b.freeHead)

\* What remains open of the orders at the slots of a list.
Open(o) == o.qty - o.filled
Total(v) ==
    LET sum[n \in 0..Len(v)] == IF n = 0 THEN 0 ELSE sum[n - 1] + v[n]
    IN  sum[Len(v)]
OpenQty(b, l) == Total([i \in 1..Len(l) |-> Open(b.pool[l[i]])])
=============================================================================
