----------------------------- MODULE OrderBook -----------------------------
(***************************************************************************)
(* The flat limit order book (rust/smr-collections/common/src/book.rs)     *)
(* under every sequence of inserts, partial fills, cancels and fills that  *)
(* its callers can produce: a fresh id for every insert, and only resting  *)
(* orders updated, cancelled or filled.  An insert into a full book panics *)
(* and ends the program.                                                   *)
(***************************************************************************)
EXTENDS BookOps

CONSTANTS
    Quantities,         \* quantities of new orders (1..1000 in the workload)
    FillQuantities,     \* quantities of partial fills (1..100)
    MaxId               \* bound: number of inserts

\* The workload draws quantities from 1..1000 and fills from 1..100.
ASSUME BookWorkload ==
    /\ Quantities \subseteq Nat
    /\ FillQuantities \subseteq Nat
    /\ MaxId \in Nat

VARIABLES
    book,       \* the Book
    lastId,     \* id of the last insert
    running     \* FALSE after a panic

vars == <<book, lastId, running>>

Live == DOMAIN book.idmap

Init == book = NewBook /\ lastId = 0 /\ running = TRUE

DoInsert(t, qty, side) ==
    /\ running
    /\ ~Exhausted(book)
    /\ lastId < MaxId
    /\ lastId' = lastId + 1
    /\ book' = Insert(book, lastId + 1, PriceOf(t), qty, side)
    /\ UNCHANGED running

\* alloc_slot panics before anything is written.
InsertPanics ==
    /\ running
    /\ Exhausted(book)
    /\ running' = FALSE
    /\ UNCHANGED <<book, lastId>>

DoUpdate(id, fillQty) ==
    /\ running
    /\ book' = Update(book, id, fillQty)
    /\ UNCHANGED <<lastId, running>>

DoCancel(id) ==
    /\ running
    /\ book' = Cancel(book, id)
    /\ UNCHANGED <<lastId, running>>

DoFill(id) ==
    /\ running
    /\ book' = Fill(book, id)
    /\ UNCHANGED <<lastId, running>>

Next ==
    \/ \E t \in Ticks, qty \in Quantities, side \in Sides : DoInsert(t, qty, side)
    \/ InsertPanics
    \/ \E id \in Live : \E fillQty \in FillQuantities : DoUpdate(id, fillQty)
    \/ \E id \in Live : DoCancel(id)
    \/ \E id \in Live : DoFill(id)

Spec == Init /\ [][Next]_vars

-----------------------------------------------------------------------------
(* Properties.                                                             *)

OrderType ==
    [id : 0..MaxId, price : {0} \cup {PriceOf(t) : t \in Ticks},
     qty : {0} \cup Quantities, filled : Nat,
     next : Slots \cup {NIL}, prev : Slots \cup {NIL}, side : Sides]

LevelType ==
    [head : Slots \cup {NIL}, tail : Slots \cup {NIL}, qtyTotal : Nat, count : Nat]

\* Links are slots, ticks are levels, and no aggregate runs below zero
\* (count and hwm are unsigned in the code).
TypeOK ==
    /\ \A s \in Slots : book.pool[s] \in OrderType
    /\ \A side \in Sides, t \in Ticks : book.lane[side][t] \in LevelType
    /\ book.hwm \in 0..Cap
    /\ \A side \in Sides : book.best[side] \in Ticks \cup {NoLevel}
    /\ book.freeHead \in Slots \cup {NIL}
    /\ Live \subseteq 1..MaxId /\ \A id \in Live : book.idmap[id] \in Slots

\* Every slot below the high-water mark is either resting, exactly once in
\* the queue of its own level, or free, exactly once in the free list; no
\* list has a cycle.  alloc_slot and free_slot thus never hand out a slot
\* twice and never lose one, in whatever order orders come and go.
SlotsAccountedFor ==
    LET free == FreeList(book)
        lists == {free} \cup {QueueOf(book, side, t) : side \in Sides, t \in Ticks}
    IN  /\ \A l \in lists : \A i, j \in 1..Len(l) : l[i] = l[j] => i = j
        /\ {free[i] : i \in 1..Len(free)} = {s \in 0..(book.hwm - 1) : book.pool[s].id = 0}
        /\ \A side \in Sides, t \in Ticks :
              LET q == QueueOf(book, side, t)
              IN  {q[i] : i \in 1..Len(q)} =
                      {s \in 0..(book.hwm - 1) :
                          /\ book.pool[s].id # 0
                          /\ book.pool[s].side = side
                          /\ TickOf(book.pool[s].price) = t}

\* The queue of a level can be walked both ways: prev is the inverse of
\* next, the head has no prev, and the tail is the last order.  unlink
\* relies on it when it removes an order from the middle.
LinksConsistent ==
    \A side \in Sides, t \in Ticks :
        LET q == QueueOf(book, side, t)
            n == Len(q)
        IN  /\ book.lane[side][t].tail = IF n = 0 THEN NIL ELSE q[n]
            /\ \A i \in 1..n : book.pool[q[i]].prev = IF i = 1 THEN NIL ELSE q[i - 1]

\* The aggregates insert, update and unlink maintain are those of the queue:
\* count its length, qty_total the open quantity of its orders.
AggregatesExact ==
    \A side \in Sides, t \in Ticks :
        LET q == QueueOf(book, side, t)
        IN  /\ book.lane[side][t].count = Len(q)
            /\ book.lane[side][t].qtyTotal = OpenQty(book, q)

\* The id map names exactly the resting orders, each at its own slot: no
\* entry survives a cancel or fill and points at a recycled slot.
IdMapExact ==
    /\ \A id \in Live : book.pool[book.idmap[id]].id = id
    /\ {book.idmap[id] : id \in Live} = {s \in Slots : book.pool[s].id # 0}

\* The cached best is the highest occupied bid and the lowest occupied ask,
\* whatever levels emptied in whatever order.
BestExact ==
    \A side \in Sides :
        LET occupied == {t \in Ticks : book.lane[side][t].head # NIL}
        IN  book.best[side] =
                IF occupied = {} THEN NoLevel
                ELSE IF side = BID THEN Max(occupied) ELSE Min(occupied)

\* The structure of the book, whatever comes and goes in whatever order: its
\* slots, its links and its id map are consistent (alloc_slot, free_slot,
\* unlink and the id map together).
Sound == TypeOK /\ SlotsAccountedFor /\ LinksConsistent /\ IdMapExact

\* The queues of resting orders, read through the links.
Queues ==
    [side \in Sides |-> [t \in Ticks |->
        LET q == QueueOf(book, side, t)
        IN  [i \in 1..Len(q) |-> [id     |-> book.pool[q[i]].id,
                                  qty    |-> book.pool[q[i]].qty,
                                  filled |-> book.pool[q[i]].filled]]]]

Abstract == INSTANCE AbstractBook WITH queue <- Queues

\* The linked pool implements queues in arrival order: every operation is
\* the one of the abstract book and disturbs no other order.
RefinesAbstractBook == Abstract!Spec
=============================================================================
