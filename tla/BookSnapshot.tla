---------------------------- MODULE BookSnapshot ----------------------------
(***************************************************************************)
(* The snapshot codec (rust/smr-collections/common/src/snapshot.rs): what  *)
(* an image of a book holds, and the book restore builds from it.  Byte    *)
(* layout is the subject of Sbe; what is kept here is which fields travel, *)
(* that the two groups are counted in 16 bits, and what restore recomputes *)
(* (the id map).  restore refuses an image with a bad checksum, of another *)
(* schema version or of a pool of another size; the images here are intact *)
(* and are restored under the configuration they were taken in.            *)
(***************************************************************************)
EXTENDS BookOps

CONSTANT GroupMax       \* largest element count of an SBE group (65535)

ASSUME GroupMaxAssumption == GroupMax \in Nat

\* A group counts its elements in a u16, which wraps.  advance beyond the
\* count is not an error: it answers None and stays on the last element,
\* which is then written over.
Wrapped(n) == n % (GroupMax + 1)

Group(elems) ==
    LET n == Wrapped(Len(elems))
    IN  [i \in 1..n |-> IF i = n THEN elems[Len(elems)] ELSE elems[i]]

\* Without any element to stay on, the first write is out of bounds.
GroupPanics(elems) == elems # <<>> /\ Wrapped(Len(elems)) = 0

\* The occupied levels, bids then asks, by tick; and the slots below the
\* high-water mark, freed ones included.
LevelAt(b, p) ==
    LET side == IF p <= Levels THEN BID ELSE ASK
        t    == (p - 1) % Levels
    IN  [side |-> side, tick |-> t, level |-> b.lane[side][t]]

LevelElems(b) ==
    LET places == {p \in 1..(2 * Levels) : LevelAt(b, p).level.head # NIL}
        nth(k) == CHOOSE p \in places : Cardinality({i \in places : i < p}) = k - 1
    IN  [k \in 1..Cardinality(places) |-> LevelAt(b, nth(k))]

OrderElems(b) == [i \in 1..b.hwm |-> [slot |-> i - 1, order |-> b.pool[i - 1]]]

EncodePanics(b) == GroupPanics(LevelElems(b)) \/ GroupPanics(OrderElems(b))

\* Faulty variant: the head of the free list is not part of the image.
EncodeNoFreeHead(b) ==
    [hwm      |-> b.hwm,
     best     |-> b.best,
     freeHead |-> NIL,
     levels   |-> Group(LevelElems(b)),
     orders   |-> Group(OrderElems(b))]

Encode(b) ==
    [hwm      |-> b.hwm,
     best     |-> b.best,
     freeHead |-> b.freeHead,
     levels   |-> Group(LevelElems(b)),
     orders   |-> Group(OrderElems(b))]

\* restore stores the elements of a group one after the other: of several
\* for one place the last one stays.
LastWhere(elems, Test(_), default) ==
    LET hits == {i \in DOMAIN elems : Test(elems[i])}
    IN  IF hits = {} THEN default ELSE elems[Max(hits)]

RestoreSlot(img, s) ==
    LastWhere(img.orders, LAMBDA e : e.slot = s, [slot |-> s, order |-> ZeroOrder]).order

RestoreLevel(img, side, t) ==
    LastWhere(img.levels, LAMBDA e : e.side = side /\ e.tick = t, [level |-> EmptyLevel]).level

\* The id map is rebuilt from the slots that are not freed.
RestoreIds(img) ==
    LET ids == {img.orders[i].order.id : i \in DOMAIN img.orders} \ {0}
    IN  [id \in ids |-> LastWhere(img.orders, LAMBDA e : e.order.id = id, [slot |-> NIL]).slot]

\* Levels and slots that are not in the image stay as Book::new made them.
Restore(img) ==
    [pool     |-> [s \in Slots |-> RestoreSlot(img, s)],
     lane     |-> [side \in Sides |-> [t \in Ticks |-> RestoreLevel(img, side, t)]],
     hwm      |-> img.hwm,
     best     |-> img.best,
     freeHead |-> img.freeHead,
     idmap    |-> RestoreIds(img)]
=============================================================================
