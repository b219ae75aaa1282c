----------------------------- MODULE UltimaBook -----------------------------
(***************************************************************************)
(* The order book on top of the ultima_db store                            *)
(* (rust/smr-collections/ultima-common/src/lib.rs): a table of levels, a   *)
(* table of orders and a meta record, as a value, and the commands as      *)
(* functions from tables to tables.  A row id comes from the table's       *)
(* auto-increment counter and is never used again: the slot of an order is *)
(* its row id less one, and there is no free list.  Beside the tables the  *)
(* adapter keeps a map from order id to row id.                            *)
(*                                                                         *)
(* Each command exists twice in the code, with the tables opened for every *)
(* command (apply_insert, ...) and once per batch (apply_insert_mt, ...);  *)
(* the bodies are the same.  The digests of common/src/digest.rs are what  *)
(* both kinds of book must agree on.                                       *)
(***************************************************************************)
EXTENDS BookSnapshot, SequencesExt

SlotOf(row) == row - 1
RowOf(slot) == slot + 1
LevelId(side, t) == side * Levels + t + 1

NewLevelRow(i) ==
    [side |-> (i - 1) \div Levels, tick |-> (i - 1) % Levels,
     head |-> NIL, tail |-> NIL, qtyTotal |-> 0, count |-> 0]

\* A book is its tables and the id map.  `nextRow` is the counter inside the
\* orders table.
NewTables ==
    [levels  |-> [i \in 1..(2 * Levels) |-> NewLevelRow(i)],
     orders  |-> [row \in {} |-> ZeroOrder],
     nextRow |-> 1,
     hwm     |-> 0,
     best    |-> [side \in Sides |-> NoLevel]]

NewUltima == [db |-> NewTables, ids |-> [id \in {} |-> 0]]

\* Links are followed by slot; NIL has no row.
LinkNext(orders, slot, v) ==
    IF slot = NIL THEN orders ELSE [orders EXCEPT ![RowOf(slot)].next = v]
LinkPrev(orders, slot, v) ==
    IF slot = NIL THEN orders ELSE [orders EXCEPT ![RowOf(slot)].prev = v]

ApplyInsert(u, id, price, qty, side) ==
    LET t     == TickOf(price)
        lid   == LevelId(side, t)
        level == u.db.levels[lid]
        row   == u.db.nextRow
        slot  == SlotOf(row)
        order == [id |-> id, price |-> price, qty |-> qty, filled |-> 0,
                  next |-> NIL, prev |-> level.tail, side |-> side]
        added == [r \in DOMAIN u.db.orders \cup {row} |->
                    IF r = row THEN order ELSE u.db.orders[r]]
    IN  [db  |-> [levels  |-> [u.db.levels EXCEPT ![lid] =
                                 [side     |-> level.side,
                                  tick     |-> level.tick,
                                  head     |-> IF level.tail = NIL THEN slot ELSE level.head,
                                  tail     |-> slot,
                                  qtyTotal |-> level.qtyTotal + qty,
                                  count    |-> level.count + 1]],
                  orders  |-> LinkNext(added, level.tail, slot),
                  nextRow |-> row + 1,
                  hwm     |-> slot + 1,
                  best    |-> ImproveBest(u.db.best, side, t)],
         ids |-> [i \in DOMAIN u.ids \cup {id} |-> IF i = id THEN row ELSE u.ids[i]]]

ApplyUpdate(u, id, fillQty) ==
    LET row == u.ids[id]
        o   == u.db.orders[row]
        add == Min({fillQty, o.qty - o.filled})
    IN  [u EXCEPT !.db.orders[row].filled = @ + add,
                  !.db.levels[LevelId(o.side, TickOf(o.price))].qtyTotal = @ - add]

\* Faulty variant: the best is looked for on the emptied side of the ladder.
RescanBestUp(levels, best, side, t) ==
    LET occupied == {i \in t..(Levels - 1) : levels[LevelId(side, i)].head # NIL}
    IN  IF best[side] # t \/ levels[LevelId(side, t)].head # NIL THEN best
        ELSE [best EXCEPT ![side] = IF occupied = {} THEN NoLevel ELSE Min(occupied)]

\* repair_best: nothing is written if the level was not emptied, or was not
\* the best.
RescanBest(levels, best, side, t) ==
    LET behind   == IF side = BID THEN 0..t ELSE t..(Levels - 1)
        occupied == {i \in behind : levels[LevelId(side, i)].head # NIL}
    IN  IF best[side] # t \/ levels[LevelId(side, t)].head # NIL THEN best
        ELSE [best EXCEPT ![side] =
                 IF occupied = {} THEN NoLevel
                 ELSE IF side = BID THEN Max(occupied) ELSE Min(occupied)]

\* A cancel and a complete fill are the same: the row is deleted.
ApplyCancel(u, id) ==
    LET row      == u.ids[id]
        slot     == SlotOf(row)
        o        == u.db.orders[row]
        t        == TickOf(o.price)
        lid      == LevelId(o.side, t)
        level    == u.db.levels[lid]
        unlinked == LinkPrev(LinkNext(u.db.orders, o.prev, o.next), o.next, o.prev)
        levels   == [u.db.levels EXCEPT ![lid] =
                       [side     |-> level.side,
                        tick     |-> level.tick,
                        head     |-> IF level.head = slot THEN o.next ELSE level.head,
                        tail     |-> IF level.tail = slot THEN o.prev ELSE level.tail,
                        qtyTotal |-> level.qtyTotal - (o.qty - o.filled),
                        count    |-> level.count - 1]]
    IN  [db  |-> [levels  |-> levels,
                  orders  |-> Restrict(unlinked, DOMAIN unlinked \ {row}),
                  nextRow |-> u.db.nextRow,
                  hwm     |-> u.db.hwm,
                  best    |-> RescanBest(levels, u.db.best, o.side, t)],
         ids |-> Restrict(u.ids, DOMAIN u.ids \ {id})]

\* The commands of a batch that opened its tables once.
ApplyInsertMt(u, id, price, qty, side) == ApplyInsert(u, id, price, qty, side)
ApplyUpdateMt(u, id, fillQty) == ApplyUpdate(u, id, fillQty)
ApplyCancelMt(u, id) == ApplyCancel(u, id)

-----------------------------------------------------------------------------
(* Snapshots.                                                              *)

\* The members of a set of numbers in ascending order, as a scan meets them.
Ascending(S) ==
    [j \in 1..Cardinality(S) |-> CHOOSE p \in S : Cardinality({i \in S : i < p}) = j - 1]

\* The occupied levels in id order and the live rows in id order, each with
\* its slot; there is no free list to encode.
LevelElem(row) ==
    [side |-> row.side, tick |-> row.tick,
     level |-> [head |-> row.head, tail |-> row.tail, qtyTotal |-> row.qtyTotal, count |-> row.count]]

LevelRowElems(db) ==
    LET occupied == Ascending({i \in 1..(2 * Levels) : db.levels[i].head # NIL})
    IN  [j \in 1..Len(occupied) |-> LevelElem(db.levels[occupied[j]])]

OrderRowElems(db) ==
    LET rows == Ascending(DOMAIN db.orders)
    IN  [j \in 1..Len(rows) |-> [slot |-> SlotOf(rows[j]), order |-> db.orders[rows[j]]]]

EncodeAtPanics(db) == GroupPanics(LevelRowElems(db)) \/ GroupPanics(OrderRowElems(db))

EncodeAt(db) ==
    [hwm      |-> db.hwm,
     best     |-> db.best,
     freeHead |-> NIL,
     levels   |-> Group(LevelRowElems(db)),
     orders   |-> Group(OrderRowElems(db))]

\* restore_ultima refuses an orders group that is not in ascending order.
RestoreUltimaFails(img) ==
    \E i \in 1..(Len(img.orders) - 1) : img.orders[i + 1].slot <= img.orders[i].slot

RestoreRowIds(img) ==
    [id \in {e.order.id : e \in Range(img.orders)} |->
        RowOf((CHOOSE e \in Range(img.orders) : e.order.id = id).slot)]

\* Faulty variant: the last order of a level is not restored.
RestoreLevelRowNoTail(e) ==
    [side |-> e.side, tick |-> e.tick, head |-> e.level.head, tail |-> NIL,
     qtyTotal |-> e.level.qtyTotal, count |-> e.level.count]

RestoreLevelRow(e) ==
    [side |-> e.side, tick |-> e.tick, head |-> e.level.head, tail |-> e.level.tail,
     qtyTotal |-> e.level.qtyTotal, count |-> e.level.count]

RestoreLevelRows(img) ==
    [i \in 1..(2 * Levels) |->
        IF i \in {LevelId(e.side, e.tick) : e \in Range(img.levels)}
        THEN RestoreLevelRow(CHOOSE e \in Range(img.levels) : LevelId(e.side, e.tick) = i)
        ELSE NewLevelRow(i)]

\* The tables are loaded in bulk under the row ids of the image.  What the
\* counter of the loaded orders table is, is up to the store.
RestoreUltima(img, nextRow) ==
    [db  |-> [levels  |-> RestoreLevelRows(img),
              orders  |-> [row \in {RowOf(e.slot) : e \in Range(img.orders)} |->
                             (CHOOSE e \in Range(img.orders) : RowOf(e.slot) = row).order],
              nextRow |-> nextRow,
              hwm     |-> img.hwm,
              best    |-> img.best],
     ids |-> RestoreRowIds(img)]

-----------------------------------------------------------------------------
(* Digests: what "the same book" means.  No slot and no row id is in one.  *)

\* The ids of the orders from a head along `next`; `order` holds the orders in
\* use by slot, and no walk is longer than that.
IdsFrom(order, head) ==
    LET size == Cardinality(DOMAIN order)
        ids[j \in 0..size] ==
            [at \in DOMAIN order \cup {NIL} |->
                IF j = 0 \/ at = NIL THEN <<>>
                ELSE <<order[at].id>> \o ids[j - 1][order[at].next]]
    IN  ids[size][head]

DigestOf(best, level, order) ==
    [best   |-> best,
     count  |-> Cardinality(DOMAIN order),
     levels |-> [st \in {st \in Sides \X Ticks : level[st].head # NIL} |->
                    <<level[st].qtyTotal, level[st].count, IdsFrom(order, level[st].head)>>],
     orders |-> {<<order[s].id, order[s].price, order[s].qty, order[s].filled, order[s].side>> :
                    s \in DOMAIN order}]

DigestBook(b) ==
    DigestOf(b.best, [st \in Sides \X Ticks |-> b.lane[st[1]][st[2]]],
             Restrict(b.pool, {s \in 0..(b.hwm - 1) : b.pool[s].id # 0}))

DigestUltima(db) ==
    DigestOf(db.best, [st \in Sides \X Ticks |-> db.levels[LevelId(st[1], st[2])]],
             [s \in {SlotOf(row) : row \in DOMAIN db.orders} |-> db.orders[RowOf(s)]])
=============================================================================
