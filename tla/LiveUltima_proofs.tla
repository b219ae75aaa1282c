------------------------- MODULE LiveUltima_proofs -------------------------
(***************************************************************************)
(* The ultima book (UltimaBook) and the programs over it (LiveUltima).     *)
(*                                                                         *)
(* First the operators.  `Same(u, b)` says that the tables u hold the flat *)
(* book b: one row per order and one per level, the links translated from  *)
(* pool slots to rows.  Each command keeps it (InsertSame, UpdateSame,     *)
(* DepartSame); from it follow that the two have one digest (SameDigest)   *)
(* and that a book restored from an image of the tables is the same book   *)
(* again (RestoreSame).  Without departures rows and slots are numbered    *)
(* alike (`Plain`) and the images are equal (PlainImage).                  *)
(*                                                                         *)
(* Then the programs.  The invariant SafeInv has five parts: BookInv, the  *)
(* books are the same; CountInv, how many orders rest after how many       *)
(* commands, so that there is room; StoreInv, which versions there are;    *)
(* PinInv, what a message pins is in the store and is the book the message *)
(* was made of; SerInv, where the serializer is and what it has read.      *)
(***************************************************************************)
EXTENDS LiveUltima, BookOps_proofs, FunctionTheorems

-----------------------------------------------------------------------------
(* The tables of a flat book.                                              *)

\* The slots that hold an order.
Used(b) == {x \in Slots : b.pool[x].id # 0}

\* The slot an order of the flat book has in the tables, and its links there.
SlotIn(u, b, x) == SlotOf(u.ids[b.pool[x].id])
LinkIn(u, b, x) == IF x = NIL THEN NIL ELSE SlotIn(u, b, x)

\* The row of an order, and that of a level.
OrderIn(u, b, x) ==
    LET o == b.pool[x]
    IN  [id |-> o.id, price |-> o.price, qty |-> o.qty, filled |-> o.filled,
         next |-> LinkIn(u, b, o.next), prev |-> LinkIn(u, b, o.prev), side |-> o.side]

LevelIn(u, b, side, t) ==
    LET l == b.lane[side][t]
    IN  [side |-> side, tick |-> t, head |-> LinkIn(u, b, l.head), tail |-> LinkIn(u, b, l.tail),
         qtyTotal |-> l.qtyTotal, count |-> l.count]

\* A record of tables and an id map.
Shaped(u) ==
    /\ u = [db |-> u.db, ids |-> u.ids]
    /\ u.db = [levels |-> u.db.levels, orders |-> u.db.orders, nextRow |-> u.db.nextRow,
               hwm |-> u.db.hwm, best |-> u.db.best]
    /\ u.db.levels = [p \in 1..(2 * Levels) |-> u.db.levels[p]]
    /\ u.db.orders = [r \in DOMAIN u.db.orders |-> u.db.orders[r]]
    /\ u.ids = [i \in DOMAIN u.ids |-> u.ids[i]]

\* Every order has a row of its own, below the counter; there are no others.
RowsHold(u, live) ==
    /\ u.db.nextRow \in Nat \ {0}
    /\ DOMAIN u.ids = live
    /\ \A i \in live : u.ids[i] \in 1..(u.db.nextRow - 1)
    /\ \A i, j \in live : u.ids[i] = u.ids[j] => i = j
    /\ DOMAIN u.db.orders = {u.ids[i] : i \in live}

\* The ultima book u is the flat book b: each order in its row, each level in
\* its own, the links translated.
Same(u, b) ==
    /\ Shaped(u)
    /\ RowsHold(u, DOMAIN b.idmap)
    /\ \A x \in Used(b) : u.db.orders[RowOf(SlotIn(u, b, x))] = OrderIn(u, b, x)
    /\ \A side \in Sides, t \in Ticks : u.db.levels[LevelId(side, t)] = LevelIn(u, b, side, t)
    /\ u.db.best = b.best

\* The ids of the levels.
LEMMA LevelIdIs ==
    /\ \A side \in Sides, t \in Ticks : /\ LevelId(side, t) \in 1..(2 * Levels)
                                        /\ LevelId(side, t) = LevelPlace(side, t)
    /\ \A c, d \in Sides, s, t \in Ticks : LevelId(c, s) = LevelId(d, t) => c = d /\ s = t
    /\ \A p \in 1..(2 * Levels) : \E side \in Sides, t \in Ticks : p = LevelId(side, t)
<1>1. Levels \in Nat \ {0}
  BY BookConfig
<1>2. \A t \in Ticks : LevelId(BID, t) = t + 1 /\ LevelId(ASK, t) = Levels + t + 1 /\ t \in 0..(Levels - 1)
  <2>1. 0 * Levels = 0 /\ 1 * Levels = Levels
    BY <1>1
  <2>2. \A t \in Ticks : t \in Int
    BY <1>1 DEF Ticks
  <2>. QED BY <1>1, <2>1, <2>2 DEF LevelId, BID, ASK, Ticks
<1>3. \A side \in Sides : side = BID \/ side = ASK
  BY DEF Sides
<1>4. BID # ASK
  BY DEF BID, ASK
<1>5. \A side \in Sides, t \in Ticks : /\ LevelId(side, t) \in 1..(2 * Levels)
                                       /\ LevelId(side, t) = LevelPlace(side, t)
  BY <1>1, <1>2, <1>3, <1>4 DEF LevelPlace
<1>6. ASSUME NEW c \in Sides, NEW d \in Sides, NEW s \in Ticks, NEW t \in Ticks,
             LevelId(c, s) = LevelId(d, t)
      PROVE  c = d /\ s = t
  BY <1>1, <1>2, <1>3, <1>6
<1>7. ASSUME NEW p \in 1..(2 * Levels) PROVE \E side \in Sides, t \in Ticks : p = LevelId(side, t)
  <2>1. CASE p <= Levels
    <3>1. p - 1 \in Ticks /\ p = LevelId(BID, p - 1)
      BY <1>1, <1>2, <1>7, <2>1 DEF Ticks
    <3>. QED BY <3>1 DEF Sides
  <2>2. CASE ~(p <= Levels)
    <3>1. p - 1 - Levels \in Ticks
      BY <1>1, <1>7, <2>2 DEF Ticks
    <3>2. p = LevelId(ASK, p - 1 - Levels)
      BY <1>1, <1>2, <1>7, <3>1
    <3>. QED BY <3>1, <3>2 DEF Sides
  <2>. QED BY <2>1, <2>2
<1>. QED BY <1>5, <1>6, <1>7

\* Slots and rows.
LEMMA RowSlot == \A r \in Int : RowOf(SlotOf(r)) = r /\ SlotOf(RowOf(r)) = r
BY DEF RowOf, SlotOf

\* Links and level ends of a flat book lead to orders.
LinksUsed(b) ==
    /\ \A x \in Used(b) : b.pool[x].next \in Used(b) \cup {NIL} /\ b.pool[x].prev \in Used(b) \cup {NIL}
    /\ \A side \in Sides, t \in Ticks : /\ b.lane[side][t].head \in Used(b) \cup {NIL}
                                        /\ b.lane[side][t].tail \in Used(b) \cup {NIL}

\* A slot that holds an order is the one the id map names for it.
LEMMA OrdersAreUsed ==
    ASSUME NEW b, Intact(b)
    PROVE  /\ \A x \in Used(b) : /\ x \in Slots /\ b.pool[x].id \in DOMAIN b.idmap
                                 /\ b.idmap[b.pool[x].id] = x /\ x < b.hwm
           /\ \A i \in DOMAIN b.idmap : /\ b.idmap[i] \in Used(b)
                                        /\ b.pool[b.idmap[i]].id = i
                                        /\ i \in Nat \ {0}
           /\ NIL \notin Slots
<1>1. b \in Books /\ SlotsHold(b)
  BY IntactBooks
<1>2. NIL \notin Slots
  BY BookConfig DEF NIL, Slots
<1>3. ASSUME NEW i \in DOMAIN b.idmap
      PROVE  b.idmap[i] \in Used(b) /\ b.pool[b.idmap[i]].id = i /\ i \in Nat \ {0}
  <2>1. i \in Nat \ {0} /\ b.idmap[i] \in Slots
    BY <1>1, IdMapTyped
  <2>. QED BY <1>1, <2>1 DEF SlotsHold, Used
<1>4. \A x \in Used(b) : /\ x \in Slots /\ b.pool[x].id \in DOMAIN b.idmap
                         /\ b.idmap[b.pool[x].id] = x /\ x < b.hwm
  BY <1>1 DEF SlotsHold, Used
<1>. QED BY <1>2, <1>3, <1>4

\* No link and no level end leads to a free slot.
LEMMA LinksLead ==
    ASSUME NEW b, Intact(b) PROVE LinksUsed(b)
<1>1. PICK q, f : Holds(b, q, f)
  BY DEF Intact
<1>2. /\ b \in Books
      /\ \A side \in Sides, t \in Ticks : LevelHolds(b, side, t, q[side][t])
  BY <1>1 DEF Holds
<1>3. ASSUME NEW side \in Sides, NEW t \in Ticks, NEW i \in 1..Len(q[side][t])
      PROVE  q[side][t][i] \in Used(b)
  <2>1. LevelHolds(b, side, t, q[side][t])
    BY <1>2
  <2>. DEFINE l == q[side][t]
  <2>2. l \in Seq(Slots)
    BY <2>1 DEF LevelHolds, ListFrom
  <2>. HIDE DEF l
  <2>3. l[i] \in Slots
    BY <1>3, <2>2, ElementOfSeq DEF l
  <2>4. RestsAt(b, l[i], side, t)
    BY <1>3, <2>1, <2>3 DEF LevelHolds, l
  <2>. QED BY <2>3, <2>4 DEF RestsAt, Used, l
<1>4. ASSUME NEW x \in Used(b)
      PROVE  b.pool[x].next \in Used(b) \cup {NIL} /\ b.pool[x].prev \in Used(b) \cup {NIL}
  <2>1. x \in Slots /\ b.pool[x].id \in DOMAIN b.idmap /\ b.idmap[b.pool[x].id] = x
    BY OrdersAreUsed
  <2>. DEFINE side == b.pool[x].side
              t == TickOf(b.pool[x].price)
              l == q[side][t]
  <2>2. side \in Sides /\ t \in Ticks /\ \E i : i \in 1..Len(l) /\ l[i] = x
    <3>1. /\ b.pool[b.idmap[b.pool[x].id]].side \in Sides
          /\ TickOf(b.pool[b.idmap[b.pool[x].id]].price) \in Ticks
          /\ \E i : PlaceOf(b, q, b.pool[x].id, i)
      BY <1>1, <2>1, OrderIsListed
    <3>. QED BY <2>1, <3>1 DEF PlaceOf
  <2>3. LevelHolds(b, side, t, l)
    BY <1>2, <2>2
  <2>4. \A i \in 1..Len(l) : l[i] \in Used(b)
    BY <1>3, <2>2
  <2>. HIDE DEF side, t, l
  <2>5. PICK i \in 1..Len(l) : l[i] = x
    BY <2>2
  <2>6. l \in Seq(Slots)
    BY <2>3 DEF LevelHolds, ListFrom
  <2>7. b.pool[x].prev = IF i = 1 THEN NIL ELSE l[i - 1]
    BY <2>3, <2>5 DEF LevelHolds
  <2>8. b.pool[x].next = IF i = Len(l) THEN NIL ELSE l[i + 1]
    BY <2>3, <2>5 DEF LevelHolds, ListFrom
  <2>9. (i # 1 => i - 1 \in 1..Len(l)) /\ (i # Len(l) => i + 1 \in 1..Len(l))
    BY <2>5, <2>6
  <2>. QED BY <2>4, <2>7, <2>8, <2>9
<1>5. ASSUME NEW side \in Sides, NEW t \in Ticks
      PROVE  b.lane[side][t].head \in Used(b) \cup {NIL} /\ b.lane[side][t].tail \in Used(b) \cup {NIL}
  <2>. DEFINE l == q[side][t]
  <2>1. LevelHolds(b, side, t, l) /\ \A i \in 1..Len(l) : l[i] \in Used(b)
    BY <1>2, <1>3
  <2>. HIDE DEF l
  <2>2. l \in Seq(Slots)
    BY <2>1 DEF LevelHolds, ListFrom
  <2>3. /\ b.lane[side][t].head = IF Len(l) = 0 THEN NIL ELSE l[1]
        /\ b.lane[side][t].tail = IF Len(l) = 0 THEN NIL ELSE l[Len(l)]
    BY <2>1 DEF LevelHolds, ListFrom
  <2>4. Len(l) # 0 => 1 \in 1..Len(l) /\ Len(l) \in 1..Len(l)
    BY <2>2
  <2>. QED BY <2>1, <2>3, <2>4
<1>. QED BY <1>4, <1>5 DEF LinksUsed

\* The slots of the tables: one for each order and for no other.
LEMMA SlotsIn ==
    ASSUME NEW u, NEW b, Intact(b), Same(u, b)
    PROVE  /\ u.db.nextRow \in Nat \ {0}
           /\ \A x \in Used(b) : /\ SlotIn(u, b, x) \in 0..(u.db.nextRow - 2)
                                 /\ SlotIn(u, b, x) # NIL /\ x # NIL
                                 /\ RowOf(SlotIn(u, b, x)) = u.ids[b.pool[x].id]
                                 /\ RowOf(SlotIn(u, b, x)) \in DOMAIN u.db.orders
           /\ \A x, y \in Used(b) \cup {NIL} : LinkIn(u, b, x) = LinkIn(u, b, y) => x = y
           /\ \A r \in DOMAIN u.db.orders : /\ r \in 1..(u.db.nextRow - 1)
                                            /\ \E x \in Used(b) : r = RowOf(SlotIn(u, b, x))
<1>1. RowsHold(u, DOMAIN b.idmap)
  BY DEF Same
<1>2. u.db.nextRow \in Nat \ {0}
  BY <1>1 DEF RowsHold
<1>3. ASSUME NEW x \in Used(b)
      PROVE  /\ SlotIn(u, b, x) \in 0..(u.db.nextRow - 2) /\ SlotIn(u, b, x) # NIL /\ x # NIL
             /\ RowOf(SlotIn(u, b, x)) = u.ids[b.pool[x].id]
             /\ RowOf(SlotIn(u, b, x)) \in DOMAIN u.db.orders
  <2>1. b.pool[x].id \in DOMAIN b.idmap /\ x # NIL
    BY OrdersAreUsed
  <2>. DEFINE r == u.ids[b.pool[x].id]
  <2>2. r \in 1..(u.db.nextRow - 1) /\ r \in DOMAIN u.db.orders
    BY <1>1, <2>1 DEF RowsHold
  <2>3. SlotIn(u, b, x) = r - 1 /\ RowOf(SlotIn(u, b, x)) = r - 1 + 1
    BY DEF SlotIn, SlotOf, RowOf
  <2>. HIDE DEF r
  <2>4. r - 1 + 1 = r /\ r - 1 \in 0..(u.db.nextRow - 2) /\ r - 1 # NIL
    BY <1>2, <2>2 DEF NIL
  <2>. QED BY <2>1, <2>2, <2>3, <2>4 DEF r
<1>4. ASSUME NEW x \in Used(b), NEW y \in Used(b), SlotIn(u, b, x) = SlotIn(u, b, y) PROVE x = y
  <2>1. u.ids[b.pool[x].id] = u.ids[b.pool[y].id]
    BY <1>3, <1>4
  <2>2. /\ b.pool[x].id \in DOMAIN b.idmap /\ b.idmap[b.pool[x].id] = x
        /\ b.pool[y].id \in DOMAIN b.idmap /\ b.idmap[b.pool[y].id] = y
    BY OrdersAreUsed
  <2>3. b.pool[x].id = b.pool[y].id
    BY <1>1, <2>1, <2>2 DEF RowsHold
  <2>. QED BY <2>2, <2>3
<1>5. ASSUME NEW x \in Used(b) \cup {NIL}, NEW y \in Used(b) \cup {NIL}, LinkIn(u, b, x) = LinkIn(u, b, y)
      PROVE  x = y
  BY <1>3, <1>4, <1>5 DEF LinkIn
<1>6. ASSUME NEW r \in DOMAIN u.db.orders
      PROVE  r \in 1..(u.db.nextRow - 1) /\ \E x \in Used(b) : r = RowOf(SlotIn(u, b, x))
  <2>1. PICK i \in DOMAIN b.idmap : r = u.ids[i]
    BY <1>1, <1>6 DEF RowsHold
  <2>2. b.idmap[i] \in Used(b) /\ b.pool[b.idmap[i]].id = i
    BY <2>1, OrdersAreUsed
  <2>3. RowOf(SlotIn(u, b, b.idmap[i])) = r
    BY <1>3, <2>1, <2>2
  <2>. QED BY <1>1, <2>1, <2>2, <2>3 DEF RowsHold
<1>. QED BY <1>2, <1>3, <1>5, <1>6

\* The rows of orders in other tables, whose orders have the rows they had.
LEMMA SlotKept ==
    ASSUME NEW u, NEW b, NEW v, NEW m, NEW x, m.pool[x].id = b.pool[x].id,
           v.ids[b.pool[x].id] = u.ids[b.pool[x].id]
    PROVE  SlotIn(v, m, x) = SlotIn(u, b, x) /\ LinkIn(v, m, x) = LinkIn(u, b, x)
BY DEF SlotIn, LinkIn

-----------------------------------------------------------------------------
(* An insert.                                                              *)

\* The row of a new order, and the rows and levels after an insert.
RowOrder(u, id, price, qty, side) ==
    [id |-> id, price |-> price, qty |-> qty, filled |-> 0, next |-> NIL,
     prev |-> u.db.levels[LevelId(side, TickOf(price))].tail, side |-> side]

OrdersInserted(u, tail, order) ==
    LET row  == u.db.nextRow
        more == [r \in DOMAIN u.db.orders \cup {row} |-> IF r = row THEN order ELSE u.db.orders[r]]
    IN  LinkNext(more, tail, SlotOf(row))

LevelInserted(level, slot, qty) ==
    [side |-> level.side, tick |-> level.tick,
     head |-> IF level.tail = NIL THEN slot ELSE level.head, tail |-> slot,
     qtyTotal |-> level.qtyTotal + qty, count |-> level.count + 1]

\* An insert into both is an insert into the same book.
LEMMA InsertSame ==
    ASSUME NEW u, NEW b, Intact(b), Same(u, b), ~Exhausted(b),
           NEW id \in Nat \ {0}, id \notin DOMAIN b.idmap,
           NEW t \in Ticks, NEW qty \in Nat, NEW side \in Sides
    PROVE  Same(ApplyInsert(u, id, PriceOf(t), qty, side), Insert(b, id, PriceOf(t), qty, side))
<1>. DEFINE price == PriceOf(t)
            v == ApplyInsert(u, id, price, qty, side)
            m == Insert(b, id, price, qty, side)
            s == NextSlot(b)
            o == NewOrder(b, id, price, qty, side)
            w == RowOrder(u, id, price, qty, side)
            lid == LevelId(side, t)
            row == u.db.nextRow
            tail == b.lane[side][t].tail
            utail == u.db.levels[lid].tail
<1>1. b \in Books /\ price \in Int /\ TickOf(price) = t /\ TickOf(price) \in Ticks
  BY IntactBooks, TickOfPrice
<1>2. Inserted(b, m, s, t, o)
  BY <1>1, InsertEffect
<1>3. Intact(m) /\ DOMAIN m.idmap = DOMAIN b.idmap \cup {id}
  BY InsertIntact
<1>4. s \in Slots /\ b.pool[s].id = 0 /\ s # tail
  <2>1. PICK q, f : Holds(b, q, f)
    BY DEF Intact
  <2>. QED BY <2>1, NextSlotIsFree
<1>5. /\ Shaped(u) /\ RowsHold(u, DOMAIN b.idmap) /\ u.db.best = b.best
      /\ \A x \in Used(b) : u.db.orders[RowOf(SlotIn(u, b, x))] = OrderIn(u, b, x)
      /\ \A d \in Sides, i \in Ticks : u.db.levels[LevelId(d, i)] = LevelIn(u, b, d, i)
  BY DEF Same
<1>6. row \in Nat \ {0} /\ lid \in 1..(2 * Levels)
  BY <1>5, LevelIdIs DEF RowsHold
<1>7. /\ u.db.levels[lid] = LevelIn(u, b, side, t) /\ utail = LinkIn(u, b, tail)
      /\ u.db.levels[lid].side = side /\ u.db.levels[lid].tick = t
      /\ u.db.levels[lid].head = LinkIn(u, b, b.lane[side][t].head)
      /\ u.db.levels[lid].qtyTotal = b.lane[side][t].qtyTotal
      /\ u.db.levels[lid].count = b.lane[side][t].count
  BY <1>5 DEF LevelIn
<1>8. v = [db |-> [levels  |-> [u.db.levels EXCEPT ![lid] = LevelInserted(u.db.levels[lid], SlotOf(row), qty)],
                   orders  |-> OrdersInserted(u, utail, w),
                   nextRow |-> row + 1,
                   hwm     |-> SlotOf(row) + 1,
                   best    |-> ImproveBest(u.db.best, side, t)],
           ids |-> [i \in DOMAIN u.ids \cup {id} |-> IF i = id THEN row ELSE u.ids[i]]]
  <2>. DEFINE level == u.db.levels[LevelId(side, TickOf(price))]
  <2>1. v = [db |-> [levels  |-> [u.db.levels EXCEPT ![LevelId(side, TickOf(price))] =
                                     LevelInserted(level, SlotOf(row), qty)],
                     orders  |-> OrdersInserted(u, level.tail, w),
                     nextRow |-> row + 1,
                     hwm     |-> SlotOf(row) + 1,
                     best    |-> ImproveBest(u.db.best, side, TickOf(price))],
             ids |-> [i \in DOMAIN u.ids \cup {id} |-> IF i = id THEN row ELSE u.ids[i]]]
    BY Zenon DEF ApplyInsert, RowOrder, LevelInserted, OrdersInserted
  <2>. HIDE DEF price, v, w
  <2>. QED BY <1>1, <2>1
<1>. HIDE DEF v, m, s, o, w, price
<1>9. /\ w = [id |-> id, price |-> price, qty |-> qty, filled |-> 0, next |-> NIL,
              prev |-> utail, side |-> side]
      /\ o = [id |-> id, price |-> price, qty |-> qty, filled |-> 0, next |-> NIL,
              prev |-> tail, side |-> side]
  BY <1>1 DEF w, o, RowOrder, NewOrder
<1>10. LinksUsed(b)
  BY LinksLead
<1>11. /\ m.pool[s] = o
       /\ \A x \in Slots \ {s} : /\ SameOrder(m, b, x)
                                 /\ m.pool[x].prev = b.pool[x].prev
                                 /\ m.pool[x].next = IF x = tail THEN s ELSE b.pool[x].next
       /\ m.lane[side][t] = [head     |-> IF tail = NIL THEN s ELSE b.lane[side][t].head,
                             tail     |-> s,
                             qtyTotal |-> b.lane[side][t].qtyTotal + qty,
                             count    |-> b.lane[side][t].count + 1]
       /\ \A d \in Sides, i \in Ticks : d # side \/ i # t => m.lane[d][i] = b.lane[d][i]
       /\ m.best = ImproveBest(b.best, side, t)
  BY <1>2, <1>4, <1>9 DEF Inserted
<1>12. Used(m) = Used(b) \cup {s} /\ s \notin Used(b)
  BY <1>4, <1>9, <1>11 DEF Used, SameOrder
<1>13. v.ids = [i \in DOMAIN b.idmap \cup {id} |-> IF i = id THEN row ELSE u.ids[i]]
  BY <1>5, <1>8 DEF RowsHold
<1>14. /\ \A x \in Used(b) : SlotIn(v, m, x) = SlotIn(u, b, x)
       /\ \A x \in Used(b) \cup {NIL} : LinkIn(v, m, x) = LinkIn(u, b, x)
  <2>1. ASSUME NEW x \in Used(b)
        PROVE  SlotIn(v, m, x) = SlotIn(u, b, x) /\ LinkIn(v, m, x) = LinkIn(u, b, x)
    <3>1. b.pool[x].id \in DOMAIN b.idmap /\ x \in Slots \ {s}
      BY <1>12, OrdersAreUsed
    <3>2. m.pool[x].id = b.pool[x].id
      BY <1>11, <3>1 DEF SameOrder
    <3>3. v.ids[b.pool[x].id] = u.ids[b.pool[x].id]
      BY <1>13, <3>1
    <3>. QED BY <3>2, <3>3, SlotKept
  <2>2. LinkIn(v, m, NIL) = LinkIn(u, b, NIL)
    BY DEF LinkIn
  <2>. QED BY <2>1, <2>2
<1>15. SlotIn(v, m, s) = SlotOf(row) /\ LinkIn(v, m, s) = SlotOf(row) /\ RowOf(SlotOf(row)) = row
  <2>1. m.pool[s].id = id /\ v.ids[id] = row
    BY <1>9, <1>11, <1>13
  <2>2. s # NIL
    BY <1>4, OrdersAreUsed
  <2>. QED BY <1>6, <2>1, <2>2, RowSlot DEF SlotIn, LinkIn
<1>16. tail \in Used(b) \cup {NIL} /\ b.lane[side][t].head \in Used(b) \cup {NIL}
  BY <1>10 DEF LinksUsed
<1>17. utail = NIL <=> tail = NIL
  BY <1>7, <1>16, SlotsIn DEF LinkIn
<1>18. /\ DOMAIN u.db.orders = {u.ids[i] : i \in DOMAIN b.idmap}
       /\ row \notin DOMAIN u.db.orders
       /\ \A r \in DOMAIN u.db.orders : r \in 1..(row - 1)
  <2>1. \A r \in DOMAIN u.db.orders : r \in 1..(row - 1)
    BY SlotsIn
  <2>. QED BY <1>5, <1>6, <2>1 DEF RowsHold
<1>19. tail # NIL => RowOf(utail) \in DOMAIN u.db.orders /\ RowOf(utail) # row
  <2>1. tail # NIL => utail = SlotIn(u, b, tail) /\ tail \in Used(b)
    BY <1>7, <1>16 DEF LinkIn
  <2>. QED BY <1>18, <2>1, SlotsIn
<1>20. /\ v.db.orders = OrdersInserted(u, utail, w)
       /\ v.db.levels = [u.db.levels EXCEPT ![lid] = LevelInserted(u.db.levels[lid], SlotOf(row), qty)]
       /\ v.db.nextRow = row + 1 /\ v.db.best = ImproveBest(u.db.best, side, t)
  BY <1>8
<1>21. /\ DOMAIN v.db.orders = DOMAIN u.db.orders \cup {row}
       /\ v.db.orders = [r \in DOMAIN v.db.orders |-> v.db.orders[r]]
       /\ v.db.orders[row] = w
       /\ \A r \in DOMAIN u.db.orders :
             v.db.orders[r] = IF tail # NIL /\ r = RowOf(utail)
                              THEN [u.db.orders[r] EXCEPT !.next = SlotOf(row)] ELSE u.db.orders[r]
  <2>. DEFINE more == [r \in DOMAIN u.db.orders \cup {row} |-> IF r = row THEN w ELSE u.db.orders[r]]
  <2>1. v.db.orders = LinkNext(more, utail, SlotOf(row))
    BY <1>20, Zenon DEF OrdersInserted
  <2>2. LinkNext(more, utail, SlotOf(row)) =
          IF tail = NIL THEN more
          ELSE [more EXCEPT ![RowOf(utail)] = [more[RowOf(utail)] EXCEPT !.next = SlotOf(row)]]
    <3>. HIDE DEF more, utail, tail
    <3>. QED BY <1>17 DEF LinkNext
  <2>. HIDE DEF v, row, utail, tail
  <2>. QED BY <1>18, <1>19, <2>1, <2>2
<1>22. v.db.levels = [u.db.levels EXCEPT ![lid] =
            [side |-> side, tick |-> t,
             head |-> IF utail = NIL THEN SlotOf(row) ELSE u.db.levels[lid].head,
             tail |-> SlotOf(row),
             qtyTotal |-> u.db.levels[lid].qtyTotal + qty, count |-> u.db.levels[lid].count + 1]]
  <2>. HIDE DEF v, lid, row
  <2>. QED BY <1>7, <1>20 DEF LevelInserted
<1>23. Shaped(v)
  <2>1. v.db.levels = [p \in 1..(2 * Levels) |-> v.db.levels[p]]
    <3>1. u.db.levels = [p \in 1..(2 * Levels) |-> u.db.levels[p]]
      BY <1>5 DEF Shaped
    <3>. HIDE DEF lid, utail, row
    <3>. QED BY <1>22, <3>1
  <2>2. v = [db |-> v.db, ids |-> v.ids]
    BY <1>8
  <2>3. v.db = [levels |-> v.db.levels, orders |-> v.db.orders, nextRow |-> v.db.nextRow,
                hwm |-> v.db.hwm, best |-> v.db.best]
    BY <1>8
  <2>4. v.ids = [i \in DOMAIN v.ids |-> v.ids[i]]
    BY <1>13
  <2>. QED BY <1>21, <2>1, <2>2, <2>3, <2>4 DEF Shaped
<1>24. RowsHold(v, DOMAIN m.idmap)
  <2>1. /\ \A i \in DOMAIN b.idmap : u.ids[i] \in 1..(row - 1)
        /\ \A i, j \in DOMAIN b.idmap : u.ids[i] = u.ids[j] => i = j
    BY <1>5 DEF RowsHold
  <2>2. DOMAIN v.ids = DOMAIN m.idmap /\ v.ids[id] = row
        /\ \A i \in DOMAIN b.idmap : v.ids[i] = u.ids[i]
    BY <1>3, <1>13
  <2>3. v.db.nextRow \in Nat \ {0} /\ v.db.nextRow - 1 = row
    BY <1>6, <1>20
  <2>. HIDE DEF row
  <2>4. \A i \in DOMAIN m.idmap : v.ids[i] \in 1..(v.db.nextRow - 1)
    BY <1>3, <1>6, <2>1, <2>2, <2>3
  <2>5. \A i, j \in DOMAIN m.idmap : v.ids[i] = v.ids[j] => i = j
    <3>1. \A i \in DOMAIN b.idmap : u.ids[i] # row
      BY <1>6, <2>1
    <3>. QED BY <1>3, <2>1, <2>2, <3>1
  <2>6. DOMAIN v.db.orders = {v.ids[i] : i \in DOMAIN m.idmap}
    BY <1>3, <1>18, <1>21, <2>2
  <2>. QED BY <2>2, <2>3, <2>4, <2>5, <2>6 DEF RowsHold
<1>25. ASSUME NEW x \in Used(m)
       PROVE  v.db.orders[RowOf(SlotIn(v, m, x))] = OrderIn(v, m, x)
  <2>1. CASE x = s
    <3>1. OrderIn(v, m, s) = [id |-> id, price |-> price, qty |-> qty, filled |-> 0,
              next |-> LinkIn(v, m, NIL), prev |-> LinkIn(v, m, tail), side |-> side]
      BY <1>9, <1>11 DEF OrderIn
    <3>2. LinkIn(v, m, NIL) = NIL /\ LinkIn(v, m, tail) = utail
      BY <1>7, <1>14, <1>16 DEF LinkIn
    <3>. QED BY <1>9, <1>15, <1>21, <2>1, <3>1, <3>2
  <2>2. CASE x # s
    <3>1. x \in Used(b) /\ x \in Slots \ {s}
      BY <1>12, <2>2, OrdersAreUsed
    <3>2. b.pool[x].next \in Used(b) \cup {NIL} /\ b.pool[x].prev \in Used(b) \cup {NIL}
      BY <1>10, <3>1 DEF LinksUsed
    <3>. DEFINE r == RowOf(SlotIn(u, b, x))
    <3>3. r \in DOMAIN u.db.orders /\ RowOf(SlotIn(v, m, x)) = r /\ u.db.orders[r] = OrderIn(u, b, x)
      BY <1>5, <1>14, <3>1, SlotsIn
    <3>4. (tail # NIL /\ r = RowOf(utail)) <=> x = tail
      <4>1. ASSUME tail # NIL, r = RowOf(utail) PROVE x = tail
        <5>1. tail \in Used(b) /\ utail = SlotIn(u, b, tail)
          BY <1>7, <1>16, <4>1 DEF LinkIn
        <5>2. SlotIn(u, b, x) \in Int /\ SlotIn(u, b, tail) \in Int
          BY <3>1, <5>1, SlotsIn
        <5>3. SlotIn(u, b, x) = SlotIn(u, b, tail)
          BY <4>1, <5>1, <5>2 DEF RowOf
        <5>4. LinkIn(u, b, x) = LinkIn(u, b, tail)
          <6>1. x # NIL /\ tail # NIL
            BY <3>1, <4>1, SlotsIn
          <6>. QED BY <5>3, <6>1 DEF LinkIn
        <5>. QED BY <3>1, <5>1, <5>4, SlotsIn
      <4>2. ASSUME x = tail PROVE tail # NIL /\ r = RowOf(utail)
        <5>1. tail # NIL
          BY <3>1, <4>2, SlotsIn
        <5>. QED BY <1>7, <4>2, <5>1 DEF LinkIn
      <4>. QED BY <4>1, <4>2
    <3>5. /\ SameOrder(m, b, x) /\ m.pool[x].prev = b.pool[x].prev
          /\ m.pool[x].next = IF x = tail THEN s ELSE b.pool[x].next
      BY <1>11, <3>1
    <3>6. /\ LinkIn(v, m, m.pool[x].prev) = LinkIn(u, b, b.pool[x].prev)
          /\ LinkIn(v, m, m.pool[x].next) = IF x = tail THEN SlotOf(row) ELSE LinkIn(u, b, b.pool[x].next)
      BY <1>14, <1>15, <3>2, <3>5
    <3>7. v.db.orders[r] = IF x = tail THEN [OrderIn(u, b, x) EXCEPT !.next = SlotOf(row)]
                           ELSE OrderIn(u, b, x)
      <4>. HIDE DEF r
      <4>. QED BY <1>21, <3>3, <3>4
    <3>. HIDE DEF r
    <3>8. OrderIn(v, m, x) = IF x = tail THEN [OrderIn(u, b, x) EXCEPT !.next = SlotOf(row)]
                             ELSE OrderIn(u, b, x)
      BY <3>5, <3>6 DEF OrderIn, SameOrder
    <3>. QED BY <3>3, <3>7, <3>8
  <2>. QED BY <2>1, <2>2
<1>26. ASSUME NEW d \in Sides, NEW i \in Ticks
       PROVE  v.db.levels[LevelId(d, i)] = LevelIn(v, m, d, i)
  <2>0. LevelId(d, i) \in 1..(2 * Levels) /\ u.db.levels = [p \in 1..(2 * Levels) |-> u.db.levels[p]]
    BY <1>5, LevelIdIs DEF Shaped
  <2>1. CASE d = side /\ i = t
    <3>1. v.db.levels[lid] = [side |-> side, tick |-> t,
             head |-> IF utail = NIL THEN SlotOf(row) ELSE u.db.levels[lid].head,
             tail |-> SlotOf(row),
             qtyTotal |-> u.db.levels[lid].qtyTotal + qty, count |-> u.db.levels[lid].count + 1]
      BY <1>6, <1>22, <2>0
    <3>2. LevelIn(v, m, side, t) = [side |-> side, tick |-> t,
             head |-> LinkIn(v, m, IF tail = NIL THEN s ELSE b.lane[side][t].head),
             tail |-> LinkIn(v, m, s),
             qtyTotal |-> b.lane[side][t].qtyTotal + qty, count |-> b.lane[side][t].count + 1]
      BY <1>11 DEF LevelIn
    <3>3. LinkIn(v, m, b.lane[side][t].head) = u.db.levels[lid].head
      BY <1>7, <1>14, <1>16
    <3>. QED BY <1>7, <1>15, <1>17, <2>1, <3>1, <3>2, <3>3
  <2>2. CASE d # side \/ i # t
    <3>1. LevelId(d, i) # lid
      BY <2>2, LevelIdIs
    <3>2. v.db.levels[LevelId(d, i)] = u.db.levels[LevelId(d, i)]
      <4>. HIDE DEF lid, utail, row
      <4>. QED BY <1>22, <2>0, <3>1
    <3>3. m.lane[d][i] = b.lane[d][i]
      BY <1>11, <2>2
    <3>4. b.lane[d][i].head \in Used(b) \cup {NIL} /\ b.lane[d][i].tail \in Used(b) \cup {NIL}
      BY <1>10 DEF LinksUsed
    <3>5. LevelIn(v, m, d, i) = LevelIn(u, b, d, i)
      BY <1>14, <3>3, <3>4 DEF LevelIn
    <3>. QED BY <1>5, <3>2, <3>5
  <2>. QED BY <2>1, <2>2
<1>27. v.db.best = m.best
  BY <1>5, <1>11, <1>20
<1>28. Same(v, m)
  BY <1>23, <1>24, <1>25, <1>26, <1>27 DEF Same
<1>. QED BY <1>28 DEF v, m, price

-----------------------------------------------------------------------------
(* A partial fill.                                                         *)

\* Where the order of an id is, in both books.
LEMMA OrderOfId ==
    ASSUME NEW u, NEW b, Intact(b), Same(u, b), NEW id \in DOMAIN b.idmap
    PROVE  LET s == b.idmap[id]
               o == b.pool[s]
               t == TickOf(o.price)
           IN  /\ s \in Used(b) /\ s \in Slots /\ o.id = id /\ t \in Ticks /\ o.side \in Sides
               /\ o.qty \in Nat /\ o.filled \in Nat
               /\ u.ids[id] = RowOf(SlotIn(u, b, s)) /\ u.ids[id] \in DOMAIN u.db.orders
               /\ SlotOf(u.ids[id]) = SlotIn(u, b, s)
               /\ u.db.orders[u.ids[id]] = OrderIn(u, b, s)
               /\ u.db.levels[LevelId(o.side, t)] = LevelIn(u, b, o.side, t)
<1>. DEFINE s == b.idmap[id]
            o == b.pool[s]
            t == TickOf(o.price)
<1>1. PICK q, f : Holds(b, q, f)
  BY DEF Intact
<1>2. s \in Slots /\ o \in Orders /\ t \in Ticks /\ o.side \in Sides
  BY <1>1, OrderIsListed
<1>3. s \in Used(b) /\ o.id = id
  BY OrdersAreUsed
<1>. HIDE DEF s
<1>4. SlotIn(u, b, s) = SlotOf(u.ids[id]) /\ RowOf(SlotIn(u, b, s)) = u.ids[id]
      /\ u.ids[id] \in DOMAIN u.db.orders
  BY <1>3, SlotsIn DEF SlotIn
<1>5. u.db.orders[RowOf(SlotIn(u, b, s))] = OrderIn(u, b, s)
  BY <1>3 DEF Same
<1>6. u.db.levels[LevelId(o.side, t)] = LevelIn(u, b, o.side, t)
  BY <1>2 DEF Same
<1>7. o.qty \in Nat /\ o.filled \in Nat
  BY <1>2 DEF Orders
<1>. QED BY <1>2, <1>3, <1>4, <1>5, <1>6, <1>7 DEF s

\* The tables after a partial fill, part by part.
LEMMA ApplyUpdateIs ==
    ASSUME NEW u, Shaped(u), NEW id, NEW fillQty
    PROVE  LET row == u.ids[id]
               o   == u.db.orders[row]
               lid == LevelId(o.side, TickOf(o.price))
               l   == u.db.levels[lid]
               add == Min({fillQty, o.qty - o.filled})
           IN  ApplyUpdate(u, id, fillQty) =
                  [db |-> [levels  |-> [u.db.levels EXCEPT ![lid] = [l EXCEPT !.qtyTotal = l.qtyTotal - add]],
                           orders  |-> [u.db.orders EXCEPT ![row] = [o EXCEPT !.filled = o.filled + add]],
                           nextRow |-> u.db.nextRow, hwm |-> u.db.hwm, best |-> u.db.best],
                   ids |-> u.ids]
<1>. DEFINE row == u.ids[id]
            o   == u.db.orders[row]
            lid == LevelId(o.side, TickOf(o.price))
            l   == u.db.levels[lid]
            add == Min({fillQty, o.qty - o.filled})
            lv  == [u.db.levels EXCEPT ![lid] = [l EXCEPT !.qtyTotal = l.qtyTotal - add]]
            os  == [u.db.orders EXCEPT ![row] = [o EXCEPT !.filled = o.filled + add]]
<1>1. ApplyUpdate(u, id, fillQty) =
        [u EXCEPT !.db.orders[row].filled = @ + add, !.db.levels[lid].qtyTotal = @ - add]
  BY Zenon DEF ApplyUpdate
<1>2. u = [db |-> u.db, ids |-> u.ids]
      /\ u.db = [levels |-> u.db.levels, orders |-> u.db.orders, nextRow |-> u.db.nextRow,
                 hwm |-> u.db.hwm, best |-> u.db.best]
  BY DEF Shaped
<1>. HIDE DEF add, lid
<1>3. [u EXCEPT !.db.orders[row].filled = @ + add]
        = [db |-> [levels |-> u.db.levels, orders |-> os, nextRow |-> u.db.nextRow,
                   hwm |-> u.db.hwm, best |-> u.db.best],
           ids |-> u.ids]
  BY <1>2
<1>4. [u EXCEPT !.db.orders[row].filled = @ + add, !.db.levels[lid].qtyTotal = @ - add]
        = [db |-> [levels |-> lv, orders |-> os, nextRow |-> u.db.nextRow,
                   hwm |-> u.db.hwm, best |-> u.db.best],
           ids |-> u.ids]
  <2>. DEFINE w == [db |-> [levels |-> u.db.levels, orders |-> os, nextRow |-> u.db.nextRow,
                            hwm |-> u.db.hwm, best |-> u.db.best],
                    ids |-> u.ids]
  <2>1. [w EXCEPT !.db.levels[lid].qtyTotal = @ - add]
          = [db |-> [levels |-> lv, orders |-> os, nextRow |-> u.db.nextRow,
                     hwm |-> u.db.hwm, best |-> u.db.best],
             ids |-> u.ids]
    <3>. HIDE DEF os
    <3>. QED OBVIOUS
  <2>. QED BY <1>3, <2>1
<1>. QED BY <1>1, <1>4 DEF add, lid

\* A partial fill of both is one of the same book.
LEMMA UpdateSame ==
    ASSUME NEW u, NEW b, Intact(b), Same(u, b), NEW id \in DOMAIN b.idmap, NEW fillQty \in Nat
    PROVE  Same(ApplyUpdate(u, id, fillQty), Update(b, id, fillQty))
<1>. DEFINE v == ApplyUpdate(u, id, fillQty)
            m == Update(b, id, fillQty)
            s == b.idmap[id]
            o == b.pool[s]
            t == TickOf(o.price)
            side == o.side
            row == u.ids[id]
            lid == LevelId(side, t)
            open == o.qty - o.filled
            add == IF fillQty < open THEN fillQty ELSE open
<1>1. /\ s \in Used(b) /\ s \in Slots /\ o.id = id /\ t \in Ticks /\ side \in Sides
      /\ o.qty \in Nat /\ o.filled \in Nat
      /\ row = RowOf(SlotIn(u, b, s)) /\ row \in DOMAIN u.db.orders
      /\ u.db.orders[row] = OrderIn(u, b, s)
      /\ u.db.levels[lid] = LevelIn(u, b, side, t)
  BY OrderOfId
<1>2. b \in Books /\ SlotsHold(b) /\ o.filled <= o.qty
  BY <1>1, IntactBooks DEF SlotsHold
<1>3. Updated(b, m, s, add)
  BY <1>1, <1>2, UpdateEffect DEF Open
<1>4. Intact(m) /\ m.idmap = b.idmap
  BY UpdateIntact
<1>5. /\ Shaped(u) /\ RowsHold(u, DOMAIN b.idmap) /\ u.db.best = b.best
      /\ \A x \in Used(b) : u.db.orders[RowOf(SlotIn(u, b, x))] = OrderIn(u, b, x)
      /\ \A d \in Sides, i \in Ticks : u.db.levels[LevelId(d, i)] = LevelIn(u, b, d, i)
  BY DEF Same
<1>6. /\ u.db.orders[row].side = side /\ u.db.orders[row].price = o.price
      /\ u.db.orders[row].qty = o.qty /\ u.db.orders[row].filled = o.filled
  BY <1>1 DEF OrderIn
<1>7. Min({fillQty, open}) = add
  <2>1. open \in Int /\ fillQty \in Int
    BY <1>1
  <2>. HIDE DEF open
  <2>. QED BY <2>1, MinOfTwo, SMTT(30)
<1>8. v = [db |-> [levels  |-> [u.db.levels EXCEPT ![lid] =
                                  [u.db.levels[lid] EXCEPT !.qtyTotal = u.db.levels[lid].qtyTotal - add]],
                   orders  |-> [u.db.orders EXCEPT ![row] =
                                  [u.db.orders[row] EXCEPT !.filled = o.filled + add]],
                   nextRow |-> u.db.nextRow, hwm |-> u.db.hwm, best |-> u.db.best],
           ids |-> u.ids]
  <2>. HIDE DEF open, add, v
  <2>1. v = LET rw  == u.ids[id]
                w   == u.db.orders[rw]
                ld  == LevelId(w.side, TickOf(w.price))
                l   == u.db.levels[ld]
                ad  == Min({fillQty, w.qty - w.filled})
            IN  [db |-> [levels  |-> [u.db.levels EXCEPT ![ld] = [l EXCEPT !.qtyTotal = l.qtyTotal - ad]],
                         orders  |-> [u.db.orders EXCEPT ![rw] = [w EXCEPT !.filled = w.filled + ad]],
                         nextRow |-> u.db.nextRow, hwm |-> u.db.hwm, best |-> u.db.best],
                 ids |-> u.ids]
    BY <1>5, ApplyUpdateIs DEF v
  <2>. QED BY <1>6, <1>7, <2>1, Zenon DEF open
<1>. HIDE DEF v, m, open, add
<1>9. /\ v.ids = u.ids /\ v.db.nextRow = u.db.nextRow /\ v.db.best = u.db.best
      /\ v.db.orders = [u.db.orders EXCEPT ![row] = [u.db.orders[row] EXCEPT !.filled = o.filled + add]]
      /\ v.db.levels = [u.db.levels EXCEPT ![lid] =
                           [u.db.levels[lid] EXCEPT !.qtyTotal = u.db.levels[lid].qtyTotal - add]]
      /\ v = [db |-> v.db, ids |-> v.ids]
      /\ v.db = [levels |-> v.db.levels, orders |-> v.db.orders, nextRow |-> v.db.nextRow,
                 hwm |-> v.db.hwm, best |-> v.db.best]
  BY <1>8
<1>10. /\ u.db.levels = [p \in 1..(2 * Levels) |-> u.db.levels[p]]
       /\ u.db.orders = [r \in DOMAIN u.db.orders |-> u.db.orders[r]]
       /\ u.ids = [i \in DOMAIN u.ids |-> u.ids[i]]
  BY <1>5 DEF Shaped
<1>11. /\ DOMAIN v.db.orders = DOMAIN u.db.orders
       /\ v.db.orders = [r \in DOMAIN v.db.orders |-> v.db.orders[r]]
       /\ v.db.levels = [p \in 1..(2 * Levels) |-> v.db.levels[p]]
       /\ v.db.orders[row] = [u.db.orders[row] EXCEPT !.filled = o.filled + add]
       /\ \A r \in DOMAIN u.db.orders : r # row => v.db.orders[r] = u.db.orders[r]
  <2>. DEFINE os == u.db.orders
              lv == u.db.levels
              changed == [os[row] EXCEPT !.filled = o.filled + add]
              debited == [lv[lid] EXCEPT !.qtyTotal = lv[lid].qtyTotal - add]
  <2>1. /\ v.db.orders = [os EXCEPT ![row] = changed] /\ v.db.levels = [lv EXCEPT ![lid] = debited]
        /\ row \in DOMAIN os
        /\ os = [r \in DOMAIN os |-> os[r]] /\ lv = [p \in 1..(2 * Levels) |-> lv[p]]
    BY <1>1, <1>9, <1>10
  <2>. HIDE DEF row, lid, os, lv, changed, debited
  <2>2. DOMAIN v.db.orders = DOMAIN os /\ v.db.orders = [r \in DOMAIN v.db.orders |-> v.db.orders[r]]
    BY <2>1
  <2>3. v.db.levels = [p \in 1..(2 * Levels) |-> v.db.levels[p]]
    BY <2>1
  <2>4. v.db.orders[row] = changed /\ \A r \in DOMAIN os : r # row => v.db.orders[r] = os[r]
    BY <2>1
  <2>. QED BY <2>2, <2>3, <2>4 DEF os, changed
<1>12. Shaped(v)
  BY <1>9, <1>10, <1>11 DEF Shaped
<1>13. RowsHold(v, DOMAIN m.idmap)
  <2>. HIDE DEF row, lid, o, side, t, s
  <2>1. v.ids = u.ids /\ v.db.nextRow = u.db.nextRow /\ DOMAIN v.db.orders = DOMAIN u.db.orders
        /\ m.idmap = b.idmap
    BY <1>4, <1>9, <1>11
  <2>2. RowsHold(u, DOMAIN b.idmap)
    BY <1>5
  <2>. DEFINE live == DOMAIN b.idmap
  <2>3. ASSUME NEW z, NEW y, y.ids = z.ids, y.db.nextRow = z.db.nextRow,
               DOMAIN y.db.orders = DOMAIN z.db.orders, NEW L, RowsHold(z, L)
        PROVE  RowsHold(y, L)
    BY <2>3 DEF RowsHold
  <2>4. RowsHold(v, live)
    BY <2>1, <2>2, <2>3
  <2>. QED BY <2>1, <2>4
<1>14. /\ m.pool[s] = [o EXCEPT !.filled = o.filled + add]
       /\ \A x \in Slots : x # s => m.pool[x] = b.pool[x]
       /\ m.lane[side][t] = [b.lane[side][t] EXCEPT !.qtyTotal = b.lane[side][t].qtyTotal - add]
       /\ \A d \in Sides, i \in Ticks : d # side \/ i # t => m.lane[d][i] = b.lane[d][i]
       /\ m.best = b.best
  BY <1>3 DEF Updated
<1>15. o \in Orders /\ b.lane[side][t] \in PriceLevels
  BY <1>1, <1>2 DEF Books, Pools, Lanes
<1>16. /\ m.pool[s].id = o.id /\ m.pool[s].price = o.price /\ m.pool[s].qty = o.qty
       /\ m.pool[s].filled = o.filled + add /\ m.pool[s].next = o.next /\ m.pool[s].prev = o.prev
       /\ m.pool[s].side = side
  <2>. HIDE DEF s, o, side
  <2>. QED BY <1>14, <1>15 DEF Orders, side
<1>17. \A x \in Slots : m.pool[x].id = b.pool[x].id
  BY <1>14, <1>16
<1>18. \A x : LinkIn(v, m, x) = IF x = NIL THEN NIL ELSE SlotOf(u.ids[m.pool[x].id])
  BY <1>9 DEF LinkIn, SlotIn
<1>19. Used(m) = Used(b)
  BY <1>17 DEF Used
<1>20. \A x \in Used(b) : SlotIn(v, m, x) = SlotIn(u, b, x)
  BY <1>9, <1>17 DEF SlotIn, Used
<1>21. \A x \in Used(b) \cup {NIL} : LinkIn(v, m, x) = LinkIn(u, b, x)
  BY <1>20 DEF LinkIn
<1>22. LinksUsed(b)
  BY LinksLead
<1>23. ASSUME NEW x \in Used(m)
       PROVE  v.db.orders[RowOf(SlotIn(v, m, x))] = OrderIn(v, m, x)
  <2>1. x \in Used(b) /\ x \in Slots
    BY <1>19 DEF Used
  <2>2. /\ LinkIn(v, m, b.pool[x].next) = LinkIn(u, b, b.pool[x].next)
        /\ LinkIn(v, m, b.pool[x].prev) = LinkIn(u, b, b.pool[x].prev)
    BY <1>21, <1>22, <2>1 DEF LinksUsed
  <2>3. /\ RowOf(SlotIn(v, m, x)) = RowOf(SlotIn(u, b, x)) /\ RowOf(SlotIn(u, b, x)) \in DOMAIN u.db.orders
        /\ u.db.orders[RowOf(SlotIn(u, b, x))] = OrderIn(u, b, x)
    BY <1>5, <1>20, <2>1, SlotsIn
  <2>4. CASE x = s
    <3>1. v.db.orders[RowOf(SlotIn(v, m, x))] = [OrderIn(u, b, s) EXCEPT !.filled = o.filled + add]
      BY <1>1, <1>11, <2>3, <2>4
    <3>2. OrderIn(v, m, s) = [OrderIn(u, b, s) EXCEPT !.filled = o.filled + add]
      <4>1. /\ m.pool[s].next = o.next /\ m.pool[s].prev = o.prev
            /\ LinkIn(v, m, o.next) = LinkIn(u, b, o.next) /\ LinkIn(v, m, o.prev) = LinkIn(u, b, o.prev)
        BY <1>16, <2>2, <2>4
      <4>2. OrderIn(u, b, s) = [id |-> o.id, price |-> o.price, qty |-> o.qty, filled |-> o.filled,
                                next |-> LinkIn(u, b, o.next), prev |-> LinkIn(u, b, o.prev),
                                side |-> side]
        BY DEF OrderIn
      <4>3. OrderIn(v, m, s) = [id |-> o.id, price |-> o.price, qty |-> o.qty, filled |-> o.filled + add,
                                next |-> LinkIn(u, b, o.next), prev |-> LinkIn(u, b, o.prev),
                                side |-> side]
        BY <1>16, <4>1 DEF OrderIn
      <4>. HIDE DEF o, side, s, add
      <4>. QED BY <4>2, <4>3
    <3>. QED BY <2>4, <3>1, <3>2
  <2>5. CASE x # s
    <3>1. RowOf(SlotIn(u, b, x)) # row
      <4>1. SlotIn(u, b, x) \in Int /\ SlotIn(u, b, s) \in Int /\ x # NIL /\ s # NIL
        <5>1. /\ u.db.nextRow \in Nat \ {0}
              /\ \A y \in Used(b) : SlotIn(u, b, y) \in 0..(u.db.nextRow - 2) /\ y # NIL
          BY SlotsIn
        <5>2. s \in Used(b) /\ x \in Used(b)
          BY <1>1, <2>1
        <5>. QED BY <5>1, <5>2
      <4>2. SlotIn(u, b, x) # SlotIn(u, b, s)
        BY <1>1, <2>1, <2>5, <4>1, SlotsIn DEF LinkIn
      <4>. QED BY <1>1, <4>1, <4>2 DEF RowOf
    <3>2. OrderIn(v, m, x) = OrderIn(u, b, x)
      BY <1>14, <2>1, <2>2, <2>5 DEF OrderIn
    <3>. QED BY <1>11, <2>3, <3>1, <3>2
  <2>. QED BY <2>4, <2>5
<1>24. ASSUME NEW d \in Sides, NEW i \in Ticks
       PROVE  v.db.levels[LevelId(d, i)] = LevelIn(v, m, d, i)
  <2>0. LevelId(d, i) \in 1..(2 * Levels) /\ lid \in 1..(2 * Levels)
    BY <1>1, LevelIdIs
  <2>1. b.lane[d][i].head \in Used(b) \cup {NIL} /\ b.lane[d][i].tail \in Used(b) \cup {NIL}
    BY <1>22 DEF LinksUsed
  <2>2. CASE d = side /\ i = t
    <3>1. v.db.levels[lid] = [LevelIn(u, b, side, t) EXCEPT !.qtyTotal = LevelIn(u, b, side, t).qtyTotal - add]
      <4>. HIDE DEF lid
      <4>. QED BY <1>1, <1>9, <1>10, <2>0
    <3>2. /\ m.lane[side][t].head = b.lane[side][t].head /\ m.lane[side][t].tail = b.lane[side][t].tail
          /\ m.lane[side][t].qtyTotal = b.lane[side][t].qtyTotal - add
          /\ m.lane[side][t].count = b.lane[side][t].count
      BY <1>14, <1>15 DEF PriceLevels
    <3>3. /\ LinkIn(v, m, b.lane[side][t].head) = LinkIn(u, b, b.lane[side][t].head)
          /\ LinkIn(v, m, b.lane[side][t].tail) = LinkIn(u, b, b.lane[side][t].tail)
      BY <1>21, <2>1, <2>2
    <3>4. LevelIn(v, m, side, t) =
            [LevelIn(u, b, side, t) EXCEPT !.qtyTotal = LevelIn(u, b, side, t).qtyTotal - add]
      <4>. DEFINE h == LinkIn(u, b, b.lane[side][t].head)
                  e == LinkIn(u, b, b.lane[side][t].tail)
                  q == b.lane[side][t].qtyTotal
                  c == b.lane[side][t].count
      <4>1. LevelIn(u, b, side, t) = [side |-> side, tick |-> t, head |-> h, tail |-> e,
                                      qtyTotal |-> q, count |-> c]
        BY DEF LevelIn
      <4>2. LevelIn(v, m, side, t) = [side |-> side, tick |-> t, head |-> h, tail |-> e,
                                      qtyTotal |-> q - add, count |-> c]
        BY <3>2, <3>3 DEF LevelIn
      <4>. HIDE DEF h, e, q, c, side, t
      <4>. QED BY <4>1, <4>2
    <3>. QED BY <2>2, <3>1, <3>4
  <2>3. CASE d # side \/ i # t
    <3>1. LevelId(d, i) # lid
      BY <1>1, <2>3, LevelIdIs
    <3>2. v.db.levels[LevelId(d, i)] = u.db.levels[LevelId(d, i)]
      <4>. HIDE DEF lid
      <4>. QED BY <1>9, <1>10, <2>0, <3>1
    <3>3. m.lane[d][i] = b.lane[d][i]
      BY <1>14, <2>3
    <3>4. LevelIn(v, m, d, i) = LevelIn(u, b, d, i)
      BY <1>21, <2>1, <3>3 DEF LevelIn
    <3>. QED BY <1>5, <3>2, <3>4
  <2>. QED BY <2>2, <2>3
<1>25. Same(v, m)
  BY <1>5, <1>9, <1>12, <1>13, <1>14, <1>23, <1>24 DEF Same
<1>. QED BY <1>25 DEF v, m

-----------------------------------------------------------------------------
(* An order leaves.                                                        *)

\* The best of a side is determined by its occupied levels.
LEMMA BestUnique ==
    ASSUME NEW side \in Sides, NEW S \in SUBSET Ticks, NEW x, NEW y,
           IsBest(side, S, x), IsBest(side, S, y)
    PROVE  x = y
<1>1. \A i \in Ticks : i \in Int
  BY BookConfig DEF Ticks
<1>2. CASE S = {}
  BY <1>2 DEF IsBest
<1>3. CASE S # {}
  BY <1>1, <1>3 DEF IsBest
<1>. QED BY <1>2, <1>3

\* The level a scan finds behind an emptied best one.
Scanned(side, t, T) ==
    LET behind   == IF side = BID THEN 0..t ELSE t..(Levels - 1)
        occupied == {i \in behind : i \in T}
    IN  IF occupied = {} THEN NoLevel ELSE IF side = BID THEN Max(occupied) ELSE Min(occupied)

\* The scan behind the emptied best finds the best of the rest.
LEMMA ScanFindsBest ==
    ASSUME NEW side \in Sides, NEW S \in SUBSET Ticks, NEW t \in Ticks, IsBest(side, S, t)
    PROVE  IsBest(side, S \ {t}, Scanned(side, t, S \ {t}))
<1>. DEFINE T == S \ {t}
            behind == IF side = BID THEN 0..t ELSE t..(Levels - 1)
            occupied == {i \in behind : i \in T}
<1>1. Levels \in Nat \ {0} /\ \A i \in Ticks : i \in Int /\ i \in 0..(Levels - 1)
  BY BookConfig DEF Ticks
<1>2. \A i \in S : IF side = BID THEN i <= t ELSE t <= i
  BY DEF IsBest
<1>3. occupied = T
  BY <1>1, <1>2
<1>4. CASE T = {}
  BY <1>3, <1>4 DEF Scanned, IsBest
<1>5. CASE T # {}
  <2>1. T \in SUBSET Ticks
    OBVIOUS
  <2>2. Scanned(side, t, T) = IF side = BID THEN Max(T) ELSE Min(T)
    BY <1>3, <1>5, Zenon DEF Scanned
  <2>. HIDE DEF T
  <2>3. /\ Max(T) \in T /\ \A i \in T : i <= Max(T)
        /\ Min(T) \in T /\ \A i \in T : Min(T) <= i
    BY <1>5, <2>1, MaxIs, MinIs
  <2>4. IsBest(side, T, Scanned(side, t, T))
    BY <1>5, <2>2, <2>3 DEF IsBest
  <2>. QED BY <2>4 DEF T
<1>. QED BY <1>4, <1>5

\* A rescan finds the best of what remains.
LEMMA RescanFinds ==
    ASSUME NEW b \in Books, BestHolds(b), NEW m \in Books, BestHolds(m),
           NEW side \in Sides, NEW t \in Ticks, b.lane[side][t].head # NIL, NEW lv,
           \A i \in Ticks : lv[LevelId(side, i)].head # NIL <=> m.lane[side][i].head # NIL,
           \A d \in Sides, i \in Ticks : d # side \/ i # t => m.lane[d][i] = b.lane[d][i]
    PROVE  RescanBest(lv, b.best, side, t) = m.best
<1>. DEFINE S == Occupied(b, side)
            T == Occupied(m, side)
            kept == b.best[side] # t \/ lv[LevelId(side, t)].head # NIL
            behind == IF side = BID THEN 0..t ELSE t..(Levels - 1)
            occupied == {i \in behind : lv[LevelId(side, i)].head # NIL}
            found == Scanned(side, t, T)
<1>1. Levels \in Nat \ {0} /\ \A i \in Ticks : i \in 0..(Levels - 1)
  BY BookConfig DEF Ticks
<1>2. behind \subseteq Ticks
  BY <1>1 DEF Ticks
<1>3. occupied = {i \in behind : i \in T}
  <2>1. \A i \in behind : i \in T <=> lv[LevelId(side, i)].head # NIL
    BY <1>2 DEF Occupied
  <2>. HIDE DEF behind, T
  <2>. QED BY <2>1
<1>4. RescanBest(lv, b.best, side, t) = IF kept THEN b.best ELSE [b.best EXCEPT ![side] = found]
  <2>1. RescanBest(lv, b.best, side, t) =
          IF kept THEN b.best
          ELSE [b.best EXCEPT ![side] = IF occupied = {} THEN NoLevel
                                        ELSE IF side = BID THEN Max(occupied) ELSE Min(occupied)]
    BY Zenon DEF RescanBest
  <2>2. found = IF occupied = {} THEN NoLevel
                ELSE IF side = BID THEN Max(occupied) ELSE Min(occupied)
    <3>1. found = LET w == {i \in behind : i \in T}
                  IN  IF w = {} THEN NoLevel ELSE IF side = BID THEN Max(w) ELSE Min(w)
      BY Zenon DEF Scanned
    <3>. HIDE DEF found, occupied, behind, T
    <3>. QED BY <1>3, <3>1
  <2>. HIDE DEF kept, occupied, found
  <2>. QED BY <2>1, <2>2
<1>5. S \in SUBSET Ticks /\ T \in SUBSET Ticks
  BY DEF Occupied
<1>6. IsBest(side, S, b.best[side]) /\ IsBest(side, T, m.best[side])
  BY DEF BestHolds
<1>7. \A i \in Ticks : i # t => (i \in S <=> i \in T)
  BY DEF Occupied
<1>8. t \in S /\ (t \in T <=> lv[LevelId(side, t)].head # NIL)
  BY DEF Occupied
<1>9. b.best \in [Sides -> Ticks \cup {NoLevel}] /\ m.best \in [Sides -> Ticks \cup {NoLevel}]
  BY DEF Books, Bests
<1>10. \A d \in Sides : d # side => m.best[d] = b.best[d]
  <2>1. ASSUME NEW d \in Sides, d # side PROVE m.best[d] = b.best[d]
    <3>1. Occupied(m, d) = Occupied(b, d)
      BY <2>1 DEF Occupied
    <3>2. Occupied(b, d) \in SUBSET Ticks
      BY DEF Occupied
    <3>3. IsBest(d, Occupied(b, d), m.best[d]) /\ IsBest(d, Occupied(b, d), b.best[d])
      BY <3>1 DEF BestHolds
    <3>. HIDE DEF S, T
    <3>. QED BY <3>2, <3>3, BestUnique
  <2>. QED BY <2>1
<1>. HIDE DEF S, T, found, kept
<1>11. CASE kept
  <2>1. IsBest(side, T, b.best[side])
    <3>1. CASE t \in T
      <4>0. \A i \in Ticks : i \in S <=> i \in T
        BY <1>7, <1>8, <3>1
      <4>1. S = T
        BY <1>5, <4>0, Zenon
      <4>. QED BY <1>6, <4>1
    <3>2. CASE t \notin T
      <4>1. b.best[side] # t
        BY <1>8, <1>11, <3>2 DEF kept
      <4>2. T = S \ {t}
        BY <1>5, <1>7, <3>2
      <4>3. b.best[side] \in S /\ \A i \in S : IF side = BID THEN i <= b.best[side] ELSE b.best[side] <= i
        BY <1>6, <1>8 DEF IsBest
      <4>. QED BY <4>1, <4>2, <4>3 DEF IsBest
    <3>. QED BY <3>1, <3>2
  <2>2. m.best[side] = b.best[side]
    BY <1>5, <1>6, <2>1, BestUnique
  <2>3. m.best = b.best
    BY <1>9, <1>10, <2>2
  <2>. QED BY <1>4, <1>11, <2>3
<1>12. CASE ~kept
  <2>1. T = S \ {t} /\ b.best[side] = t
    BY <1>5, <1>7, <1>8, <1>12 DEF kept
  <2>2. IsBest(side, T, found)
    BY <1>5, <1>6, <2>1, ScanFindsBest DEF found
  <2>3. m.best[side] = found
    BY <1>5, <1>6, <2>2, BestUnique
  <2>4. m.best = [b.best EXCEPT ![side] = found]
    BY <1>9, <1>10, <2>3
  <2>. QED BY <1>4, <1>12, <2>4
<1>. QED BY <1>11, <1>12

\* Rows are led to by the links of their slots.
LEMMA LinkedRow ==
    ASSUME NEW u, NEW b, Intact(b), Same(u, b), NEW x \in Used(b), NEW y \in Used(b) \cup {NIL}
    PROVE  /\ LinkIn(u, b, y) = NIL <=> y = NIL
           /\ LinkIn(u, b, y) = SlotIn(u, b, x) <=> y = x
           /\ (LinkIn(u, b, y) # NIL /\ RowOf(SlotIn(u, b, x)) = RowOf(LinkIn(u, b, y))) <=> x = y
<1>1. /\ SlotIn(u, b, x) \in Int /\ SlotIn(u, b, x) # NIL /\ x # NIL
      /\ LinkIn(u, b, x) = SlotIn(u, b, x)
  BY SlotsIn DEF LinkIn
<1>2. y # NIL => LinkIn(u, b, y) \in Int /\ LinkIn(u, b, y) # NIL
  BY SlotsIn DEF LinkIn
<1>3. LinkIn(u, b, NIL) = NIL
  BY DEF LinkIn
<1>4. LinkIn(u, b, x) = LinkIn(u, b, y) => x = y
  BY SlotsIn
<1>5. RowOf(SlotIn(u, b, x)) = SlotIn(u, b, x) + 1 /\ RowOf(LinkIn(u, b, y)) = LinkIn(u, b, y) + 1
  BY DEF RowOf
<1>6. LinkIn(u, b, y) = SlotIn(u, b, x) <=> y = x
  BY <1>1, <1>4
<1>. QED BY <1>1, <1>2, <1>3, <1>5, <1>6

\* The rows after the neighbours of an order have been linked.
IsRow(o) == o = [id |-> o.id, price |-> o.price, qty |-> o.qty, filled |-> o.filled,
                 next |-> o.next, prev |-> o.prev, side |-> o.side]

\* Taking a row out of its queue relinks its neighbours and nothing else.
LEMMA NeighboursLinked ==
    ASSUME NEW os, os = [r \in DOMAIN os |-> os[r]], \A r \in DOMAIN os : IsRow(os[r]),
           NEW prev, NEW next,
           prev # NIL => RowOf(prev) \in DOMAIN os, next # NIL => RowOf(next) \in DOMAIN os
    PROVE  LET rest == LinkPrev(LinkNext(os, prev, next), next, prev)
           IN  /\ DOMAIN rest = DOMAIN os
               /\ \A r \in DOMAIN os :
                     rest[r] = [id |-> os[r].id, price |-> os[r].price, qty |-> os[r].qty,
                                filled |-> os[r].filled,
                                next |-> IF prev # NIL /\ r = RowOf(prev) THEN next ELSE os[r].next,
                                prev |-> IF next # NIL /\ r = RowOf(next) THEN prev ELSE os[r].prev,
                                side |-> os[r].side]
<1>. DEFINE fore == LinkNext(os, prev, next)
            rest == LinkPrev(fore, next, prev)
            p == RowOf(prev)
            succ == RowOf(next)
<1>1. /\ DOMAIN fore = DOMAIN os
      /\ \A r \in DOMAIN os : fore[r] = IF prev # NIL /\ r = p THEN [os[r] EXCEPT !.next = next] ELSE os[r]
  <2>1. fore = IF prev = NIL THEN os ELSE [os EXCEPT ![p] = [os[p] EXCEPT !.next = next]]
    BY DEF LinkNext
  <2>. HIDE DEF fore, p
  <2>. QED BY <2>1
<1>2. /\ DOMAIN rest = DOMAIN fore
      /\ \A r \in DOMAIN fore : rest[r] = IF next # NIL /\ r = succ THEN [fore[r] EXCEPT !.prev = prev] ELSE fore[r]
  <2>1. rest = IF next = NIL THEN fore ELSE [fore EXCEPT ![succ] = [fore[succ] EXCEPT !.prev = prev]]
    BY DEF LinkPrev
  <2>. HIDE DEF fore, rest, succ
  <2>. QED BY <2>1
<1>3. ASSUME NEW r \in DOMAIN os
      PROVE  rest[r] = [id |-> os[r].id, price |-> os[r].price, qty |-> os[r].qty, filled |-> os[r].filled,
                        next |-> IF prev # NIL /\ r = p THEN next ELSE os[r].next,
                        prev |-> IF next # NIL /\ r = succ THEN prev ELSE os[r].prev,
                        side |-> os[r].side]
  <2>. DEFINE o == os[r]
              i == o.id
              pr == o.price
              q == o.qty
              fi == o.filled
              nx == o.next
              pv == o.prev
              sd == o.side
  <2>1. o = [id |-> i, price |-> pr, qty |-> q, filled |-> fi, next |-> nx, prev |-> pv, side |-> sd]
    BY DEF IsRow
  <2>. HIDE DEF i, pr, q, fi, nx, pv, sd, o
  <2>2. fore[r] = [id |-> i, price |-> pr, qty |-> q, filled |-> fi,
                   next |-> IF prev # NIL /\ r = p THEN next ELSE nx, prev |-> pv, side |-> sd]
    <3>1. fore[r] = IF prev # NIL /\ r = p THEN [o EXCEPT !.next = next] ELSE o
      BY <1>1 DEF o
    <3>. HIDE DEF fore, p
    <3>. QED BY <2>1, <3>1
  <2>3. rest[r] = IF next # NIL /\ r = succ THEN [fore[r] EXCEPT !.prev = prev] ELSE fore[r]
    BY <1>1, <1>2
  <2>. DEFINE nn == IF prev # NIL /\ r = p THEN next ELSE nx
  <2>4. fore[r] = [id |-> i, price |-> pr, qty |-> q, filled |-> fi, next |-> nn, prev |-> pv, side |-> sd]
    BY <2>2
  <2>. HIDE DEF fore, rest, p, succ, nn
  <2>5. rest[r] = [id |-> i, price |-> pr, qty |-> q, filled |-> fi, next |-> nn,
                   prev |-> IF next # NIL /\ r = succ THEN prev ELSE pv, side |-> sd]
    BY <2>3, <2>4
  <2>. QED BY <2>5 DEF nn, i, pr, q, fi, nx, pv, sd, o
<1>. HIDE DEF fore, rest
<1>4. DOMAIN rest = DOMAIN os
  BY <1>1, <1>2
<1>. QED BY <1>3, <1>4 DEF fore, rest, p, succ

\* An order that leaves both books leaves the same book.
LEMMA DepartSame ==
    ASSUME NEW u, NEW b, Intact(b), Same(u, b), NEW id \in DOMAIN b.idmap,
           NEW m, m \in {Fill(b, id), Cancel(b, id)}
    PROVE  Same(ApplyCancel(u, id), m)
<1>. DEFINE v == ApplyCancel(u, id)
            s == b.idmap[id]
            o == b.pool[s]
            t == TickOf(o.price)
            side == o.side
            row == u.ids[id]
            w == u.db.orders[row]
            lid == LevelId(side, t)
            slot == SlotIn(u, b, s)
            prev == LinkIn(u, b, o.prev)
            next == LinkIn(u, b, o.next)
            old == u.db.levels[lid]
            rest == LinkPrev(LinkNext(u.db.orders, prev, next), next, prev)
            shrunk == [side |-> old.side, tick |-> old.tick,
                     head |-> IF old.head = slot THEN next ELSE old.head,
                     tail |-> IF old.tail = slot THEN prev ELSE old.tail,
                     qtyTotal |-> old.qtyTotal - (o.qty - o.filled), count |-> old.count - 1]
            lv == [u.db.levels EXCEPT ![lid] = shrunk]
<1>1. /\ s \in Used(b) /\ s \in Slots /\ o.id = id /\ t \in Ticks /\ side \in Sides
      /\ o.qty \in Nat /\ o.filled \in Nat
      /\ row = RowOf(slot) /\ row \in DOMAIN u.db.orders /\ SlotOf(row) = slot
      /\ w = OrderIn(u, b, s)
      /\ old = LevelIn(u, b, side, t)
  BY OrderOfId
<1>2. w.side = side /\ w.price = o.price /\ w.qty = o.qty /\ w.filled = o.filled
      /\ w.prev = prev /\ w.next = next
  BY <1>1 DEF OrderIn
<1>3. /\ b \in Books /\ BestHolds(b) /\ Left(b, m, id) /\ b.lane[side][t].head # NIL
  <2>1. PICK q, f : Holds(b, q, f)
    BY DEF Intact
  <2>2. Left(b, m, id)
    BY <2>1, CancelLeaves, FillLeaves
  <2>3. b.lane[b.pool[b.idmap[id]].side][TickOf(b.pool[b.idmap[id]].price)].head # NIL
    BY <2>1, OrderIsListed
  <2>. QED BY <2>1, <2>2, <2>3 DEF Holds
<1>4. Intact(m) /\ DOMAIN m.idmap = DOMAIN b.idmap \ {id}
  BY LeftIntact
<1>5. /\ Shaped(u) /\ RowsHold(u, DOMAIN b.idmap) /\ u.db.best = b.best
      /\ \A x \in Used(b) : u.db.orders[RowOf(SlotIn(u, b, x))] = OrderIn(u, b, x)
      /\ \A d \in Sides, i \in Ticks : u.db.levels[LevelId(d, i)] = LevelIn(u, b, d, i)
  BY DEF Same
<1>6. v = [db |-> [levels  |-> lv,
                   orders  |-> Restrict(rest, DOMAIN rest \ {row}),
                   nextRow |-> u.db.nextRow, hwm |-> u.db.hwm,
                   best    |-> RescanBest(lv, u.db.best, side, t)],
           ids |-> Restrict(u.ids, DOMAIN u.ids \ {id})]
  <2>1. v = LET wt   == TickOf(w.price)
                wlid == LevelId(w.side, wt)
                level == u.db.levels[wlid]
                linked == LinkPrev(LinkNext(u.db.orders, w.prev, w.next), w.next, w.prev)
                levels == [u.db.levels EXCEPT ![wlid] =
                             [side     |-> level.side,
                              tick     |-> level.tick,
                              head     |-> IF level.head = SlotOf(row) THEN w.next ELSE level.head,
                              tail     |-> IF level.tail = SlotOf(row) THEN w.prev ELSE level.tail,
                              qtyTotal |-> level.qtyTotal - (w.qty - w.filled),
                              count    |-> level.count - 1]]
            IN  [db |-> [levels  |-> levels,
                         orders  |-> Restrict(linked, DOMAIN linked \ {row}),
                         nextRow |-> u.db.nextRow, hwm |-> u.db.hwm,
                         best    |-> RescanBest(levels, u.db.best, w.side, wt)],
                 ids |-> Restrict(u.ids, DOMAIN u.ids \ {id})]
    BY Zenon DEF ApplyCancel
  <2>. HIDE DEF v, w, row, prev, next, slot, o
  <2>. QED BY <1>1, <1>2, <2>1
<1>. HIDE DEF v
<1>7. /\ v.ids = Restrict(u.ids, DOMAIN u.ids \ {id}) /\ v.db.nextRow = u.db.nextRow
      /\ v.db.levels = lv /\ v.db.orders = Restrict(rest, DOMAIN rest \ {row})
      /\ v.db.best = RescanBest(lv, u.db.best, side, t)
      /\ v = [db |-> v.db, ids |-> v.ids]
      /\ v.db = [levels |-> v.db.levels, orders |-> v.db.orders, nextRow |-> v.db.nextRow,
                 hwm |-> v.db.hwm, best |-> v.db.best]
  <2>. HIDE DEF lv, rest
  <2>. QED BY <1>6
<1>8. /\ DOMAIN v.ids = DOMAIN m.idmap
      /\ \A i \in DOMAIN m.idmap : v.ids[i] = u.ids[i]
      /\ v.ids = [i \in DOMAIN v.ids |-> v.ids[i]]
  <2>1. DOMAIN u.ids = DOMAIN b.idmap
    BY <1>5 DEF RowsHold
  <2>. QED BY <1>4, <1>7, <2>1 DEF Restrict
<1>9. LinksUsed(b) /\ LinksUsed(m)
  BY <1>4, LinksLead
<1>10. /\ m \in Books /\ m.pool[s].id = 0 /\ BestHolds(m)
       /\ Shrunk(b, m, side, t, s)
       /\ \A d \in Sides, i \in Ticks : d # side \/ i # t => m.lane[d][i] = b.lane[d][i]
  BY <1>3 DEF Left
<1>11. /\ \A x \in Slots \ {s} :
             /\ SameOrder(m, b, x)
             /\ m.pool[x].next = IF x = o.prev THEN o.next ELSE b.pool[x].next
             /\ m.pool[x].prev = IF x = o.next THEN o.prev ELSE b.pool[x].prev
       /\ m.lane[side][t].head = IF b.lane[side][t].head = s THEN o.next ELSE b.lane[side][t].head
       /\ m.lane[side][t].tail = IF b.lane[side][t].tail = s THEN o.prev ELSE b.lane[side][t].tail
       /\ m.lane[side][t].qtyTotal = b.lane[side][t].qtyTotal - (o.qty - o.filled)
       /\ m.lane[side][t].count = b.lane[side][t].count - 1
  <2>1. b.pool[s] = o /\ Shrunk(b, m, side, t, s)
    BY <1>10
  <2>. HIDE DEF s, o, side, t
  <2>2. /\ \A x \in Slots \ {s} :
              /\ SameOrder(m, b, x)
              /\ m.pool[x].next = IF x = o.prev THEN o.next ELSE b.pool[x].next
              /\ m.pool[x].prev = IF x = o.next THEN o.prev ELSE b.pool[x].prev
        /\ m.lane[side][t] = [head |-> IF b.lane[side][t].head = s THEN o.next ELSE b.lane[side][t].head,
                              tail |-> IF b.lane[side][t].tail = s THEN o.prev ELSE b.lane[side][t].tail,
                              qtyTotal |-> b.lane[side][t].qtyTotal - (o.qty - o.filled),
                              count |-> b.lane[side][t].count - 1]
    BY <2>1, Zenon DEF Shrunk, Open
  <2>. QED BY <2>2
<1>12. Used(m) = Used(b) \ {s}
  <2>1. \A x \in Slots : x \in Used(m) <=> x \in Used(b) /\ x # s
    BY <1>10, <1>11 DEF Used, SameOrder
  <2>. QED BY <2>1 DEF Used
<1>13. /\ \A x \in Used(m) : SlotIn(v, m, x) = SlotIn(u, b, x)
       /\ \A x \in Used(m) \cup {NIL} : LinkIn(v, m, x) = LinkIn(u, b, x)
  <2>1. ASSUME NEW x \in Used(m)
        PROVE  SlotIn(v, m, x) = SlotIn(u, b, x) /\ LinkIn(v, m, x) = LinkIn(u, b, x)
    <3>1. m.pool[x].id \in DOMAIN m.idmap /\ x \in Slots \ {s}
      BY <1>4, <1>12, OrdersAreUsed
    <3>2. m.pool[x].id = b.pool[x].id
      BY <1>11, <3>1 DEF SameOrder
    <3>3. v.ids[b.pool[x].id] = u.ids[b.pool[x].id]
      BY <1>8, <3>1, <3>2
    <3>. QED BY <3>2, <3>3, SlotKept
  <2>2. LinkIn(v, m, NIL) = LinkIn(u, b, NIL)
    BY DEF LinkIn
  <2>. QED BY <2>1, <2>2
<1>14. o.prev \in Used(b) \cup {NIL} /\ o.next \in Used(b) \cup {NIL}
  BY <1>1, <1>9 DEF LinksUsed
<1>15. /\ prev # NIL => RowOf(prev) \in DOMAIN u.db.orders
       /\ next # NIL => RowOf(next) \in DOMAIN u.db.orders
  BY <1>14, SlotsIn DEF LinkIn
<1>16. u.db.orders = [r \in DOMAIN u.db.orders |-> u.db.orders[r]]
       /\ u.db.levels = [p \in 1..(2 * Levels) |-> u.db.levels[p]]
  BY <1>5 DEF Shaped
<1>17. \A r \in DOMAIN u.db.orders : IsRow(u.db.orders[r])
  <2>1. ASSUME NEW r \in DOMAIN u.db.orders PROVE IsRow(u.db.orders[r])
    <3>1. PICK x \in Used(b) : r = RowOf(SlotIn(u, b, x))
      BY SlotsIn
    <3>2. u.db.orders[r] = OrderIn(u, b, x)
      BY <1>5, <3>1
    <3>. QED BY <3>2 DEF OrderIn, IsRow
  <2>. QED BY <2>1
<1>18. /\ DOMAIN rest = DOMAIN u.db.orders
       /\ \A r \in DOMAIN u.db.orders :
             rest[r] = [id |-> u.db.orders[r].id, price |-> u.db.orders[r].price,
                        qty |-> u.db.orders[r].qty, filled |-> u.db.orders[r].filled,
                        next |-> IF prev # NIL /\ r = RowOf(prev) THEN next ELSE u.db.orders[r].next,
                        prev |-> IF next # NIL /\ r = RowOf(next) THEN prev ELSE u.db.orders[r].prev,
                        side |-> u.db.orders[r].side]
  <2>. DEFINE os == u.db.orders
  <2>1. os = [r \in DOMAIN os |-> os[r]] /\ \A r \in DOMAIN os : IsRow(os[r])
    BY <1>16, <1>17
  <2>2. (prev # NIL => RowOf(prev) \in DOMAIN os) /\ (next # NIL => RowOf(next) \in DOMAIN os)
    BY <1>15
  <2>. HIDE DEF os, prev, next
  <2>3. LET all == LinkPrev(LinkNext(os, prev, next), next, prev)
        IN  /\ DOMAIN all = DOMAIN os
            /\ \A r \in DOMAIN os :
                  all[r] = [id |-> os[r].id, price |-> os[r].price, qty |-> os[r].qty,
                            filled |-> os[r].filled,
                            next |-> IF prev # NIL /\ r = RowOf(prev) THEN next ELSE os[r].next,
                            prev |-> IF next # NIL /\ r = RowOf(next) THEN prev ELSE os[r].prev,
                            side |-> os[r].side]
    BY <2>1, <2>2, NeighboursLinked
  <2>. QED BY <2>3, Zenon DEF os
<1>. HIDE DEF rest
<1>19. /\ DOMAIN v.db.orders = DOMAIN u.db.orders \ {row}
       /\ v.db.orders = [r \in DOMAIN v.db.orders |-> v.db.orders[r]]
       /\ \A r \in DOMAIN u.db.orders \ {row} : v.db.orders[r] = rest[r]
  <2>1. v.db.orders = Restrict(rest, DOMAIN rest \ {row}) /\ DOMAIN rest = DOMAIN u.db.orders
    BY <1>7, <1>18
  <2>. HIDE DEF row
  <2>. QED BY <2>1 DEF Restrict
<1>20. ASSUME NEW x \in Used(m)
       PROVE  v.db.orders[RowOf(SlotIn(v, m, x))] = OrderIn(v, m, x)
  <2>. DEFINE r == RowOf(SlotIn(u, b, x))
  <2>1. x \in Used(b) /\ x # s /\ x \in Slots \ {s}
    BY <1>12, OrdersAreUsed
  <2>2. r \in DOMAIN u.db.orders /\ RowOf(SlotIn(v, m, x)) = r /\ u.db.orders[r] = OrderIn(u, b, x)
    BY <1>5, <1>13, <2>1, SlotsIn
  <2>3. r # row
    <3>1. LinkIn(u, b, s) = slot /\ LinkIn(u, b, s) # NIL
      <4>1. s \in Used(b)
        BY <1>1
      <4>2. s # NIL /\ SlotIn(u, b, s) # NIL /\ RowOf(SlotIn(u, b, s)) = u.ids[b.pool[s].id]
        BY <4>1, SlotsIn
      <4>. QED BY <1>1, <4>1, <4>2, SMTT(30) DEF LinkIn
    <3>2. (LinkIn(u, b, s) # NIL /\ r = RowOf(LinkIn(u, b, s))) <=> x = s
      BY <1>1, <2>1, LinkedRow
    <3>. QED BY <1>1, <2>1, <3>1, <3>2
  <2>4. /\ (prev # NIL /\ r = RowOf(prev)) <=> x = o.prev
        /\ (next # NIL /\ r = RowOf(next)) <=> x = o.next
    BY <1>14, <2>1, LinkedRow
  <2>5. /\ SameOrder(m, b, x)
        /\ m.pool[x].next = IF x = o.prev THEN o.next ELSE b.pool[x].next
        /\ m.pool[x].prev = IF x = o.next THEN o.prev ELSE b.pool[x].prev
    BY <1>11, <2>1
  <2>6. m.pool[x].next \in Used(m) \cup {NIL} /\ m.pool[x].prev \in Used(m) \cup {NIL}
    BY <1>9 DEF LinksUsed
  <2>7. /\ LinkIn(v, m, m.pool[x].next) = IF x = o.prev THEN next ELSE LinkIn(u, b, b.pool[x].next)
        /\ LinkIn(v, m, m.pool[x].prev) = IF x = o.next THEN prev ELSE LinkIn(u, b, b.pool[x].prev)
    BY <1>13, <2>5, <2>6
  <2>8. OrderIn(v, m, x) =
          [id |-> b.pool[x].id, price |-> b.pool[x].price, qty |-> b.pool[x].qty,
           filled |-> b.pool[x].filled,
           next |-> IF x = o.prev THEN next ELSE LinkIn(u, b, b.pool[x].next),
           prev |-> IF x = o.next THEN prev ELSE LinkIn(u, b, b.pool[x].prev),
           side |-> b.pool[x].side]
    BY <2>5, <2>7 DEF OrderIn, SameOrder
  <2>. HIDE DEF r, prev, next, o, row
  <2>9. v.db.orders[r] =
          [id |-> b.pool[x].id, price |-> b.pool[x].price, qty |-> b.pool[x].qty,
           filled |-> b.pool[x].filled,
           next |-> IF x = o.prev THEN next ELSE LinkIn(u, b, b.pool[x].next),
           prev |-> IF x = o.next THEN prev ELSE LinkIn(u, b, b.pool[x].prev),
           side |-> b.pool[x].side]
    <3>1. v.db.orders[r] = rest[r]
      BY <1>19, <2>2, <2>3
    <3>2. /\ u.db.orders[r].id = b.pool[x].id /\ u.db.orders[r].price = b.pool[x].price
          /\ u.db.orders[r].qty = b.pool[x].qty /\ u.db.orders[r].filled = b.pool[x].filled
          /\ u.db.orders[r].next = LinkIn(u, b, b.pool[x].next)
          /\ u.db.orders[r].prev = LinkIn(u, b, b.pool[x].prev)
          /\ u.db.orders[r].side = b.pool[x].side
      BY <2>2 DEF OrderIn
    <3>. QED BY <1>18, <2>2, <2>4, <3>1, <3>2
  <2>. QED BY <2>2, <2>8, <2>9
<1>21. lid \in 1..(2 * Levels)
  BY <1>1, LevelIdIs
<1>22. ASSUME NEW d \in Sides, NEW i \in Ticks
       PROVE  v.db.levels[LevelId(d, i)] = LevelIn(v, m, d, i)
  <2>0. LevelId(d, i) \in 1..(2 * Levels)
    BY LevelIdIs
  <2>1. m.lane[d][i].head \in Used(m) \cup {NIL} /\ m.lane[d][i].tail \in Used(m) \cup {NIL}
    BY <1>9 DEF LinksUsed
  <2>2. LinkIn(v, m, m.lane[d][i].head) = LinkIn(u, b, m.lane[d][i].head)
        /\ LinkIn(v, m, m.lane[d][i].tail) = LinkIn(u, b, m.lane[d][i].tail)
    BY <1>13, <2>1
  <2>3. CASE d = side /\ i = t
    <3>1. /\ b.lane[side][t].head \in Used(b) \cup {NIL} /\ b.lane[side][t].tail \in Used(b) \cup {NIL}
      BY <1>1, <1>9 DEF LinksUsed
    <3>. DEFINE h == b.lane[side][t].head
                e == b.lane[side][t].tail
    <3>2. /\ LinkIn(u, b, h) = slot <=> h = s
          /\ LinkIn(u, b, e) = slot <=> e = s
      <4>1. s \in Used(b) /\ h \in Used(b) \cup {NIL} /\ e \in Used(b) \cup {NIL}
        BY <1>1, <3>1
      <4>. HIDE DEF h, e, s
      <4>. QED BY <4>1, LinkedRow
    <3>3. v.db.levels[lid] = shrunk
      <4>. HIDE DEF lid, shrunk
      <4>. QED BY <1>7, <1>16, <1>21
    <3>4. /\ old.side = side /\ old.tick = t /\ old.head = LinkIn(u, b, h) /\ old.tail = LinkIn(u, b, e)
          /\ old.qtyTotal = b.lane[side][t].qtyTotal /\ old.count = b.lane[side][t].count
      <4>1. old = LevelIn(u, b, side, t)
        BY <1>1
      <4>. HIDE DEF old, side, t
      <4>. QED BY <4>1 DEF LevelIn
    <3>5. /\ LinkIn(u, b, m.lane[side][t].head) = IF LinkIn(u, b, h) = slot THEN next ELSE LinkIn(u, b, h)
          /\ LinkIn(u, b, m.lane[side][t].tail) = IF LinkIn(u, b, e) = slot THEN prev ELSE LinkIn(u, b, e)
      BY <1>11, <3>2
    <3>6. LevelIn(v, m, side, t) = [side |-> side, tick |-> t,
             head |-> LinkIn(v, m, m.lane[side][t].head), tail |-> LinkIn(v, m, m.lane[side][t].tail),
             qtyTotal |-> b.lane[side][t].qtyTotal - (o.qty - o.filled),
             count |-> b.lane[side][t].count - 1]
      BY <1>11 DEF LevelIn
    <3>. HIDE DEF h, e, slot, prev, next, old, side, t, o
    <3>7. shrunk = LevelIn(v, m, side, t)
      BY <2>2, <2>3, <3>4, <3>5, <3>6
    <3>. HIDE DEF lid, shrunk
    <3>. QED BY <2>3, <3>3, <3>7 DEF lid
  <2>4. CASE d # side \/ i # t
    <3>1. LevelId(d, i) # lid
      BY <1>1, <2>4, LevelIdIs
    <3>2. v.db.levels[LevelId(d, i)] = u.db.levels[LevelId(d, i)]
      <4>. HIDE DEF lid, shrunk
      <4>. QED BY <1>7, <1>16, <2>0, <3>1
    <3>3. m.lane[d][i] = b.lane[d][i]
      BY <1>10, <2>4
    <3>4. LevelIn(v, m, d, i) = LevelIn(u, b, d, i)
      BY <2>2, <3>3 DEF LevelIn
    <3>. QED BY <1>5, <3>2, <3>4
  <2>. QED BY <2>3, <2>4
<1>23. v.db.best = m.best
  <2>1. ASSUME NEW i \in Ticks
        PROVE  lv[LevelId(side, i)].head # NIL <=> m.lane[side][i].head # NIL
    <3>1. lv[LevelId(side, i)] = LevelIn(v, m, side, i)
      <4>1. side \in Sides /\ v.db.levels = lv
        BY <1>1, <1>7
      <4>. HIDE DEF lv, side
      <4>. QED BY <1>22, <4>1
    <3>2. m.lane[side][i].head \in Used(m) \cup {NIL}
      BY <1>1, <1>9 DEF LinksUsed
    <3>3. lv[LevelId(side, i)].head = LinkIn(u, b, m.lane[side][i].head)
      <4>. HIDE DEF lv, side
      <4>. QED BY <1>13, <3>1, <3>2 DEF LevelIn
    <3>4. m.lane[side][i].head \in Used(b) \cup {NIL}
      BY <1>12, <3>2
    <3>. HIDE DEF side, lv
    <3>. QED BY <1>1, <3>3, <3>4, LinkedRow
  <2>. HIDE DEF lv
  <2>2. RescanBest(lv, b.best, side, t) = m.best
    <3>1. /\ b \in Books /\ BestHolds(b) /\ m \in Books /\ BestHolds(m)
          /\ side \in Sides /\ t \in Ticks /\ b.lane[side][t].head # NIL
      BY <1>1, <1>3, <1>10
    <3>2. \A d \in Sides, i \in Ticks : d # side \/ i # t => m.lane[d][i] = b.lane[d][i]
      BY <1>10
    <3>. HIDE DEF side, t
    <3>. QED BY <2>1, <3>1, <3>2, RescanFinds, SMTT(30)
  <2>. QED BY <1>5, <1>7, <2>2
<1>24. Shaped(v)
  <2>1. v.db.levels = [p \in 1..(2 * Levels) |-> v.db.levels[p]]
    <3>. HIDE DEF lid, shrunk
    <3>. QED BY <1>7, <1>16
  <2>. QED BY <1>7, <1>8, <1>19, <2>1 DEF Shaped
<1>25. RowsHold(v, DOMAIN m.idmap)
  <2>1. /\ u.db.nextRow \in Nat \ {0}
        /\ \A i \in DOMAIN b.idmap : u.ids[i] \in 1..(u.db.nextRow - 1)
        /\ \A i, j \in DOMAIN b.idmap : u.ids[i] = u.ids[j] => i = j
        /\ DOMAIN u.db.orders = {u.ids[i] : i \in DOMAIN b.idmap}
    BY <1>5 DEF RowsHold
  <2>2. /\ \A i \in DOMAIN m.idmap : v.ids[i] \in 1..(v.db.nextRow - 1)
        /\ \A i, j \in DOMAIN m.idmap : v.ids[i] = v.ids[j] => i = j
    BY <1>4, <1>7, <1>8, <2>1
  <2>3. DOMAIN v.db.orders = {v.ids[i] : i \in DOMAIN m.idmap}
    <3>1. ASSUME NEW i \in DOMAIN m.idmap PROVE v.ids[i] \in DOMAIN v.db.orders
      BY <1>4, <1>8, <1>19, <2>1
    <3>2. ASSUME NEW r \in DOMAIN v.db.orders PROVE \E i \in DOMAIN m.idmap : r = v.ids[i]
      <4>1. PICK i \in DOMAIN b.idmap : r = u.ids[i]
        BY <1>19, <2>1
      <4>2. i # id
        BY <1>19, <4>1
      <4>. QED BY <1>4, <1>8, <4>1, <4>2
    <3>. QED BY <3>1, <3>2
  <2>. QED BY <1>7, <1>8, <2>1, <2>2, <2>3 DEF RowsHold
<1>26. Same(v, m)
  BY <1>20, <1>22, <1>23, <1>24, <1>25 DEF Same
<1>. QED BY <1>26 DEF v

\* The row of an empty level.
LEMMA NewLevelRowIs ==
    ASSUME NEW side \in Sides, NEW t \in Ticks
    PROVE  NewLevelRow(LevelId(side, t)) =
              [side |-> side, tick |-> t, head |-> NIL, tail |-> NIL, qtyTotal |-> 0, count |-> 0]
<1>1. Levels \in Nat \ {0} /\ t \in 0..(Levels - 1)
  BY BookConfig DEF Ticks
<1>2. side = 0 \/ side = 1
  BY DEF Sides, BID, ASK
<1>3. (side = 0 => LevelId(side, t) - 1 = t) /\ (side = 1 => LevelId(side, t) - 1 = Levels + t)
  BY <1>1 DEF LevelId
<1>4. t \div Levels = 0 /\ (Levels + t) \div Levels = 1
  BY <1>1
<1>5. t % Levels = t /\ (Levels + t) % Levels = t
  BY <1>1, Remainder
<1>6. (LevelId(side, t) - 1) \div Levels = side /\ (LevelId(side, t) - 1) % Levels = t
  BY <1>2, <1>3, <1>4, <1>5
<1>. QED BY <1>6 DEF NewLevelRow

\* The new books.
LEMMA NewSame == Same(NewUltima, NewBook) /\ Intact(NewBook)
<1>1. Intact(NewBook)
  <2>1. Holds(NewBook, NoQueues, <<>>)
    BY NewBookHolds
  <2>2. \A x \in Slots : NewBook.pool[x] = ZeroOrder
    BY DEF NewBook
  <2>. QED BY <2>1, <2>2 DEF Intact
<1>2. Used(NewBook) = {}
  BY DEF Used, NewBook, ZeroOrder
<1>3. /\ NewUltima = [db |-> NewTables, ids |-> NewUltima.ids] /\ NewUltima.db = NewTables
      /\ NewUltima.ids = [id \in {} |-> 0]
  BY DEF NewUltima
<1>4. /\ NewTables.levels = [i \in 1..(2 * Levels) |-> NewLevelRow(i)]
      /\ NewTables.orders = [row \in {} |-> ZeroOrder] /\ NewTables.nextRow = 1
      /\ NewTables.best = [side \in Sides |-> NoLevel]
      /\ NewTables = [levels |-> NewTables.levels, orders |-> NewTables.orders,
                      nextRow |-> NewTables.nextRow, hwm |-> NewTables.hwm, best |-> NewTables.best]
  BY DEF NewTables
<1>5. Shaped(NewUltima)
  BY <1>3, <1>4 DEF Shaped
<1>6. DOMAIN NewBook.idmap = {} /\ NewBook.best = [side \in Sides |-> NoLevel]
      /\ \A side \in Sides, t \in Ticks : NewBook.lane[side][t] = EmptyLevel
  BY DEF NewBook
<1>7. RowsHold(NewUltima, {})
  BY <1>3, <1>4 DEF RowsHold
<1>8. ASSUME NEW side \in Sides, NEW t \in Ticks
      PROVE  NewTables.levels[LevelId(side, t)] = LevelIn(NewUltima, NewBook, side, t)
  <2>1. LevelId(side, t) \in 1..(2 * Levels)
    BY LevelIdIs
  <2>2. NewTables.levels[LevelId(side, t)] = NewLevelRow(LevelId(side, t))
    BY <1>4, <2>1
  <2>. QED BY <1>6, <2>2, NewLevelRowIs DEF LevelIn, LinkIn, EmptyLevel
<1>. QED BY <1>1, <1>2, <1>3, <1>4, <1>5, <1>6, <1>7, <1>8 DEF Same

-----------------------------------------------------------------------------
(* The digests.                                                            *)

\* The ids along `next`, step by step.
IdsStep(order, f, j, at) ==
    IF j = 0 \/ at = NIL THEN <<>> ELSE <<order[at].id>> \o f[j - 1][order[at].next]
IdsWalk(order, c, f) == \A j \in 0..c : \A at \in DOMAIN order \cup {NIL} : f[j][at] = IdsStep(order, f, j, at)

\* The walks of IdsFrom exist.
LEMMA IdsExist ==
    ASSUME NEW order, NEW c \in Nat
    PROVE  \E f : f = [j \in 0..c |-> [at \in DOMAIN order \cup {NIL} |-> IdsStep(order, f, j, at)]]
<1>. DEFINE D == DOMAIN order \cup {NIL}
            F(m, f) == [j \in 0..m |-> [at \in D |-> IdsStep(order, f, j, at)]]
            Bad == {m \in 0..c : ~\E f : f = F(m, f)}
<1>1. SUFFICES ASSUME Bad # {} PROVE FALSE
  <2>1. c \in 0..c
    OBVIOUS
  <2>2. \E f : f = F(c, f)
    <3>. HIDE DEF F
    <3>. QED BY <1>1, <2>1
  <2>. QED BY <2>2
<1>. HIDE DEF D
<1>2. PICK m \in Bad : \A i \in Bad : m <= i
  <2>1. Bad \in SUBSET Nat
    OBVIOUS
  <2>. HIDE DEF Bad
  <2>. QED BY <1>1, <2>1, LeastNumber
<1>3. m \in 0..c /\ ~\E f : f = F(m, f)
  <2>. HIDE DEF F
  <2>. QED BY <1>2
<1>4. CASE m = 0
  <2>. DEFINE g == [j \in 0..0 |-> [at \in D |-> <<>>]]
  <2>1. g = F(0, g)
    <3>1. \A at : IdsStep(order, g, 0, at) = <<>>
      BY Zenon DEF IdsStep
    <3>2. \A j \in 0..0 : j = 0
      OBVIOUS
    <3>. QED BY <3>1, <3>2, Zenon
  <2>. HIDE DEF F, g
  <2>. QED BY <1>3, <1>4, <2>1
<1>5. CASE m # 0
  <2>1. m - 1 \in 0..c /\ ~(m <= m - 1) /\ m \in Nat
    BY <1>3, <1>5
  <2>2. PICK f : f = F(m - 1, f)
    <3>1. m - 1 \notin Bad
      <4>. HIDE DEF Bad
      <4>. QED BY <1>2, <2>1
    <3>. HIDE DEF F
    <3>. QED BY <2>1, <3>1
  <2>. DEFINE g == F(m, f)
  <2>3. \A j \in 0..(m - 1) : g[j] = f[j]
    <3>1. \A j \in 0..(m - 1) : j \in 0..m
      BY <2>1
    <3>2. \A j \in 0..(m - 1) : f[j] = [at \in D |-> IdsStep(order, f, j, at)]
      BY <2>2
    <3>. QED BY <3>1, <3>2
  <2>4. \A j \in 0..m : \A at \in D : IdsStep(order, f, j, at) = IdsStep(order, g, j, at)
    <3>. HIDE DEF g
    <3>1. \A j \in 0..m : j = 0 \/ j - 1 \in 0..(m - 1)
      BY <2>1
    <3>. QED BY <2>3, <3>1 DEF IdsStep
  <2>5. g = F(m, g)
    <3>1. [j \in 0..m |-> [at \in D |-> IdsStep(order, f, j, at)]]
            = [j \in 0..m |-> [at \in D |-> IdsStep(order, g, j, at)]]
      <4>. HIDE DEF g
      <4>. QED BY <2>4
    <3>2. g = [j \in 0..m |-> [at \in D |-> IdsStep(order, f, j, at)]]
      OBVIOUS
    <3>. QED BY <3>1, <3>2
  <2>. HIDE DEF g, F
  <2>. QED BY <1>3, <2>5
<1>. QED BY <1>4, <1>5

\* IdsFrom reads one of them.
LEMMA IdsFromIs ==
    ASSUME NEW order, Cardinality(DOMAIN order) \in Nat
    PROVE  \E f : /\ IdsWalk(order, Cardinality(DOMAIN order), f)
                  /\ \A head : IdsFrom(order, head) = f[Cardinality(DOMAIN order)][head]
<1>. DEFINE c == Cardinality(DOMAIN order)
            F(f) == [j \in 0..c |-> [at \in DOMAIN order \cup {NIL} |-> IdsStep(order, f, j, at)]]
            w == CHOOSE f : f = F(f)
<1>1. w = F(w)
  <2>1. \E f : f = F(f)
    <3>1. c \in Nat
      OBVIOUS
    <3>. HIDE DEF c
    <3>. QED BY <3>1, IdsExist
  <2>. HIDE DEF F
  <2>. QED BY <2>1
<1>2. \A head : IdsFrom(order, head) = w[c][head]
  BY DEF IdsFrom, IdsStep
<1>3. IdsWalk(order, c, w)
  <2>. HIDE DEF w, c
  <2>1. \A j \in 0..c : w[j] = [at \in DOMAIN order \cup {NIL} |-> IdsStep(order, w, j, at)]
    BY <1>1
  <2>. QED BY <2>1 DEF IdsWalk
<1>. HIDE DEF w
<1>. QED BY <1>2, <1>3

\* The orders p and q are the same under other slots, by the map g.
Matched(p, q, g) ==
    /\ NIL \notin DOMAIN p /\ NIL \notin DOMAIN q
    /\ g[NIL] = NIL
    /\ \A x \in DOMAIN p : g[x] \in DOMAIN q
    /\ \A x, y \in DOMAIN p : g[x] = g[y] => x = y
    /\ \A z \in DOMAIN q : \E x \in DOMAIN p : z = g[x]
    /\ \A x \in DOMAIN p : /\ p[x].next \in DOMAIN p \cup {NIL}
                           /\ q[g[x]].next = g[p[x].next]
                           /\ q[g[x]].id = p[x].id /\ q[g[x]].price = p[x].price
                           /\ q[g[x]].qty = p[x].qty /\ q[g[x]].filled = p[x].filled
                           /\ q[g[x]].side = p[x].side

\* Orders matched one to one, links included, give the same ids in the same order.
LEMMA MatchedIds ==
    ASSUME NEW p, NEW q, NEW g, Matched(p, q, g), IsFiniteSet(DOMAIN p)
    PROVE  /\ Cardinality(DOMAIN q) = Cardinality(DOMAIN p)
           /\ \A x \in DOMAIN p \cup {NIL} : IdsFrom(q, g[x]) = IdsFrom(p, x)
<1>. DEFINE c == Cardinality(DOMAIN p)
<1>1. c \in Nat
  BY FS_CardinalityType
<1>2. Cardinality(DOMAIN q) = c
  <2>. DEFINE h == [x \in DOMAIN p |-> g[x]]
  <2>1. h \in [DOMAIN p -> DOMAIN q]
    BY DEF Matched
  <2>2. \A x, y \in DOMAIN p : h[x] = h[y] => x = y
    BY DEF Matched
  <2>3. \A z \in DOMAIN q : \E x \in DOMAIN p : h[x] = z
    BY DEF Matched
  <2>. HIDE DEF h
  <2>4. h \in Bijection(DOMAIN p, DOMAIN q)
    BY <2>1, <2>2, <2>3, Fun_IsBij
  <2>5. ExistsBijection(DOMAIN p, DOMAIN q)
    BY <2>4, Fun_ExistsBij
  <2>. QED BY <2>5, FS_Bijection
<1>3. PICK e : /\ IdsWalk(p, c, e) /\ \A head : IdsFrom(p, head) = e[c][head]
  BY <1>1, IdsFromIs
<1>4. PICK f : /\ IdsWalk(q, c, f) /\ \A head : IdsFrom(q, head) = f[c][head]
  BY <1>1, <1>2, IdsFromIs
<1>. HIDE DEF c
<1>. DEFINE Bad == {j \in 0..c : \E x \in DOMAIN p \cup {NIL} : f[j][g[x]] # e[j][x]}
<1>5. Bad = {}
  <2>. SUFFICES ASSUME Bad # {} PROVE FALSE
    OBVIOUS
  <2>1. PICK j \in Bad : \A i \in Bad : j <= i
    <3>1. Bad \in SUBSET Nat
      OBVIOUS
    <3>. HIDE DEF Bad
    <3>. QED BY <3>1, LeastNumber
  <2>2. PICK x \in DOMAIN p \cup {NIL} : f[j][g[x]] # e[j][x]
    BY <2>1
  <2>3. j \in 0..c
    BY <2>1
  <2>4. g[x] \in DOMAIN q \cup {NIL} /\ (g[x] = NIL <=> x = NIL)
    BY DEF Matched
  <2>5. e[j][x] = IdsStep(p, e, j, x) /\ f[j][g[x]] = IdsStep(q, f, j, g[x])
    BY <1>3, <1>4, <2>3, <2>4 DEF IdsWalk
  <2>6. CASE j = 0 \/ x = NIL
    BY <2>2, <2>4, <2>5, <2>6 DEF IdsStep
  <2>7. CASE j # 0 /\ x # NIL
    <3>1. x \in DOMAIN p /\ j - 1 \in 0..c /\ ~(j <= j - 1)
      BY <1>1, <2>3, <2>7
    <3>2. j - 1 \notin Bad
      <4>. HIDE DEF Bad
      <4>. QED BY <2>1, <3>1
    <3>3. p[x].next \in DOMAIN p \cup {NIL} /\ q[g[x]].next = g[p[x].next] /\ q[g[x]].id = p[x].id
      BY <3>1 DEF Matched
    <3>4. f[j - 1][g[p[x].next]] = e[j - 1][p[x].next]
      BY <3>1, <3>2, <3>3
    <3>5. e[j][x] = <<p[x].id>> \o e[j - 1][p[x].next]
      BY <2>5, <2>7 DEF IdsStep
    <3>6. f[j][g[x]] = <<q[g[x]].id>> \o f[j - 1][q[g[x]].next]
      BY <2>4, <2>5, <2>7 DEF IdsStep
    <3>. QED BY <2>2, <3>3, <3>4, <3>5, <3>6
  <2>. QED BY <2>6, <2>7
<1>6. c \in 0..c
  BY <1>1 DEF c
<1>7. \A x \in DOMAIN p \cup {NIL} : f[c][g[x]] = e[c][x]
  BY <1>5, <1>6
<1>. QED BY <1>2, <1>3, <1>4, <1>7 DEF c

\* Books whose levels and orders match have the same digest.
LEMMA MatchedDigest ==
    ASSUME NEW p, NEW q, NEW g, Matched(p, q, g), IsFiniteSet(DOMAIN p),
           NEW best, NEW lp, NEW lq,
           \A st \in Sides \X Ticks : /\ lp[st].head \in DOMAIN p \cup {NIL}
                                      /\ lq[st].head = g[lp[st].head]
                                      /\ lq[st].qtyTotal = lp[st].qtyTotal
                                      /\ lq[st].count = lp[st].count
    PROVE  DigestOf(best, lq, q) = DigestOf(best, lp, p)
<1>1. /\ Cardinality(DOMAIN q) = Cardinality(DOMAIN p)
      /\ \A x \in DOMAIN p \cup {NIL} : IdsFrom(q, g[x]) = IdsFrom(p, x)
  BY MatchedIds
<1>. DEFINE Of(l) == {st \in Sides \X Ticks : l[st].head # NIL}
            Row(l, o) == [st \in Of(l) |-> <<l[st].qtyTotal, l[st].count, IdsFrom(o, l[st].head)>>]
            All(o) == {<<o[s].id, o[s].price, o[s].qty, o[s].filled, o[s].side>> : s \in DOMAIN o}
<1>2. \A x \in DOMAIN p \cup {NIL} : g[x] = NIL <=> x = NIL
  BY DEF Matched
<1>3. Of(lq) = Of(lp)
  BY <1>2
<1>4. Row(lq, q) = Row(lp, p)
  <2>1. \A st \in Of(lp) : /\ lq[st].qtyTotal = lp[st].qtyTotal /\ lq[st].count = lp[st].count
                           /\ IdsFrom(q, lq[st].head) = IdsFrom(p, lp[st].head)
    BY <1>1
  <2>. HIDE DEF Of
  <2>. QED BY <1>3, <2>1
<1>5. All(q) = All(p)
  <2>1. \A x \in DOMAIN p : /\ g[x] \in DOMAIN q
                            /\ q[g[x]].id = p[x].id /\ q[g[x]].price = p[x].price
                            /\ q[g[x]].qty = p[x].qty /\ q[g[x]].filled = p[x].filled
                            /\ q[g[x]].side = p[x].side
    BY DEF Matched
  <2>2. \A z \in DOMAIN q : \E x \in DOMAIN p : z = g[x]
    BY DEF Matched
  <2>. DEFINE T(o, s) == <<o[s].id, o[s].price, o[s].qty, o[s].filled, o[s].side>>
  <2>3. \A x \in DOMAIN p : T(q, g[x]) = T(p, x)
    BY <2>1
  <2>. HIDE DEF T
  <2>4. {T(q, s) : s \in DOMAIN q} = {T(p, s) : s \in DOMAIN p}
    BY <2>1, <2>2, <2>3
  <2>. QED BY <2>4 DEF T
<1>6. /\ DigestOf(best, lq, q) = [best |-> best, count |-> Cardinality(DOMAIN q), levels |-> Row(lq, q), orders |-> All(q)]
      /\ DigestOf(best, lp, p) = [best |-> best, count |-> Cardinality(DOMAIN p), levels |-> Row(lp, p), orders |-> All(p)]
  BY Zenon DEF DigestOf
<1>. HIDE DEF Row, All
<1>. QED BY <1>1, <1>4, <1>5, <1>6

\* The ultima book and the flat book have the same digest.
LEMMA SameDigest ==
    ASSUME NEW u, NEW b, Intact(b), Same(u, b)
    PROVE  DigestUltima(u.db) = DigestBook(b)
<1>. DEFINE p == Restrict(b.pool, {s \in 0..(b.hwm - 1) : b.pool[s].id # 0})
            q == [s \in {SlotOf(row) : row \in DOMAIN u.db.orders} |-> u.db.orders[RowOf(s)]]
            g == [x \in Used(b) \cup {NIL} |-> LinkIn(u, b, x)]
            lp == [st \in Sides \X Ticks |-> b.lane[st[1]][st[2]]]
            lq == [st \in Sides \X Ticks |-> u.db.levels[LevelId(st[1], st[2])]]
<1>1. b \in Books /\ b.hwm \in 0..Cap /\ Cap \in Nat /\ NIL \notin Slots
      /\ \A x \in Used(b) : x \in Slots /\ x < b.hwm
  BY IntactBooks, OrdersAreUsed, BookConfig
<1>2. {s \in 0..(b.hwm - 1) : b.pool[s].id # 0} = Used(b)
  <2>1. \A s \in 0..(b.hwm - 1) : s \in Slots
    BY <1>1 DEF Slots
  <2>2. \A s \in Used(b) : s \in 0..(b.hwm - 1)
    BY <1>1 DEF Slots
  <2>. QED BY <2>1, <2>2 DEF Used
<1>3. DOMAIN p = Used(b) /\ \A x \in Used(b) : p[x] = b.pool[x]
  <2>1. p = [x \in Used(b) |-> b.pool[x]]
    BY <1>2 DEF Restrict
  <2>. HIDE DEF p
  <2>. QED BY <2>1
<1>4. /\ \A x \in Used(b) : SlotIn(u, b, x) \in DOMAIN q /\ q[SlotIn(u, b, x)] = OrderIn(u, b, x)
      /\ \A z \in DOMAIN q : \E x \in Used(b) : z = SlotIn(u, b, x)
      /\ NIL \notin DOMAIN q
  <2>1. ASSUME NEW r \in DOMAIN u.db.orders
        PROVE  r \in Int /\ SlotOf(r) # NIL /\ \E x \in Used(b) : SlotOf(r) = SlotIn(u, b, x)
    <3>1. r \in Int /\ \E x \in Used(b) : r = RowOf(SlotIn(u, b, x))
      BY SlotsIn
    <3>2. PICK x \in Used(b) : r = RowOf(SlotIn(u, b, x))
      BY <3>1
    <3>3. SlotIn(u, b, x) \in Int /\ SlotIn(u, b, x) # NIL
      BY SlotsIn
    <3>. QED BY <3>1, <3>2, <3>3, RowSlot
  <2>2. ASSUME NEW x \in Used(b)
        PROVE  SlotIn(u, b, x) \in DOMAIN q /\ q[SlotIn(u, b, x)] = OrderIn(u, b, x)
    <3>1. RowOf(SlotIn(u, b, x)) \in DOMAIN u.db.orders /\ SlotIn(u, b, x) \in Int
      BY SlotsIn
    <3>2. SlotIn(u, b, x) \in DOMAIN q
      BY <3>1, RowSlot
    <3>3. u.db.orders[RowOf(SlotIn(u, b, x))] = OrderIn(u, b, x)
      BY DEF Same
    <3>. QED BY <3>2, <3>3
  <2>. QED BY <2>1, <2>2
<1>5. LinksUsed(b)
  BY LinksLead
<1>6. Matched(p, q, g)
  <2>. HIDE DEF p, q
  <2>1. \A x \in Used(b) : x # NIL /\ g[x] = SlotIn(u, b, x)
    BY <1>1 DEF LinkIn
  <2>2. g[NIL] = NIL
    BY DEF LinkIn
  <2>3. NIL \notin DOMAIN p
    BY <1>3, <2>1
  <2>4. \A x, y \in Used(b) : g[x] = g[y] => x = y
    BY SlotsIn
  <2>5. \A x \in Used(b) \cup {NIL} : g[x] = LinkIn(u, b, x)
    OBVIOUS
  <2>. HIDE DEF g
  <2>6. ASSUME NEW x \in Used(b)
        PROVE  /\ p[x].next \in Used(b) \cup {NIL}
               /\ q[g[x]].next = g[p[x].next]
               /\ q[g[x]].id = p[x].id /\ q[g[x]].price = p[x].price
               /\ q[g[x]].qty = p[x].qty /\ q[g[x]].filled = p[x].filled
               /\ q[g[x]].side = p[x].side
    <3>1. p[x] = b.pool[x] /\ q[g[x]] = OrderIn(u, b, x)
      BY <1>3, <1>4, <2>1
    <3>2. b.pool[x].next \in Used(b) \cup {NIL}
      BY <1>5 DEF LinksUsed
    <3>3. g[b.pool[x].next] = LinkIn(u, b, b.pool[x].next)
      BY <2>5, <3>2
    <3>. QED BY <3>1, <3>2, <3>3 DEF OrderIn
  <2>7. (\A x \in Used(b) : g[x] \in DOMAIN q) /\ \A z \in DOMAIN q : \E x \in Used(b) : z = g[x]
    BY <1>4, <2>1
  <2>. QED BY <1>3, <1>4, <2>2, <2>3, <2>4, <2>6, <2>7 DEF Matched
<1>7. IsFiniteSet(DOMAIN p)
  <2>1. IsFiniteSet(Slots)
    BY BookConfig, FS_Interval DEF Slots
  <2>2. Used(b) \subseteq Slots
    BY DEF Used
  <2>. QED BY <1>3, <2>1, <2>2, FS_Subset
<1>8. ASSUME NEW st \in Sides \X Ticks
      PROVE  /\ lp[st].head \in DOMAIN p \cup {NIL}
             /\ lq[st].head = g[lp[st].head]
             /\ lq[st].qtyTotal = lp[st].qtyTotal
             /\ lq[st].count = lp[st].count
  <2>. DEFINE d == st[1]
              t == st[2]
  <2>1. d \in Sides /\ t \in Ticks
    OBVIOUS
  <2>2. lp[st] = b.lane[d][t] /\ lq[st] = u.db.levels[LevelId(d, t)]
    OBVIOUS
  <2>3. u.db.levels[LevelId(d, t)] = LevelIn(u, b, d, t) /\ b.lane[d][t].head \in Used(b) \cup {NIL}
    BY <1>5, <2>1 DEF Same, LinksUsed
  <2>4. g[b.lane[d][t].head] = LinkIn(u, b, b.lane[d][t].head)
    BY <2>3
  <2>. HIDE DEF d, t, p, q, g, lp, lq
  <2>. QED BY <1>3, <2>2, <2>3, <2>4 DEF LevelIn
<1>9. /\ DigestBook(b) = DigestOf(b.best, lp, p) /\ DigestUltima(u.db) = DigestOf(u.db.best, lq, q)
  BY Zenon DEF DigestBook, DigestUltima
<1>10. u.db.best = b.best
  BY DEF Same
<1>. HIDE DEF p, q, g, lp, lq
<1>11. DigestOf(b.best, lq, q) = DigestOf(b.best, lp, p)
  BY <1>6, <1>7, <1>8, MatchedDigest
<1>. QED BY <1>9, <1>10, <1>11

-----------------------------------------------------------------------------
(* Images of the tables.                                                   *)

\* The members of a finite set in ascending order.
LEMMA AscendingIs ==
    ASSUME NEW P \in SUBSET Int, IsFiniteSet(P)
    PROVE  /\ Cardinality(P) \in Nat /\ Len(Ascending(P)) = Cardinality(P)
           /\ \A i \in 1..Cardinality(P) : Ascending(P)[i] = Nth(P, i) /\ Nth(P, i) \in P
           /\ \A p \in P : \E i \in 1..Cardinality(P) : Nth(P, i) = p
           /\ \A i, j \in 1..Cardinality(P) : i < j => Nth(P, i) < Nth(P, j)
<1>. DEFINE c == Cardinality(P)
<1>1. /\ c \in Nat
      /\ \A i \in 1..c : Nth(P, i) \in P
      /\ \A p \in P : \E i \in 1..c : Nth(P, i) = p
      /\ \A i, j \in 1..c : i < j => Nth(P, i) < Nth(P, j)
  BY NthEnumerates
<1>2. Ascending(P) = [i \in 1..c |-> Nth(P, i)]
  BY Zenon DEF Ascending, Nth
<1>. HIDE DEF c
<1>3. Len(Ascending(P)) = c /\ \A i \in 1..c : Ascending(P)[i] = Nth(P, i)
  BY <1>1, <1>2
<1>. QED BY <1>1, <1>3 DEF c

\* The rows of the occupied levels are at the places of the occupied levels.
OccupiedRows(db) == {i \in 1..(2 * Levels) : db.levels[i].head # NIL}

\* The occupied levels of the tables are those of the flat book.
LEMMA OccupiedArePlaces ==
    ASSUME NEW u, NEW b, Intact(b), Same(u, b)
    PROVE  /\ OccupiedRows(u.db) = Places(b)
           /\ OccupiedRows(u.db) \in SUBSET Int /\ IsFiniteSet(OccupiedRows(u.db))
<1>1. Levels \in Nat \ {0}
  BY BookConfig
<1>2. ASSUME NEW p \in 1..(2 * Levels)
      PROVE  u.db.levels[p].head # NIL <=> LevelAt(b, p).level.head # NIL
  <2>1. PICK side \in Sides, t \in Ticks : p = LevelId(side, t)
    BY LevelIdIs
  <2>2. LevelAt(b, p) = [side |-> side, tick |-> t, level |-> b.lane[side][t]]
    <3>1. p = LevelPlace(side, t)
      BY <2>1, LevelIdIs
    <3>. QED BY <3>1, LevelAtPlace
  <2>3. u.db.levels[p] = LevelIn(u, b, side, t)
    BY <2>1 DEF Same
  <2>4. b.lane[side][t].head \in Used(b) \cup {NIL}
    BY LinksLead DEF LinksUsed
  <2>5. LinkIn(u, b, b.lane[side][t].head) = NIL <=> b.lane[side][t].head = NIL
    BY <2>4, SlotsIn DEF LinkIn
  <2>. QED BY <2>2, <2>3, <2>5 DEF LevelIn
<1>3. OccupiedRows(u.db) = Places(b)
  BY <1>2 DEF OccupiedRows, Places
<1>4. IsFiniteSet(1..(2 * Levels)) /\ OccupiedRows(u.db) \subseteq 1..(2 * Levels)
  BY <1>1, FS_Interval DEF OccupiedRows
<1>5. IsFiniteSet(OccupiedRows(u.db))
  BY <1>4, FS_Subset
<1>. QED BY <1>1, <1>3, <1>4, <1>5

\* The elements of the groups: those of the occupied levels and of the rows.
RowElem(db, r) == [slot |-> SlotOf(r), order |-> db.orders[r]]

\* The elements of an image, in order.
LEMMA ElemsOfTables ==
    ASSUME NEW u, NEW b, Intact(b), Same(u, b)
    PROVE  LET P == OccupiedRows(u.db)
               R == DOMAIN u.db.orders
           IN  /\ P = Places(b)
               /\ Cardinality(P) \in Nat /\ Cardinality(P) <= b.hwm
               /\ Cardinality(R) \in Nat /\ Cardinality(R) <= b.hwm
               /\ LevelRowElems(u.db) = [j \in 1..Cardinality(P) |-> LevelElem(u.db.levels[Nth(P, j)])]
               /\ OrderRowElems(u.db) = [j \in 1..Cardinality(R) |-> RowElem(u.db, Nth(R, j))]
<1>. DEFINE db == u.db
            P == OccupiedRows(db)
            R == DOMAIN db.orders
            lv == [j \in 1..Cardinality(P) |-> LevelElem(db.levels[Nth(P, j)])]
            os == [j \in 1..Cardinality(R) |-> RowElem(db, Nth(R, j))]
<1>1. P = Places(b) /\ P \in SUBSET Int /\ IsFiniteSet(P)
  BY OccupiedArePlaces
<1>2. b \in Books /\ SlotsHold(b) /\ b.hwm \in Nat
  BY IntactBooks, BookConfig
<1>3. Cardinality(P) \in Nat /\ Cardinality(P) <= b.hwm
  <2>1. Len(LevelElems(b)) <= b.hwm
    BY LevelsFit
  <2>. DEFINE c == Cardinality(Places(b))
  <2>2. c \in Nat /\ LevelElems(b) = [j \in 1..c |-> LevelAt(b, Nth(Places(b), j))]
    BY LevelElemsAre
  <2>. HIDE DEF c
  <2>3. Len(LevelElems(b)) = c
    BY <2>2
  <2>. QED BY <1>1, <2>1, <2>2, <2>3 DEF c
<1>4. IsFiniteSet(DOMAIN b.idmap) /\ Cardinality(DOMAIN b.idmap) \in Nat
      /\ Cardinality(DOMAIN b.idmap) <= b.hwm
  <2>1. IsFiniteSet(DOMAIN b.idmap)
    BY <1>2, IdsFinite
  <2>2. IsFiniteSet(0..(b.hwm - 1)) /\ Cardinality(0..(b.hwm - 1)) = b.hwm
    <3>1. 0 \in Int /\ b.hwm - 1 \in Int
      BY <1>2
    <3>2. /\ IsFiniteSet(0..(b.hwm - 1))
          /\ Cardinality(0..(b.hwm - 1)) = IF 0 > b.hwm - 1 THEN 0 ELSE b.hwm - 1 - 0 + 1
      BY <3>1, FS_Interval, Zenon
    <3>. QED BY <1>2, <3>2
  <2>. DEFINE h == [i \in DOMAIN b.idmap |-> b.idmap[i]]
  <2>3. \A i \in DOMAIN b.idmap : b.idmap[i] \in 0..(b.hwm - 1) /\ b.pool[b.idmap[i]].id = i
    <3>1. \A i \in DOMAIN b.idmap : b.idmap[i] \in Used(b) /\ b.pool[b.idmap[i]].id = i
      BY OrdersAreUsed
    <3>2. \A x \in Used(b) : x \in Slots /\ x < b.hwm
      BY OrdersAreUsed
    <3>. QED BY <1>2, <3>1, <3>2, BookConfig DEF Slots
  <2>4. h \in [DOMAIN b.idmap -> 0..(b.hwm - 1)]
    BY <2>3
  <2>5. \A i, j \in DOMAIN b.idmap : h[i] = h[j] => i = j
    BY <2>3
  <2>. HIDE DEF h
  <2>6. h \in Injection(DOMAIN b.idmap, 0..(b.hwm - 1))
    BY <2>4, <2>5, Fun_IsInj
  <2>7. Cardinality(DOMAIN b.idmap) <= Cardinality(0..(b.hwm - 1))
    BY <2>2, <2>6, FS_Injection
  <2>8. Cardinality(DOMAIN b.idmap) \in Nat
    BY <2>1, FS_CardinalityType
  <2>. QED BY <2>1, <2>2, <2>7, <2>8
<1>5. R \in SUBSET Int /\ IsFiniteSet(R) /\ Cardinality(R) \in Nat /\ Cardinality(R) <= b.hwm
  <2>1. R \in SUBSET Int
    BY SlotsIn
  <2>. DEFINE D == DOMAIN b.idmap
              h == [i \in D |-> u.ids[i]]
  <2>2. h \in [D -> R] /\ \A r \in R : \E i \in D : h[i] = r
    BY DEF Same, RowsHold
  <2>. HIDE DEF h, R
  <2>3. h \in Surjection(D, R)
    BY <2>2, Fun_IsSurj
  <2>4. IsFiniteSet(D)
    BY <1>4
  <2>. HIDE DEF D
  <2>5. IsFiniteSet(R) /\ Cardinality(R) <= Cardinality(D)
    BY <2>3, <2>4, FS_Surjection
  <2>6. Cardinality(R) \in Nat
    BY <2>5, FS_CardinalityType
  <2>7. Cardinality(D) \in Nat /\ Cardinality(D) <= b.hwm
    BY <1>4 DEF D
  <2>. QED BY <1>2, <2>1, <2>5, <2>6, <2>7
<1>6. LevelRowElems(db) = lv
  <2>. DEFINE a == Ascending(P)
  <2>1. LevelRowElems(db) = [j \in 1..Len(a) |-> LevelElem(db.levels[a[j]])]
    BY Zenon DEF LevelRowElems, OccupiedRows
  <2>2. Len(a) = Cardinality(P) /\ \A j \in 1..Cardinality(P) : a[j] = Nth(P, j)
    BY <1>1, AscendingIs
  <2>. HIDE DEF a, P, db
  <2>. QED BY <2>1, <2>2
<1>7. OrderRowElems(db) = os
  <2>. DEFINE a == Ascending(R)
  <2>1. OrderRowElems(db) = [j \in 1..Len(a) |-> RowElem(db, a[j])]
    BY Zenon DEF OrderRowElems, RowElem
  <2>2. Len(a) = Cardinality(R) /\ \A j \in 1..Cardinality(R) : a[j] = Nth(R, j)
    BY <1>5, AscendingIs
  <2>. HIDE DEF a, R, db
  <2>. QED BY <2>1, <2>2
<1>. QED BY <1>1, <1>3, <1>5, <1>6, <1>7

\* If the counters suffice, the groups of an image are those elements.
LEMMA GroupsOfTables ==
    ASSUME NEW u, NEW b, Intact(b), Same(u, b), b.hwm <= GroupMax
    PROVE  LET P == OccupiedRows(u.db)
               R == DOMAIN u.db.orders
               img == EncodeAt(u.db)
           IN  /\ ~EncodeAtPanics(u.db)
               /\ Cardinality(P) \in Nat /\ Cardinality(R) \in Nat
               /\ img.levels = [j \in 1..Cardinality(P) |-> LevelElem(u.db.levels[Nth(P, j)])]
               /\ img.orders = [j \in 1..Cardinality(R) |-> RowElem(u.db, Nth(R, j))]
               /\ img.hwm = u.db.hwm /\ img.best = u.db.best
               /\ img = [hwm |-> u.db.hwm, best |-> u.db.best, freeHead |-> NIL,
                         levels |-> img.levels, orders |-> img.orders]
<1>. DEFINE db == u.db
            P == OccupiedRows(db)
            R == DOMAIN db.orders
            lv == [j \in 1..Cardinality(P) |-> LevelElem(db.levels[Nth(P, j)])]
            os == [j \in 1..Cardinality(R) |-> RowElem(db, Nth(R, j))]
<1>1. /\ Cardinality(P) \in Nat /\ Cardinality(P) <= b.hwm
      /\ Cardinality(R) \in Nat /\ Cardinality(R) <= b.hwm
      /\ LevelRowElems(db) = lv /\ OrderRowElems(db) = os
  BY ElemsOfTables
<1>2. b.hwm \in Nat
  BY IntactBooks
<1>3. Group(lv) = lv /\ ~GroupPanics(lv)
  <2>. DEFINE c == Cardinality(P)
  <2>1. c \in Nat /\ c <= GroupMax
    BY <1>1, <1>2, GroupMaxAssumption
  <2>2. lv = [j \in 1..c |-> lv[j]]
    OBVIOUS
  <2>. HIDE DEF lv, c
  <2>. QED BY <2>1, <2>2, GroupIs
<1>4. Group(os) = os /\ ~GroupPanics(os)
  <2>. DEFINE c == Cardinality(R)
  <2>1. c \in Nat /\ c <= GroupMax
    BY <1>1, <1>2, GroupMaxAssumption
  <2>2. os = [j \in 1..c |-> os[j]]
    OBVIOUS
  <2>. HIDE DEF os, c
  <2>. QED BY <2>1, <2>2, GroupIs
<1>5. EncodeAt(db) = [hwm |-> db.hwm, best |-> db.best, freeHead |-> NIL, levels |-> lv, orders |-> os]
  <2>. HIDE DEF lv, os
  <2>. QED BY <1>1, <1>3, <1>4 DEF EncodeAt
<1>6. ~EncodeAtPanics(db)
  <2>. HIDE DEF lv, os
  <2>. QED BY <1>1, <1>3, <1>4 DEF EncodeAtPanics
<1>. HIDE DEF lv, os
<1>7. LET img == EncodeAt(u.db)
       IN  /\ img.levels = lv /\ img.orders = os
           /\ img.hwm = u.db.hwm /\ img.best = u.db.best
           /\ img = [hwm |-> u.db.hwm, best |-> u.db.best, freeHead |-> NIL,
                     levels |-> img.levels, orders |-> img.orders]
  BY <1>5
<1>. QED BY <1>1, <1>6, <1>7 DEF lv, os

\* The elements of a group that holds one for each member of a set.
LEMMA GroupElements ==
    ASSUME NEW P \in SUBSET Int, IsFiniteSet(P), NEW e,
           NEW elems, elems = [j \in 1..Cardinality(P) |-> e[Nth(P, j)]]
    PROVE  Range(elems) = {e[p] : p \in P}
<1>1. /\ \A i \in 1..Cardinality(P) : Nth(P, i) \in P
      /\ \A p \in P : \E i \in 1..Cardinality(P) : Nth(P, i) = p
  BY NthEnumerates
<1>2. DOMAIN elems = 1..Cardinality(P) /\ \A j \in 1..Cardinality(P) : elems[j] = e[Nth(P, j)]
  OBVIOUS
<1>. QED BY <1>1, <1>2 DEF Range

\* The levels group holds every occupied level.
LEMMA LevelGroup ==
    ASSUME NEW u, NEW b, Intact(b), Same(u, b), b.hwm <= GroupMax
    PROVE  Range(EncodeAt(u.db).levels) = {LevelElem(u.db.levels[p]) : p \in OccupiedRows(u.db)}
<1>. DEFINE P == OccupiedRows(u.db)
            e == [p \in P |-> LevelElem(u.db.levels[p])]
            elems == EncodeAt(u.db).levels
<1>1. P \in SUBSET Int /\ IsFiniteSet(P)
  BY OccupiedArePlaces
<1>2. elems = [j \in 1..Cardinality(P) |-> LevelElem(u.db.levels[Nth(P, j)])]
  BY GroupsOfTables
<1>3. \A j \in 1..Cardinality(P) : Nth(P, j) \in P
  BY <1>1, NthEnumerates
<1>. HIDE DEF elems, P
<1>4. elems = [j \in 1..Cardinality(P) |-> e[Nth(P, j)]]
  BY <1>2, <1>3
<1>5. {e[p] : p \in P} = {LevelElem(u.db.levels[p]) : p \in P}
  OBVIOUS
<1>. HIDE DEF e
<1>6. Range(elems) = {e[p] : p \in P}
  BY <1>1, <1>4, GroupElements
<1>. QED BY <1>5, <1>6 DEF elems, P

\* The orders group holds every row, in ascending order: a restore accepts it.
LEMMA OrderGroup ==
    ASSUME NEW u, NEW b, Intact(b), Same(u, b), b.hwm <= GroupMax
    PROVE  /\ Range(EncodeAt(u.db).orders) = {RowElem(u.db, r) : r \in DOMAIN u.db.orders}
           /\ ~RestoreUltimaFails(EncodeAt(u.db))
<1>. DEFINE R == DOMAIN u.db.orders
            c == Cardinality(R)
            e == [r \in R |-> RowElem(u.db, r)]
            elems == EncodeAt(u.db).orders
<1>1. R \in SUBSET Int /\ IsFiniteSet(R) /\ c \in Nat
  <2>1. R \in SUBSET Int
    BY SlotsIn
  <2>2. IsFiniteSet(DOMAIN b.idmap)
    BY IntactBooks, IdsFinite
  <2>. DEFINE D == DOMAIN b.idmap
              h == [i \in D |-> u.ids[i]]
  <2>3. h \in [D -> R] /\ \A r \in R : \E i \in D : h[i] = r
    BY DEF Same, RowsHold
  <2>. HIDE DEF h, R
  <2>4. h \in Surjection(D, R)
    BY <2>3, Fun_IsSurj
  <2>5. IsFiniteSet(R)
    BY <2>2, <2>4, FS_Surjection
  <2>. QED BY <2>1, <2>5, FS_CardinalityType
<1>2. elems = [j \in 1..c |-> RowElem(u.db, Nth(R, j))]
  BY GroupsOfTables
<1>3. /\ \A j \in 1..c : Nth(R, j) \in R
      /\ \A i, j \in 1..c : i < j => Nth(R, i) < Nth(R, j)
  BY <1>1, NthEnumerates
<1>. HIDE DEF elems, R, c
<1>4. elems = [j \in 1..c |-> e[Nth(R, j)]]
  BY <1>2, <1>3
<1>5. {e[r] : r \in R} = {RowElem(u.db, r) : r \in R}
  OBVIOUS
<1>6. Range(elems) = {e[r] : r \in R}
  <2>. HIDE DEF e
  <2>1. elems = [j \in 1..Cardinality(R) |-> e[Nth(R, j)]]
    BY <1>4 DEF c
  <2>. QED BY <1>1, <2>1, GroupElements
<1>7. ~RestoreUltimaFails(EncodeAt(u.db))
  <2>1. SUFFICES ASSUME NEW i \in 1..(Len(elems) - 1), elems[i + 1].slot <= elems[i].slot PROVE FALSE
    BY DEF RestoreUltimaFails, elems
  <2>2. Len(elems) = c
    BY <1>1, <1>2
  <2>3. i \in 1..c /\ i + 1 \in 1..c /\ i < i + 1
    BY <1>1, <2>1, <2>2
  <2>4. elems[i].slot = SlotOf(Nth(R, i)) /\ elems[i + 1].slot = SlotOf(Nth(R, i + 1))
    BY <1>2, <2>3 DEF RowElem
  <2>5. Nth(R, i) \in Int /\ Nth(R, i + 1) \in Int /\ Nth(R, i) < Nth(R, i + 1)
    BY <1>1, <1>3, <2>3
  <2>. QED BY <2>1, <2>4, <2>5 DEF SlotOf
<1>. QED BY <1>5, <1>6, <1>7 DEF elems, R

\* What is restored from an image of the tables is the same book, in the same
\* rows, whatever row comes next.
LEMMA RestoreSame ==
    ASSUME NEW u, NEW b, Intact(b), Same(u, b), b.hwm <= GroupMax,
           NEW nextRow \in Nat \ {0}, \A r \in DOMAIN u.db.orders : r < nextRow
    PROVE  /\ Same(RestoreUltima(EncodeAt(u.db), nextRow), b)
           /\ RestoreUltima(EncodeAt(u.db), nextRow).ids = u.ids
<1>. DEFINE db == u.db
            img == EncodeAt(db)
            P == OccupiedRows(db)
            R == DOMAIN db.orders
            v == RestoreUltima(img, nextRow)
<1>1. Shaped(u) /\ RowsHold(u, DOMAIN b.idmap) /\ db.best = b.best
  BY DEF Same
<1>2. img.best = db.best /\ img.hwm = db.hwm
  BY GroupsOfTables
<1>3. /\ Range(img.levels) = {LevelElem(db.levels[p]) : p \in P}
      /\ Range(img.orders) = {RowElem(db, r) : r \in R}
  BY LevelGroup, OrderGroup
<1>4. db.levels = [p \in 1..(2 * Levels) |-> db.levels[p]]
      /\ db.orders = [r \in R |-> db.orders[r]]
      /\ u.ids = [i \in DOMAIN u.ids |-> u.ids[i]]
  BY <1>1 DEF Shaped
<1>5. /\ R \in SUBSET Int
      /\ \A r \in R : r \in 1..(nextRow - 1)
  <2>1. \A r \in R : r \in Int /\ r >= 1
    BY SlotsIn
  <2>. HIDE DEF R
  <2>2. \A r \in R : r < nextRow
    BY DEF R
  <2>. QED BY <2>1, <2>2
<1>6. \A r \in R : RowOf(RowElem(db, r).slot) = r /\ RowElem(db, r).order = db.orders[r]
  BY <1>5, RowSlot DEF RowElem
<1>. HIDE DEF img, R, P
<1>7. v.db.orders = db.orders
  <2>. DEFINE E == Range(img.orders)
  <2>1. {RowOf(e.slot) : e \in E} = R
    BY <1>3, <1>6
  <2>2. ASSUME NEW r \in R PROVE (CHOOSE e \in E : RowOf(e.slot) = r).order = db.orders[r]
    <3>1. RowElem(db, r) \in E /\ RowOf(RowElem(db, r).slot) = r
      BY <1>3, <1>6
    <3>2. \A e \in E : RowOf(e.slot) = r => e = RowElem(db, r)
      BY <1>3, <1>6
    <3>. HIDE DEF E
    <3>3. (CHOOSE e \in E : RowOf(e.slot) = r) = RowElem(db, r)
      BY <3>1, <3>2
    <3>. QED BY <1>6, <3>3
  <2>3. v.db.orders = [r \in {RowOf(e.slot) : e \in E} |-> (CHOOSE e \in E : RowOf(e.slot) = r).order]
    BY DEF RestoreUltima
  <2>. HIDE DEF E, v
  <2>. QED BY <1>4, <2>1, <2>2, <2>3
<1>8. v.ids = u.ids
  <2>. DEFINE E == Range(img.orders)
              D == DOMAIN b.idmap
  <2>1. \A i \in D : u.ids[i] \in R /\ db.orders[u.ids[i]].id = i
    <3>1. ASSUME NEW i \in D PROVE u.ids[i] \in R /\ db.orders[u.ids[i]].id = i
      <4>. DEFINE s == b.idmap[i]
      <4>1. b.pool[s].id = i /\ u.ids[i] \in DOMAIN db.orders /\ db.orders[u.ids[i]] = OrderIn(u, b, s)
        BY OrderOfId
      <4>. HIDE DEF s
      <4>. QED BY <4>1 DEF OrderIn, R
    <3>. QED BY <3>1
  <2>2. DOMAIN u.ids = D /\ \A r \in R : \E i \in D : r = u.ids[i]
    BY <1>1 DEF RowsHold, R
  <2>. HIDE DEF D
  <2>3. \A e \in E : \E i \in D : e = RowElem(db, u.ids[i]) /\ e.order.id = i
    BY <1>3, <1>6, <2>1, <2>2
  <2>4. \A i \in D : RowElem(db, u.ids[i]) \in E /\ RowElem(db, u.ids[i]).order.id = i
    BY <1>3, <1>6, <2>1
  <2>5. {e.order.id : e \in E} = D
    <3>. HIDE DEF E
    <3>. QED BY <2>3, <2>4
  <2>6. ASSUME NEW i \in D PROVE RowOf((CHOOSE e \in E : e.order.id = i).slot) = u.ids[i]
    <3>1. \A e \in E : e.order.id = i => e = RowElem(db, u.ids[i])
      <4>. HIDE DEF E
      <4>. QED BY <2>3
    <3>2. RowElem(db, u.ids[i]) \in E /\ RowElem(db, u.ids[i]).order.id = i
      BY <2>4
    <3>. HIDE DEF E
    <3>3. (CHOOSE e \in E : e.order.id = i) = RowElem(db, u.ids[i])
      BY <3>1, <3>2
    <3>. QED BY <1>6, <2>1, <3>3
  <2>7. v.ids = [i \in {e.order.id : e \in E} |-> RowOf((CHOOSE e \in E : e.order.id = i).slot)]
    BY DEF RestoreUltima, RestoreRowIds
  <2>. HIDE DEF E, v
  <2>. QED BY <1>4, <2>2, <2>5, <2>6, <2>7
<1>9. ASSUME NEW side \in Sides, NEW t \in Ticks
      PROVE  RestoreLevelRows(img)[LevelId(side, t)] = LevelIn(u, b, side, t)
  <2>. DEFINE E == Range(img.levels)
              p == LevelId(side, t)
              l == db.levels[p]
              at == {LevelId(e.side, e.tick) : e \in E}
  <2>1. p \in 1..(2 * Levels) /\ l = LevelIn(u, b, side, t)
    BY LevelIdIs DEF Same
  <2>2. l.side = side /\ l.tick = t
    BY <2>1 DEF LevelIn
  <2>3. RestoreLevelRows(img)[p] = IF p \in at THEN RestoreLevelRow(CHOOSE e \in E : LevelId(e.side, e.tick) = p)
                                   ELSE NewLevelRow(p)
    <3>. DEFINE one(i) == IF i \in at THEN RestoreLevelRow(CHOOSE e \in E : LevelId(e.side, e.tick) = i)
                          ELSE NewLevelRow(i)
    <3>1. RestoreLevelRows(img) = [i \in 1..(2 * Levels) |-> one(i)]
      BY Zenon DEF RestoreLevelRows
    <3>. HIDE DEF one, p
    <3>2. RestoreLevelRows(img)[p] = one(p)
      BY <2>1, <3>1
    <3>. QED BY <3>2 DEF one
  <2>4. ASSUME NEW i \in P
        PROVE  /\ LevelElem(db.levels[i]).side = db.levels[i].side
               /\ LevelElem(db.levels[i]).tick = db.levels[i].tick
               /\ LevelId(db.levels[i].side, db.levels[i].tick) = i
    <3>1. i \in 1..(2 * Levels)
      BY DEF P, OccupiedRows
    <3>2. PICK d \in Sides, s \in Ticks : i = LevelId(d, s)
      BY <3>1, LevelIdIs
    <3>3. db.levels[i] = LevelIn(u, b, d, s)
      BY <3>2 DEF Same
    <3>. QED BY <3>2, <3>3 DEF LevelElem, LevelIn
  <2>5. \A e \in E : LevelId(e.side, e.tick) = p => p \in P /\ e = LevelElem(l)
    BY <1>3, <2>4
  <2>6. CASE p \in P
    <3>1. LevelElem(l) \in E /\ LevelId(LevelElem(l).side, LevelElem(l).tick) = p
      BY <1>3, <2>4, <2>6
    <3>. DEFINE c == CHOOSE e \in E : LevelId(e.side, e.tick) = p
    <3>. HIDE DEF E, p, l
    <3>2. c = LevelElem(l)
      BY <2>5, <3>1
    <3>3. p \in at
      BY <3>1
    <3>. HIDE DEF c, at
    <3>4. RestoreLevelRow(LevelElem(l)) = [side |-> l.side, tick |-> l.tick, head |-> l.head, tail |-> l.tail,
                                           qtyTotal |-> l.qtyTotal, count |-> l.count]
      BY DEF RestoreLevelRow, LevelElem
    <3>5. l = [side |-> l.side, tick |-> l.tick, head |-> l.head, tail |-> l.tail,
               qtyTotal |-> l.qtyTotal, count |-> l.count]
      BY <2>1 DEF LevelIn
    <3>. QED BY <2>1, <2>3, <3>2, <3>3, <3>4, <3>5 DEF c, p
  <2>7. CASE p \notin P
    <3>1. p \notin at
      BY <2>5, <2>7
    <3>2. l.head = NIL
      BY <2>1, <2>7 DEF P, OccupiedRows
    <3>3. b.lane[side][t].head = NIL
      <4>1. b.lane[side][t].head \in Used(b) \cup {NIL}
        BY LinksLead DEF LinksUsed
      <4>2. LinkIn(u, b, b.lane[side][t].head) = NIL
        BY <2>1, <3>2 DEF LevelIn
      <4>. QED BY <4>1, <4>2, SlotsIn DEF LinkIn
    <3>4. b.lane[side][t] = EmptyLevel
      <4>1. PICK q, f : Holds(b, q, f)
        BY DEF Intact
      <4>. QED BY <3>3, <4>1, EmptyLevelIs
    <3>5. NewLevelRow(p) = LevelIn(u, b, side, t)
      BY <3>4, NewLevelRowIs DEF LevelIn, LinkIn, EmptyLevel
    <3>. HIDE DEF p, at
    <3>. QED BY <2>3, <3>1, <3>5 DEF p
  <2>. QED BY <2>6, <2>7
<1>10. v.db.levels = db.levels
  <2>1. v.db.levels = RestoreLevelRows(img) /\ RestoreLevelRows(img) = [i \in 1..(2 * Levels) |-> RestoreLevelRows(img)[i]]
    <3>1. v.db.levels = RestoreLevelRows(img)
      BY DEF RestoreUltima
    <3>. DEFINE at == {LevelId(e.side, e.tick) : e \in Range(img.levels)}
                one(i) == IF i \in at
                          THEN RestoreLevelRow(CHOOSE e \in Range(img.levels) : LevelId(e.side, e.tick) = i)
                          ELSE NewLevelRow(i)
    <3>2. RestoreLevelRows(img) = [i \in 1..(2 * Levels) |-> one(i)]
      BY Zenon DEF RestoreLevelRows
    <3>. HIDE DEF one, v
    <3>. QED BY <3>1, <3>2
  <2>2. ASSUME NEW i \in 1..(2 * Levels) PROVE RestoreLevelRows(img)[i] = db.levels[i]
    <3>1. PICK d \in Sides, s \in Ticks : i = LevelId(d, s)
      BY LevelIdIs
    <3>2. db.levels[i] = LevelIn(u, b, d, s)
      BY <3>1 DEF Same
    <3>. QED BY <1>9, <3>1, <3>2
  <2>. HIDE DEF v, db
  <2>. QED BY <1>4, <2>1, <2>2
<1>11. /\ v.db.nextRow = nextRow /\ v.db.best = img.best /\ v = [db |-> v.db, ids |-> v.ids]
       /\ v.db = [levels |-> v.db.levels, orders |-> v.db.orders, nextRow |-> v.db.nextRow,
                  hwm |-> v.db.hwm, best |-> v.db.best]
  BY DEF RestoreUltima
<1>. HIDE DEF v
<1>12. Shaped(v)
  BY <1>4, <1>7, <1>8, <1>10, <1>11 DEF Shaped, R
<1>13. RowsHold(v, DOMAIN b.idmap)
  <2>1. /\ DOMAIN u.ids = DOMAIN b.idmap
        /\ \A i, j \in DOMAIN b.idmap : u.ids[i] = u.ids[j] => i = j
        /\ R = {u.ids[i] : i \in DOMAIN b.idmap}
    BY <1>1 DEF RowsHold, R
  <2>2. v.db.nextRow = nextRow /\ v.ids = u.ids /\ DOMAIN v.db.orders = R
    BY <1>7, <1>8, <1>11 DEF R
  <2>3. \A i \in DOMAIN b.idmap : u.ids[i] \in 1..(nextRow - 1)
    BY <1>5, <2>1
  <2>. QED BY <2>1, <2>2, <2>3 DEF RowsHold
<1>14. \A x : SlotIn(v, b, x) = SlotIn(u, b, x) /\ LinkIn(v, b, x) = LinkIn(u, b, x)
  BY <1>8 DEF SlotIn, LinkIn
<1>15. Same(v, b)
  <2>1. \A x \in Used(b) : v.db.orders[RowOf(SlotIn(v, b, x))] = OrderIn(v, b, x)
    <3>1. \A x \in Used(b) : db.orders[RowOf(SlotIn(u, b, x))] = OrderIn(u, b, x)
      BY DEF Same
    <3>2. \A x : OrderIn(v, b, x) = OrderIn(u, b, x)
      BY <1>14 DEF OrderIn
    <3>. QED BY <1>7, <1>14, <3>1, <3>2
  <2>2. \A side \in Sides, t \in Ticks : v.db.levels[LevelId(side, t)] = LevelIn(v, b, side, t)
    <3>1. \A side \in Sides, t \in Ticks : db.levels[LevelId(side, t)] = LevelIn(u, b, side, t)
      BY DEF Same
    <3>2. \A side, t : LevelIn(v, b, side, t) = LevelIn(u, b, side, t)
      BY <1>14 DEF LevelIn
    <3>. QED BY <1>10, <3>1, <3>2
  <2>3. v.db.best = b.best
    BY <1>1, <1>2, <1>11
  <2>. QED BY <1>12, <1>13, <2>1, <2>2, <2>3 DEF Same
<1>. QED BY <1>8, <1>15 DEF v, img

-----------------------------------------------------------------------------
(* Without departures the tables number the orders as the pool does.       *)

Plain(u, b) ==
    /\ b.freeHead = NIL
    /\ u.db.hwm = b.hwm /\ u.db.nextRow = b.hwm + 1
    /\ \A i \in DOMAIN b.idmap : u.ids[i] = RowOf(b.idmap[i])

\* The new books are numbered alike.
LEMMA NewPlain == Plain(NewUltima, NewBook)
BY DEF Plain, NewUltima, NewTables, NewBook

\* An insert takes the next row and the next slot.
LEMMA InsertPlain ==
    ASSUME NEW u, NEW b, Intact(b), Same(u, b), Plain(u, b), ~Exhausted(b),
           NEW id \in Nat \ {0}, id \notin DOMAIN b.idmap,
           NEW t \in Ticks, NEW qty \in Nat, NEW side \in Sides
    PROVE  Plain(ApplyInsert(u, id, PriceOf(t), qty, side), Insert(b, id, PriceOf(t), qty, side))
<1>. DEFINE v == ApplyInsert(u, id, PriceOf(t), qty, side)
            m == Insert(b, id, PriceOf(t), qty, side)
            o == NewOrder(b, id, PriceOf(t), qty, side)
<1>1. b \in Books /\ b.hwm \in Nat /\ PriceOf(t) \in Int /\ TickOf(PriceOf(t)) = t
  BY IntactBooks, TickOfPrice
<1>2. Inserted(b, m, NextSlot(b), t, o)
  BY <1>1, InsertEffect
<1>3. NextSlot(b) = b.hwm
  BY DEF Plain, NextSlot
<1>4. m.freeHead = NIL /\ m.hwm = b.hwm + 1
  <2>. HIDE DEF m, o
  <2>. QED BY <1>2 DEF Inserted, Plain
<1>5. m.idmap = [i \in DOMAIN b.idmap \cup {id} |-> IF i = id THEN b.hwm ELSE b.idmap[i]]
  <2>1. o.id = id
    BY DEF NewOrder
  <2>. HIDE DEF m, o
  <2>. QED BY <1>2, <1>3, <2>1 DEF Inserted
<1>6. DOMAIN u.ids = DOMAIN b.idmap
  BY DEF Same, RowsHold
<1>7. /\ v.db.nextRow = u.db.nextRow + 1 /\ v.db.hwm = SlotOf(u.db.nextRow) + 1
      /\ v.ids = [i \in DOMAIN u.ids \cup {id} |-> IF i = id THEN u.db.nextRow ELSE u.ids[i]]
  BY DEF ApplyInsert
<1>8. /\ u.db.nextRow = b.hwm + 1
      /\ \A i \in DOMAIN b.idmap : u.ids[i] = RowOf(b.idmap[i])
  BY DEF Plain
<1>. HIDE DEF v, m
<1>9. v.db.hwm = b.hwm + 1 /\ v.db.nextRow = b.hwm + 1 + 1
  BY <1>1, <1>7, <1>8 DEF SlotOf
<1>10. \A i \in DOMAIN m.idmap : v.ids[i] = RowOf(m.idmap[i])
  <2>1. u.db.nextRow = RowOf(b.hwm)
    BY <1>8 DEF RowOf
  <2>. QED BY <1>5, <1>6, <1>7, <1>8, <2>1
<1>11. Plain(v, m)
  BY <1>4, <1>9, <1>10 DEF Plain
<1>. QED BY <1>11 DEF v, m

\* An update takes none.
LEMMA UpdatePlain ==
    ASSUME NEW u, NEW b, Intact(b), Same(u, b), Plain(u, b), NEW id \in DOMAIN b.idmap, NEW fillQty \in Nat
    PROVE  Plain(ApplyUpdate(u, id, fillQty), Update(b, id, fillQty))
<1>. DEFINE v == ApplyUpdate(u, id, fillQty)
            m == Update(b, id, fillQty)
            s == b.idmap[id]
            o == b.pool[s]
<1>1. s \in Slots /\ TickOf(o.price) \in Ticks
  BY OrderOfId
<1>2. b \in Books /\ SlotsHold(b) /\ o.filled <= o.qty
  BY <1>1, IntactBooks DEF SlotsHold
<1>3. m.hwm = b.hwm /\ m.freeHead = b.freeHead /\ m.idmap = b.idmap
  <2>1. \E add : Updated(b, m, s, add)
    BY <1>1, <1>2, UpdateEffect
  <2>. HIDE DEF m
  <2>. QED BY <2>1 DEF Updated
<1>4. v.ids = u.ids /\ v.db.hwm = u.db.hwm /\ v.db.nextRow = u.db.nextRow
  <2>1. Shaped(u)
    BY DEF Same
  <2>2. /\ ApplyUpdate(u, id, fillQty).ids = u.ids
        /\ ApplyUpdate(u, id, fillQty).db.hwm = u.db.hwm
        /\ ApplyUpdate(u, id, fillQty).db.nextRow = u.db.nextRow
    <3>. DEFINE row == u.ids[id]
                w == u.db.orders[row]
                lid == LevelId(w.side, TickOf(w.price))
                l == u.db.levels[lid]
                add == Min({fillQty, w.qty - w.filled})
                lv == [u.db.levels EXCEPT ![lid] = [l EXCEPT !.qtyTotal = l.qtyTotal - add]]
                os == [u.db.orders EXCEPT ![row] = [w EXCEPT !.filled = w.filled + add]]
    <3>1. ApplyUpdate(u, id, fillQty) =
            [db |-> [levels |-> lv, orders |-> os, nextRow |-> u.db.nextRow, hwm |-> u.db.hwm, best |-> u.db.best],
             ids |-> u.ids]
      BY <2>1, ApplyUpdateIs
    <3>. HIDE DEF lv, os
    <3>2. PICK db : ApplyUpdate(u, id, fillQty) = [db |-> db, ids |-> u.ids]
                    /\ db.hwm = u.db.hwm /\ db.nextRow = u.db.nextRow
      BY <3>1
    <3>. QED BY <3>2
  <2>. QED BY <2>2
<1>. HIDE DEF v, m
<1>5. Plain(v, m)
  BY <1>3, <1>4 DEF Plain
<1>. QED BY <1>5 DEF v, m

\* The members of a range of numbers, from the first on.
LEMMA NthOfRange ==
    ASSUME NEW h \in Nat, NEW j \in 1..h
    PROVE  Nth(1..h, j) = j
<1>1. \A p \in 1..h : {i \in 1..h : i < p} = 1..(p - 1)
  OBVIOUS
<1>2. ASSUME NEW p \in 1..h PROVE Cardinality({i \in 1..h : i < p}) = p - 1
  <2>1. 1 \in Int /\ p - 1 \in Int
    OBVIOUS
  <2>2. Cardinality(1..(p - 1)) = IF 1 > p - 1 THEN 0 ELSE p - 1 - 1 + 1
    BY <2>1, FS_Interval, Zenon
  <2>3. Cardinality(1..(p - 1)) = p - 1
    BY <2>2
  <2>. QED BY <1>1, <2>3
<1>3. \A p \in 1..h : Cardinality({i \in 1..h : i < p}) = j - 1 <=> p = j
  BY <1>2
<1>4. (CHOOSE p \in 1..h : Cardinality({i \in 1..h : i < p}) = j - 1) = j
  BY <1>3
<1>. QED BY <1>4 DEF Nth

\* Then no link is translated, and every slot below the mark holds an order.
LEMMA PlainLinks ==
    ASSUME NEW u, NEW b, Intact(b), Same(u, b), Plain(u, b)
    PROVE  /\ \A x \in Used(b) : SlotIn(u, b, x) = x
           /\ \A x \in Used(b) \cup {NIL} : LinkIn(u, b, x) = x
           /\ Used(b) = 0..(b.hwm - 1)
           /\ DOMAIN u.db.orders = 1..b.hwm
<1>1. b \in Books /\ b.hwm \in 0..Cap /\ Cap \in Nat
  BY IntactBooks, BookConfig
<1>2. ASSUME NEW x \in Used(b) PROVE SlotIn(u, b, x) = x
  <2>1. x \in Slots /\ b.pool[x].id \in DOMAIN b.idmap /\ b.idmap[b.pool[x].id] = x
    BY OrdersAreUsed
  <2>2. u.ids[b.pool[x].id] = RowOf(x)
    BY <2>1 DEF Plain
  <2>3. x \in Int
    BY <1>1, <2>1 DEF Slots
  <2>. QED BY <2>2, <2>3, RowSlot DEF SlotIn
<1>3. \A x \in Used(b) \cup {NIL} : LinkIn(u, b, x) = x
  BY <1>2 DEF LinkIn
<1>4. \A x \in Used(b) : x \in 0..(b.hwm - 1)
  <2>1. \A x \in Used(b) : x \in Slots /\ x < b.hwm
    BY OrdersAreUsed
  <2>. QED BY <1>1, <2>1 DEF Slots
<1>5. \A x \in 0..(b.hwm - 1) : x \in Used(b)
  <2>1. PICK q, f : Holds(b, q, f)
    BY DEF Intact
  <2>2. FreeHolds(b, f)
    BY <2>1 DEF Holds
  <2>3. Len(f) = 0
    <3>1. f \in Seq(Slots) /\ b.freeHead = IF Len(f) = 0 THEN NIL ELSE f[1]
      BY <2>2 DEF FreeHolds, ListFrom
    <3>2. Len(f) # 0 => f[1] \in Slots
      BY <3>1
    <3>. QED BY <3>1, <3>2, OrdersAreUsed DEF Plain
  <2>4. \A x \in Slots : x < b.hwm => b.pool[x].id # 0
    <3>1. \A x \in Slots : x < b.hwm /\ b.pool[x].id = 0 => \E i \in 1..Len(f) : f[i] = x
      BY <2>2 DEF FreeHolds
    <3>2. ~\E i \in 1..Len(f) : TRUE
      BY <2>3
    <3>. QED BY <3>1, <3>2
  <2>5. \A x \in 0..(b.hwm - 1) : x \in Slots /\ x < b.hwm
    BY <1>1 DEF Slots
  <2>. QED BY <2>4, <2>5 DEF Used
<1>6. Used(b) = 0..(b.hwm - 1)
  BY <1>4, <1>5
<1>7. DOMAIN u.db.orders = 1..b.hwm
  <2>1. \A r \in DOMAIN u.db.orders : \E x \in Used(b) : r = RowOf(SlotIn(u, b, x))
    BY SlotsIn
  <2>2. \A x \in Used(b) : RowOf(SlotIn(u, b, x)) \in DOMAIN u.db.orders
    BY SlotsIn
  <2>3. \A r \in DOMAIN u.db.orders : \E x \in 0..(b.hwm - 1) : r = RowOf(x)
    BY <1>2, <1>6, <2>1
  <2>4. \A x \in 0..(b.hwm - 1) : RowOf(x) \in DOMAIN u.db.orders
    BY <1>2, <1>6, <2>2
  <2>5. \A r \in 1..b.hwm : r - 1 \in 0..(b.hwm - 1) /\ RowOf(r - 1) = r
    BY <1>1 DEF RowOf
  <2>6. \A x \in 0..(b.hwm - 1) : RowOf(x) \in 1..b.hwm
    BY <1>1 DEF RowOf
  <2>7. DOMAIN u.db.orders \subseteq 1..b.hwm
    BY <2>3, <2>6
  <2>8. 1..b.hwm \subseteq DOMAIN u.db.orders
    BY <2>4, <2>5
  <2>. QED BY <2>7, <2>8
<1>. QED BY <1>2, <1>3, <1>6, <1>7

\* The images are equal.
LEMMA PlainImage ==
    ASSUME NEW u, NEW b, Intact(b), Same(u, b), Plain(u, b)
    PROVE  EncodeAt(u.db) = Encode(b)
<1>. DEFINE db == u.db
            P == OccupiedRows(db)
            R == DOMAIN db.orders
            lv == LevelRowElems(db)
            os == OrderRowElems(db)
<1>1. /\ Cardinality(P) \in Nat /\ Cardinality(R) \in Nat
      /\ lv = [j \in 1..Cardinality(P) |-> LevelElem(db.levels[Nth(P, j)])]
      /\ os = [j \in 1..Cardinality(R) |-> RowElem(db, Nth(R, j))]
  BY ElemsOfTables
<1>2. b \in Books /\ b.hwm \in Nat /\ db.best = b.best /\ db.hwm = b.hwm /\ b.freeHead = NIL
  BY IntactBooks DEF Same, Plain
<1>3. R = 1..b.hwm /\ Cardinality(R) = b.hwm
  <2>1. R = 1..b.hwm
    BY PlainLinks
  <2>2. 1 \in Int /\ b.hwm \in Int
    BY <1>2
  <2>3. Cardinality(1..b.hwm) = IF 1 > b.hwm THEN 0 ELSE b.hwm - 1 + 1
    BY <2>2, FS_Interval, Zenon
  <2>. QED BY <1>2, <2>1, <2>3
<1>4. os = OrderElems(b)
  <2>1. ASSUME NEW j \in 1..b.hwm PROVE RowElem(db, Nth(R, j)) = [slot |-> j - 1, order |-> b.pool[j - 1]]
    <3>1. Nth(R, j) = j
      BY <1>2, <1>3, NthOfRange
    <3>2. j - 1 \in Used(b) /\ SlotOf(j) = j - 1 /\ RowOf(j - 1) = j
      <4>1. j - 1 \in 0..(b.hwm - 1)
        BY <1>2
      <4>2. j - 1 \in Used(b)
        BY <4>1, PlainLinks
      <4>. QED BY <1>2, <4>2 DEF SlotOf, RowOf
    <3>. DEFINE x == j - 1
    <3>3. db.orders[j] = OrderIn(u, b, x)
      <4>1. SlotIn(u, b, x) = x
        BY <3>2, PlainLinks
      <4>2. db.orders[RowOf(SlotIn(u, b, x))] = OrderIn(u, b, x)
        BY <3>2 DEF Same
      <4>. QED BY <3>2, <4>1, <4>2
    <3>4. OrderIn(u, b, x) = b.pool[x]
      <4>1. b.pool[x].next \in Used(b) \cup {NIL} /\ b.pool[x].prev \in Used(b) \cup {NIL}
        BY <3>2, LinksLead DEF LinksUsed
      <4>2. LinkIn(u, b, b.pool[x].next) = b.pool[x].next /\ LinkIn(u, b, b.pool[x].prev) = b.pool[x].prev
        BY <4>1, PlainLinks
      <4>3. b.pool[x] \in Orders
        <5>1. x \in Slots
          BY <3>2 DEF Used
        <5>2. b.pool \in [Slots -> Orders]
          BY <1>2 DEF Books, Pools
        <5>. QED BY <5>1, <5>2
      <4>. HIDE DEF x
      <4>. QED BY <4>2, <4>3 DEF OrderIn, Orders
    <3>. QED BY <3>1, <3>2, <3>3, <3>4 DEF RowElem
  <2>2. OrderElems(b) = [j \in 1..b.hwm |-> [slot |-> j - 1, order |-> b.pool[j - 1]]]
    BY DEF OrderElems
  <2>. HIDE DEF R, db
  <2>. QED BY <1>1, <1>3, <2>1, <2>2
<1>5. lv = LevelElems(b)
  <2>1. P = Places(b)
    BY OccupiedArePlaces
  <2>2. /\ LevelElems(b) = [j \in 1..Cardinality(P) |-> LevelAt(b, Nth(P, j))]
        /\ \A j \in 1..Cardinality(P) : Nth(P, j) \in P
    BY <2>1, LevelElemsAre
  <2>3. ASSUME NEW p \in P PROVE LevelElem(db.levels[p]) = LevelAt(b, p)
    <3>1. p \in 1..(2 * Levels)
      BY DEF P, OccupiedRows
    <3>2. PICK side \in Sides, t \in Ticks : p = LevelId(side, t)
      BY <3>1, LevelIdIs
    <3>3. db.levels[p] = LevelIn(u, b, side, t)
      BY <3>2 DEF Same
    <3>4. LevelAt(b, p) = [side |-> side, tick |-> t, level |-> b.lane[side][t]]
      BY <3>2, LevelIdIs, LevelAtPlace
    <3>. DEFINE l == b.lane[side][t]
    <3>5. LinkIn(u, b, l.head) = l.head /\ LinkIn(u, b, l.tail) = l.tail
      BY LinksLead, PlainLinks DEF LinksUsed
    <3>6. l \in PriceLevels
      <4>1. b.lane \in [Sides -> [Ticks -> PriceLevels]]
        BY <1>2 DEF Books, Lanes
      <4>. QED BY <4>1
    <3>. HIDE DEF l
    <3>7. LevelIn(u, b, side, t) = [side |-> side, tick |-> t, head |-> l.head, tail |-> l.tail,
                                    qtyTotal |-> l.qtyTotal, count |-> l.count]
      BY <3>5 DEF LevelIn, l
    <3>8. l = [head |-> l.head, tail |-> l.tail, qtyTotal |-> l.qtyTotal, count |-> l.count]
      BY <3>6 DEF PriceLevels
    <3>. QED BY <3>3, <3>4, <3>7, <3>8 DEF LevelElem, l
  <2>. HIDE DEF P, db
  <2>. QED BY <1>1, <2>2, <2>3
<1>. HIDE DEF lv, os, db
<1>6. EncodeAt(db) = Encode(b)
  BY <1>2, <1>4, <1>5 DEF EncodeAt, Encode, lv, os
<1>. QED BY <1>6 DEF db

-----------------------------------------------------------------------------
(* How many orders rest.                                                   *)

\* With `steady` orders at rest, an insert comes at every even op index.
Most == IF Steady % 2 = 1 THEN Steady ELSE Steady + 1

\* The transactions of ultima_batch_insert.
Transactions == (Warmup \div ApplyBatch) + (Iters \div ApplyBatch)
InsertProgram == program = "ultima_batch_insert"

Resting == Cardinality(DOMAIN flat.idmap)
RestAfter(m) ==
    IF m < Prebuilt \/ InsertProgram THEN m
    ELSE IF Updates THEN Steady
    ELSE IF m % 2 = 1 THEN Most ELSE Most - 1
Bound == IF InsertProgram THEN Transactions * ApplyBatch ELSE Most

\* The commands applied when the open transaction is complete.
Upcoming == IF wpc = "apply" THEN n + left ELSE n

CountInv ==
    /\ program \in LivePrograms \cup BatchPrograms
    /\ n \in Nat /\ left \in Nat
    /\ DOMAIN flat.idmap \subseteq 1..n
    /\ Resting = RestAfter(n)
    /\ flat.hwm <= Bound
    /\ InsertProgram => \E c \in 0..Transactions : Upcoming = c * ApplyBatch

\* The flat book the program is compared with has room: the code checks that
\* `steady` does not exceed the capacity, and that of ultima_batch_insert what
\* it inserts does not (require_bump_capacity).
FlatBookFits == Bound <= Cap

\* The group counters of an image count every order.  The code's largest count
\* (65535) is odd, and the largest `steady` it accepts: one order more than an
\* even `steady` still fits.
CountersSuffice == Steady <= GroupMax /\ GroupMax % 2 = 1
ImageFits == Bound <= GroupMax

\* The numbers.
LEMMA NumbersAre ==
    /\ Steady \in Nat /\ Steady > 0 /\ ApplyBatch \in Nat /\ ApplyBatch > 0
    /\ Warmup \in Nat /\ Iters \in Nat /\ Retention \in Nat /\ Retention > 0
    /\ Transactions \in Nat /\ Transactions * ApplyBatch \in Nat
    /\ Most \in Nat /\ Steady <= Most /\ Most <= Steady + 1 /\ Most % 2 = 1
    /\ Steady % 2 = 1 => Most = Steady
    /\ Steady % 2 = 0 => Most = Steady + 1
    /\ CountersSuffice => Most <= GroupMax
    /\ Bound \in Nat /\ (CountersSuffice /\ ~InsertProgram => ImageFits)
    /\ Quantities \subseteq Nat /\ FillQuantities \subseteq Nat
<1>1. /\ Steady \in Nat /\ Steady > 0 /\ ApplyBatch \in Nat /\ ApplyBatch > 0
      /\ Warmup \in Nat /\ Iters \in Nat /\ Retention \in Nat /\ Retention > 0
      /\ Quantities \subseteq Nat /\ FillQuantities \subseteq Nat
  BY UltimaAssumption, BookConfig
<1>2. Warmup \div ApplyBatch \in Nat /\ Iters \div ApplyBatch \in Nat
  BY <1>1
<1>3. Transactions \in Nat
  BY <1>2 DEF Transactions
<1>4. Transactions * ApplyBatch \in Nat
  BY <1>1, <1>3
<1>5. Steady % 2 \in {0, 1}
  BY <1>1
<1>6. Most \in Nat /\ Steady <= Most /\ Most <= Steady + 1
  BY <1>1 DEF Most
<1>7. (Steady % 2 = 1 => Most = Steady) /\ (Steady % 2 = 0 => Most = Steady + 1) /\ Most % 2 = 1
  BY <1>1, <1>5 DEF Most
<1>8. CountersSuffice => Most <= GroupMax
  BY <1>1, <1>5, <1>7, GroupMaxAssumption DEF CountersSuffice
<1>9. Bound \in Nat /\ (CountersSuffice /\ ~InsertProgram => ImageFits)
  BY <1>4, <1>6, <1>8 DEF Bound, ImageFits
<1>. QED BY <1>1, <1>3, <1>4, <1>6, <1>7, <1>8, <1>9

\* Of whole transactions, one more fits if anything is left to do.
LEMMA OneMoreFits ==
    ASSUME NEW a \in Nat, NEW d \in Nat, NEW c \in Nat, c * a < d * a
    PROVE  c + 1 <= d /\ (c + 1) * a = c * a + a
<1>1. ASSUME d <= c PROVE FALSE
  <2>1. PICK e \in Nat : c = d + e
    <3>1. c - d \in Nat /\ c = d + (c - d)
      BY <1>1
    <3>. QED BY <3>1
  <2>2. e * a \in Nat /\ d * a \in Nat
    OBVIOUS
  <2>3. c * a = d * a + e * a
    BY <2>1
  <2>. QED BY <2>2, <2>3
<1>2. (c + 1) * a = c * a + a
  OBVIOUS
<1>. QED BY <1>1, <1>2

\* The book in work: the tables of the open transaction, or the last version.
Tables == IF wpc = "apply" THEN wtx ELSE store[version]
Book == [db |-> Tables, ids |-> ids]

BookInv ==
    /\ Intact(flat) /\ Same(Book, flat)
    /\ Updates \/ InsertProgram => Plain(Book, flat)
    /\ joined => ~IsLive /\ (ImageFits => Same(replica, flat))

StoreInv ==
    /\ version \in Nat \ {0}
    /\ \A v \in DOMAIN store : v \in 1..version
    /\ version \in DOMAIN store <=> wpc # "apply"
    /\ wpc = "handshake" => IsLive

-----------------------------------------------------------------------------
(* One command on the ultima book, the flat book and the replica.          *)

\* The commands there are.
InsertDone(t, qty, side) ==
    LET u == [db |-> wtx, ids |-> ids]
        after(w) == ApplyInsert(w, n + 1, PriceOf(t), qty, side)
    IN  /\ wtx' = after(u).db /\ ids' = after(u).ids
        /\ flat' = Insert(flat, n + 1, PriceOf(t), qty, side)
        /\ replica' = IF joined THEN after(replica) ELSE replica
        /\ n' = n + 1 /\ left' = left - 1

UpdateDone(id, fillQty) ==
    LET u == [db |-> wtx, ids |-> ids]
        after(w) == ApplyUpdate(w, id, fillQty)
    IN  /\ wtx' = after(u).db /\ ids' = after(u).ids
        /\ flat' = Update(flat, id, fillQty)
        /\ replica' = IF joined THEN after(replica) ELSE replica
        /\ n' = n + 1 /\ left' = left - 1

DepartDone(id) ==
    LET u == [db |-> wtx, ids |-> ids]
        after(w) == ApplyCancel(w, id)
    IN  /\ wtx' = after(u).db /\ ids' = after(u).ids
        /\ flat' \in {Fill(flat, id), Cancel(flat, id)}
        /\ replica' = IF joined THEN after(replica) ELSE replica
        /\ n' = n + 1 /\ left' = left - 1

\* What ApplyCommand is: one of the three, whichever way the tables are opened.
LEMMA CommandIs ==
    ASSUME ApplyCommand
    PROVE  /\ wpc = "apply" /\ left > 0 /\ wpc' = wpc
           /\ UNCHANGED <<program, store, version, pending, chan, spc, cur, view, image, joined>>
           /\ \/ /\ InsertsOnly \/ (~Updates /\ ChurnInsertDue)
                 /\ \E t \in Ticks, qty \in Quantities, side \in Sides : InsertDone(t, qty, side)
              \/ /\ ~InsertsOnly /\ Updates
                 /\ \E id \in DOMAIN ids, fillQty \in FillQuantities : UpdateDone(id, fillQty)
              \/ /\ ~InsertsOnly /\ ~Updates /\ ~ChurnInsertDue
                 /\ \E id \in DOMAIN ids : DepartDone(id)
<1>1. /\ wpc = "apply" /\ left > 0 /\ wpc' = wpc
      /\ UNCHANGED <<program, store, version, pending, chan, spc, cur, view, image, joined>>
  BY DEF ApplyCommand, serVars, commVars
<1>2. ASSUME NEW t \in Ticks, NEW qty \in Quantities, NEW side \in Sides, ApplyInsertCmd(t, qty, side)
      PROVE  InsertDone(t, qty, side)
  BY <1>2 DEF ApplyInsertCmd, Apply, InsertDone, ApplyInsertMt
<1>3. ASSUME NEW id \in DOMAIN ids, NEW fillQty \in FillQuantities, ApplyUpdateCmd(id, fillQty)
      PROVE  UpdateDone(id, fillQty)
  BY <1>3 DEF ApplyUpdateCmd, Apply, UpdateDone, ApplyUpdateMt
<1>4. ASSUME NEW id \in DOMAIN ids, NEW isFill \in BOOLEAN, ApplyDepartCmd(id, isFill)
      PROVE  DepartDone(id)
  BY <1>4 DEF ApplyDepartCmd, Apply, DepartDone, ApplyCancelMt
<1>5. CASE InsertsOnly \/ (~Updates /\ ChurnInsertDue)
  <2>1. PICK t \in Ticks, qty \in Quantities, side \in Sides : ApplyInsertCmd(t, qty, side)
    BY <1>5 DEF ApplyCommand
  <2>. QED BY <1>1, <1>2, <1>5, <2>1
<1>6. CASE ~InsertsOnly /\ Updates
  <2>1. PICK id \in DOMAIN ids, fillQty \in FillQuantities : ApplyUpdateCmd(id, fillQty)
    BY <1>6 DEF ApplyCommand
  <2>. QED BY <1>1, <1>3, <1>6, <2>1
<1>7. CASE ~InsertsOnly /\ ~Updates /\ ~ChurnInsertDue
  <2>1. PICK id \in DOMAIN ids, isFill \in BOOLEAN : ApplyDepartCmd(id, isFill)
    BY <1>7 DEF ApplyCommand
  <2>. QED BY <1>1, <1>4, <1>7, <2>1
<1>. QED BY <1>5, <1>6, <1>7

-----------------------------------------------------------------------------
(* The counts and the books through one command.                           *)

\* The orders are finitely many; with no free list they bound the mark.
LEMMA RestingTyped ==
    ASSUME Intact(flat)
    PROVE  /\ Resting \in Nat /\ IsFiniteSet(DOMAIN flat.idmap) /\ flat.hwm \in Nat
           /\ flat.freeHead = NIL => flat.hwm <= Resting
<1>1. IsFiniteSet(DOMAIN flat.idmap) /\ flat.hwm \in Nat
  BY IntactBooks, IdsFinite
<1>2. flat.freeHead = NIL => flat.hwm <= Resting
  BY FullBook DEF Resting
<1>. QED BY <1>1, <1>2, FS_CardinalityType DEF Resting

\* The programs one by one.
LEMMA ProgramsAre ==
    ASSUME CountInv
    PROVE  /\ Prebuilt = IF InsertProgram THEN 0 ELSE Steady
           /\ InsertProgram => ~Updates /\ ~IsLive
           /\ IsLive => ~InsertProgram
           /\ InsertsOnly <=> n < Prebuilt \/ InsertProgram
BY DEF CountInv, Prebuilt, InsertProgram, Updates, InsertsOnly, IsLive, LivePrograms, BatchPrograms

\* An insert is due only when there is room for it.
LEMMA InsertHasRoom ==
    ASSUME FlatBookFits, Intact(flat), CountInv, wpc = "apply", left > 0,
           InsertsOnly \/ (~Updates /\ ChurnInsertDue), DOMAIN ids = DOMAIN flat.idmap
    PROVE  /\ Resting < Bound /\ ~Exhausted(flat)
           /\ RestAfter(n + 1) = Resting + 1
<1>1. /\ n \in Nat /\ left \in Nat /\ Resting = RestAfter(n) /\ flat.hwm <= Bound
      /\ InsertProgram => \E c \in 0..Transactions : Upcoming = c * ApplyBatch
  BY DEF CountInv
<1>2. /\ Prebuilt = IF InsertProgram THEN 0 ELSE Steady
      /\ InsertProgram => ~Updates
      /\ InsertsOnly <=> n < Prebuilt \/ InsertProgram
  BY ProgramsAre
<1>3. Resting < Bound /\ RestAfter(n + 1) = Resting + 1
  <2>1. CASE InsertProgram
    <3>1. PICK c \in 0..Transactions : n + left = c * ApplyBatch
      BY <1>1, <2>1 DEF Upcoming
    <3>. DEFINE e == Transactions - c
    <3>2. e \in Nat /\ c \in Nat /\ Transactions = c + e
      BY NumbersAre
    <3>. HIDE DEF e
    <3>3. Transactions * ApplyBatch = c * ApplyBatch + e * ApplyBatch
      BY <3>2, NumbersAre
    <3>4. e * ApplyBatch \in Nat /\ c * ApplyBatch \in Nat
      BY <3>2, NumbersAre
    <3>. DEFINE ce == c * ApplyBatch
                ee == e * ApplyBatch
                te == Transactions * ApplyBatch
    <3>5. n + left = ce /\ te = ce + ee /\ ee \in Nat /\ ce \in Nat
      BY <3>1, <3>3, <3>4
    <3>. HIDE DEF ce, ee, te
    <3>6. n < te
      BY <1>1, <3>5
    <3>. QED BY <1>1, <2>1, <3>6 DEF RestAfter, Bound, te
  <2>2. CASE ~InsertProgram /\ n < Prebuilt
    <3>1. n < Steady /\ n + 1 <= Steady /\ Resting = n /\ Bound = Most
      BY <1>1, <1>2, <2>2, NumbersAre DEF RestAfter, Bound
    <3>2. RestAfter(n + 1) = n + 1
      <4>1. CASE n + 1 < Steady
        BY <1>2, <2>2, <4>1 DEF RestAfter
      <4>2. CASE n + 1 = Steady
        <5>1. ~(n + 1 < Prebuilt)
          BY <1>2, <2>2, <4>2, NumbersAre
        <5>2. RestAfter(n + 1) = IF Updates THEN Steady
                                 ELSE IF Steady % 2 = 1 THEN Most ELSE Most - 1
          BY <2>2, <4>2, <5>1 DEF RestAfter
        <5>3. Steady % 2 = 1 \/ Steady % 2 = 0
          BY NumbersAre
        <5>. QED BY <4>2, <5>2, <5>3, NumbersAre
      <4>. QED BY <1>1, <3>1, <4>1, <4>2, NumbersAre
    <3>. QED BY <1>1, <3>1, <3>2, NumbersAre
  <2>3. CASE ~InsertProgram /\ ~(n < Prebuilt)
    <3>1. ~Updates /\ ChurnInsertDue /\ Bound = Most
      BY <1>2, <2>3 DEF Bound
    <3>2. Resting = IF n % 2 = 1 THEN Most ELSE Most - 1
      BY <1>1, <2>3, <3>1 DEF RestAfter
    <3>3. n % 2 # 1
      <4>1. CASE DOMAIN ids = {}
        <5>1. Resting = 0
          BY <4>1, FS_EmptySet DEF Resting
        <5>. QED BY <3>2, <5>1, NumbersAre
      <4>. QED BY <3>1, <4>1 DEF ChurnInsertDue
    <3>4. (n + 1) % 2 = 1 /\ ~(n + 1 < Prebuilt)
      <4>1. n % 2 = 0
        BY <1>1, <3>3
      <4>2. (n + 1) % 2 = 1
        BY <1>1, <4>1
      <4>3. Prebuilt \in Nat
        BY <1>2, NumbersAre
      <4>. QED BY <1>1, <2>3, <4>2, <4>3
    <3>5. RestAfter(n + 1) = Most
      BY <2>3, <3>1, <3>4 DEF RestAfter
    <3>. QED BY <3>1, <3>2, <3>3, <3>5, NumbersAre
  <2>. QED BY <2>1, <2>2, <2>3
<1>4. ~Exhausted(flat)
  <2>1. flat.freeHead = NIL => flat.hwm <= Resting
    BY RestingTyped
  <2>. QED BY <1>3, <2>1, RestingTyped, NumbersAre, BookConfig DEF Exhausted, FlatBookFits
<1>. QED BY <1>3, <1>4

\* An insert, an update, a departure.
LEMMA InsertKeeps ==
    ASSUME FlatBookFits, BookInv, CountInv, wpc = "apply", wpc' = wpc, left > 0,
           program' = program, joined' = joined,
           InsertsOnly \/ (~Updates /\ ChurnInsertDue),
           NEW t \in Ticks, NEW qty \in Quantities, NEW side \in Sides, InsertDone(t, qty, side)
    PROVE  BookInv' /\ CountInv'
<1>. DEFINE v == ApplyInsert(Book, n + 1, PriceOf(t), qty, side)
            w == ApplyInsert(replica, n + 1, PriceOf(t), qty, side)
            m == Insert(flat, n + 1, PriceOf(t), qty, side)
<1>1. /\ Intact(flat) /\ Same(Book, flat)
      /\ Updates \/ InsertProgram => Plain(Book, flat)
      /\ joined => ~IsLive /\ (ImageFits => Same(replica, flat))
  BY DEF BookInv
<1>2. /\ n \in Nat /\ left \in Nat /\ DOMAIN flat.idmap \subseteq 1..n /\ Resting = RestAfter(n)
      /\ program \in LivePrograms \cup BatchPrograms /\ flat.hwm <= Bound
      /\ InsertProgram => \E c \in 0..Transactions : Upcoming = c * ApplyBatch
  BY DEF CountInv
<1>3. DOMAIN ids = DOMAIN flat.idmap
  BY <1>1 DEF Same, RowsHold, Book
<1>4. Resting < Bound /\ ~Exhausted(flat) /\ RestAfter(n + 1) = Resting + 1
  BY <1>1, <1>3, InsertHasRoom
<1>5. n + 1 \in Nat \ {0} /\ n + 1 \notin DOMAIN flat.idmap /\ qty \in Nat
  BY <1>2, UltimaAssumption
<1>6. /\ wtx' = v.db /\ ids' = v.ids /\ flat' = m /\ n' = n + 1 /\ left' = left - 1
      /\ replica' = IF joined THEN w ELSE replica
  BY DEF InsertDone, Book, Tables
<1>7. /\ Intact(m) /\ DOMAIN m.idmap = DOMAIN flat.idmap \cup {n + 1}
      /\ m.hwm = IF flat.freeHead = NIL THEN flat.hwm + 1 ELSE flat.hwm
  BY <1>1, <1>4, <1>5, InsertIntact
<1>8. Same(v, m) /\ (joined /\ ImageFits => Same(w, m))
  BY <1>1, <1>4, <1>5, InsertSame
<1>9. Updates \/ InsertProgram => Plain(v, m)
  BY <1>1, <1>4, <1>5, InsertPlain
<1>. HIDE DEF v, w, m
<1>10. v = [db |-> v.db, ids |-> v.ids]
  BY <1>8 DEF Same, Shaped
<1>11. Book' = v
  BY <1>6, <1>10 DEF Book, Tables
<1>12. /\ Updates' = Updates /\ InsertProgram' = InsertProgram /\ IsLive' = IsLive /\ Bound' = Bound
      /\ ImageFits' = ImageFits
  BY DEF Updates, InsertProgram, IsLive, Bound, ImageFits
<1>13. BookInv'
  BY <1>1, <1>6, <1>7, <1>8, <1>9, <1>11, <1>12 DEF BookInv
<1>14. Resting' = Resting + 1
  <2>1. Cardinality(DOMAIN flat.idmap \cup {n + 1}) = Cardinality(DOMAIN flat.idmap) + 1
    BY <1>1, <1>5, RestingTyped, FS_AddElement
  <2>. QED BY <1>6, <1>7, <2>1 DEF Resting
<1>15. RestAfter(n)' = RestAfter(n + 1)
  BY <1>6 DEF RestAfter, Prebuilt, InsertProgram, Updates
<1>16. flat'.hwm <= Bound
  <2>1. Resting \in Nat /\ flat.hwm \in Nat /\ (flat.freeHead = NIL => flat.hwm <= Resting)
    BY <1>1, RestingTyped
  <2>. QED BY <1>2, <1>4, <1>6, <1>7, <2>1, NumbersAre
<1>17. Upcoming' = Upcoming /\ n' \in Nat /\ left' \in Nat
  BY <1>2, <1>6 DEF Upcoming
<1>18. DOMAIN flat'.idmap \subseteq 1..n'
  BY <1>2, <1>6, <1>7
<1>19. CountInv'
  BY <1>2, <1>4, <1>12, <1>14, <1>15, <1>16, <1>17, <1>18 DEF CountInv
<1>. QED BY <1>13, <1>19

\* An update changes no count.
LEMMA UpdateKeeps ==
    ASSUME FlatBookFits, BookInv, CountInv, wpc = "apply", wpc' = wpc, left > 0,
           program' = program, joined' = joined, ~InsertsOnly, Updates,
           NEW id \in DOMAIN ids, NEW fillQty \in FillQuantities, UpdateDone(id, fillQty)
    PROVE  BookInv' /\ CountInv'
<1>. DEFINE v == ApplyUpdate(Book, id, fillQty)
            w == ApplyUpdate(replica, id, fillQty)
            m == Update(flat, id, fillQty)
<1>1. /\ Intact(flat) /\ Same(Book, flat)
      /\ Updates \/ InsertProgram => Plain(Book, flat)
      /\ joined => ~IsLive /\ (ImageFits => Same(replica, flat))
  BY DEF BookInv
<1>2. /\ n \in Nat /\ left \in Nat /\ DOMAIN flat.idmap \subseteq 1..n /\ Resting = RestAfter(n)
      /\ program \in LivePrograms \cup BatchPrograms /\ flat.hwm <= Bound
      /\ InsertProgram => \E c \in 0..Transactions : Upcoming = c * ApplyBatch
  BY DEF CountInv
<1>3. id \in DOMAIN flat.idmap /\ fillQty \in Nat
  BY <1>1, NumbersAre DEF Same, RowsHold, Book
<1>4. /\ wtx' = v.db /\ ids' = v.ids /\ flat' = m /\ n' = n + 1 /\ left' = left - 1
      /\ replica' = IF joined THEN w ELSE replica
  BY DEF UpdateDone, Book, Tables
<1>5. Intact(m) /\ m.idmap = flat.idmap /\ m.hwm = flat.hwm
  BY <1>1, <1>3, UpdateIntact
<1>6. Same(v, m) /\ (joined /\ ImageFits => Same(w, m))
  BY <1>1, <1>3, UpdateSame
<1>7. Updates \/ InsertProgram => Plain(v, m)
  BY <1>1, <1>3, UpdatePlain
<1>. HIDE DEF v, w, m
<1>8. v = [db |-> v.db, ids |-> v.ids]
  BY <1>6 DEF Same, Shaped
<1>9. Book' = v
  BY <1>4, <1>8 DEF Book, Tables
<1>10. /\ Updates' = Updates /\ InsertProgram' = InsertProgram /\ IsLive' = IsLive /\ Bound' = Bound
      /\ ImageFits' = ImageFits
  BY DEF Updates, InsertProgram, IsLive, Bound, ImageFits
<1>11. BookInv'
  BY <1>1, <1>4, <1>5, <1>6, <1>7, <1>9, <1>10 DEF BookInv
<1>12. Resting' = Resting
  BY <1>4, <1>5 DEF Resting
<1>13. RestAfter(n)' = RestAfter(n)
  <2>1. ~InsertProgram /\ ~(n < Prebuilt) /\ Prebuilt \in Nat
    BY ProgramsAre, NumbersAre
  <2>2. ~(n' < Prebuilt)
    BY <1>2, <1>4, <2>1
  <2>3. Prebuilt' = Prebuilt
    BY DEF Prebuilt
  <2>. QED BY <1>10, <2>1, <2>2, <2>3 DEF RestAfter
<1>14. Upcoming' = Upcoming /\ n' \in Nat /\ left' \in Nat
  BY <1>2, <1>4 DEF Upcoming
<1>15. DOMAIN flat'.idmap \subseteq 1..n'
  BY <1>2, <1>4, <1>5
<1>16. CountInv'
  BY <1>2, <1>4, <1>5, <1>10, <1>12, <1>13, <1>14, <1>15 DEF CountInv
<1>. QED BY <1>11, <1>16

\* A departure frees a row and a slot.
LEMMA DepartKeeps ==
    ASSUME FlatBookFits, BookInv, CountInv, wpc = "apply", wpc' = wpc, left > 0,
           program' = program, joined' = joined, ~InsertsOnly, ~Updates, ~ChurnInsertDue,
           NEW id \in DOMAIN ids, DepartDone(id)
    PROVE  BookInv' /\ CountInv'
<1>. DEFINE v == ApplyCancel(Book, id)
            w == ApplyCancel(replica, id)
<1>1. /\ Intact(flat) /\ Same(Book, flat)
      /\ joined => ~IsLive /\ (ImageFits => Same(replica, flat))
  BY DEF BookInv
<1>2. /\ n \in Nat /\ left \in Nat /\ DOMAIN flat.idmap \subseteq 1..n /\ Resting = RestAfter(n)
      /\ program \in LivePrograms \cup BatchPrograms /\ flat.hwm <= Bound
  BY DEF CountInv
<1>3. id \in DOMAIN flat.idmap
  BY <1>1 DEF Same, RowsHold, Book
<1>4. /\ wtx' = v.db /\ ids' = v.ids /\ n' = n + 1 /\ left' = left - 1
      /\ flat' \in {Fill(flat, id), Cancel(flat, id)}
      /\ replica' = IF joined THEN w ELSE replica
  BY DEF DepartDone, Book, Tables
<1>5. Intact(flat') /\ DOMAIN flat'.idmap = DOMAIN flat.idmap \ {id} /\ flat'.hwm = flat.hwm
  BY <1>1, <1>3, <1>4, LeftIntact
<1>6. Same(v, flat') /\ (joined /\ ImageFits => Same(w, flat'))
  BY <1>1, <1>3, <1>4, DepartSame
<1>. HIDE DEF v, w
<1>7. v = [db |-> v.db, ids |-> v.ids]
  BY <1>6 DEF Same, Shaped
<1>8. Book' = v
  BY <1>4, <1>7 DEF Book, Tables
<1>9. /\ Updates' = Updates /\ InsertProgram' = InsertProgram /\ IsLive' = IsLive /\ Bound' = Bound
      /\ ImageFits' = ImageFits
  BY DEF Updates, InsertProgram, IsLive, Bound, ImageFits
<1>10. ~InsertProgram /\ ~(n < Prebuilt) /\ Prebuilt \in Nat
  BY ProgramsAre, NumbersAre
<1>11. BookInv'
  BY <1>1, <1>4, <1>5, <1>6, <1>8, <1>9, <1>10 DEF BookInv
<1>12. Resting' = Resting - 1
  <2>1. Cardinality(DOMAIN flat.idmap \ {id}) = Cardinality(DOMAIN flat.idmap) - 1
    BY <1>1, <1>3, RestingTyped, FS_RemoveElement
  <2>. QED BY <1>5, <2>1 DEF Resting
<1>13. RestAfter(n)' = Resting - 1
  <2>1. n % 2 = 1 /\ (n + 1) % 2 # 1
    BY <1>2 DEF ChurnInsertDue
  <2>2. ~(n + 1 < Prebuilt)
    BY <1>2, <1>10
  <2>3. Prebuilt' = Prebuilt
    BY DEF Prebuilt
  <2>4. RestAfter(n)' = Most - 1
    BY <1>4, <1>9, <1>10, <2>1, <2>2, <2>3 DEF RestAfter, Most
  <2>5. Resting = Most
    BY <1>2, <1>10, <2>1 DEF RestAfter
  <2>. QED BY <2>4, <2>5
<1>14. n' \in Nat /\ left' \in Nat
  BY <1>2, <1>4
<1>15. DOMAIN flat'.idmap \subseteq 1..n'
  BY <1>2, <1>4, <1>5
<1>16. CountInv'
  BY <1>2, <1>5, <1>9, <1>10, <1>12, <1>13, <1>14, <1>15 DEF CountInv
<1>. QED BY <1>11, <1>16

\* Every command of the stream keeps the books the same and the counts.
LEMMA CommandKeeps ==
    ASSUME FlatBookFits, BookInv, CountInv, ApplyCommand
    PROVE  BookInv' /\ CountInv'
BY CommandIs, InsertKeeps, UpdateKeeps, DepartKeeps

-----------------------------------------------------------------------------
(* The store, the messages and the serializer.                             *)

\* What the tables of a version stand for: a book small enough for the groups
\* of an image, and the digest a message carries is that book's.
Stands(db, seen) ==
    \E i, b : Intact(b) /\ b.hwm <= GroupMax /\ Same([db |-> db, ids |-> i], b) /\ seen = DigestBook(b)

Pins(m) == m.version # 0 /\ m.version \in DOMAIN store /\ Stands(store[m.version], m.seen)

PinInv ==
    /\ wpc = "send" => Pins(pending)
    /\ chan = <<>> \/ \E m : chan = <<m>> /\ Pins(m)
    /\ cur # NoMessage => Pins(cur)

SerInv ==
    /\ spc \in {"recv", "open", "encode", "clear", "drop", "done"}
    /\ spc \in {"open", "encode", "clear", "drop"} => cur # NoMessage
    /\ spc \in {"encode", "clear"} => Stands(view, cur.seen)
    /\ spc = "clear" => image = EncodeAt(view)

SafeInv == BookInv /\ CountInv /\ StoreInv /\ PinInv /\ SerInv

\* Nothing happens to the books outside a transaction.
LEMMA QuietBooks ==
    ASSUME BookInv, CountInv, StoreInv,
           UNCHANGED <<program, store, version, ids, wtx, n, left, flat, joined, replica>>,
           wpc' = wpc \/ (wpc # "apply" /\ wpc' \notin {"apply", "handshake"})
    PROVE  BookInv' /\ CountInv' /\ StoreInv'
<1>1. Book' = Book /\ Upcoming' = Upcoming
  BY DEF Book, Tables, Upcoming
<1>2. /\ Updates' = Updates /\ InsertProgram' = InsertProgram /\ IsLive' = IsLive /\ Bound' = Bound
      /\ ImageFits' = ImageFits
      /\ Resting' = Resting /\ RestAfter(n)' = RestAfter(n)
  BY DEF Updates, InsertProgram, IsLive, Bound, ImageFits, Resting, RestAfter, Prebuilt
<1>3. BookInv'
  BY <1>1, <1>2 DEF BookInv
<1>4. CountInv'
  BY <1>1, <1>2 DEF CountInv
<1>5. StoreInv'
  BY <1>2 DEF StoreInv
<1>. QED BY <1>3, <1>4, <1>5

\* A message keeps its version as long as the store does.
LEMMA PinsKept ==
    ASSUME NEW m, Pins(m), m.version \in DOMAIN store', store'[m.version] = store[m.version]
    PROVE  Pins(m)'
BY DEF Pins

\* A transaction begins with the tables of the last version.
LEMMA BeginStep ==
    ASSUME SafeInv, Begin PROVE SafeInv'
<1>1. BookInv /\ CountInv /\ StoreInv /\ PinInv /\ SerInv
  BY DEF SafeInv
<1>2. /\ wpc = "begin" /\ wpc' = "apply" /\ n < LoopEnd /\ version' = version + 1
      /\ wtx' = store[version] /\ left' = IF n < Prebuilt THEN 1 ELSE Batch
      /\ UNCHANGED <<program, store, n, ids, flat, joined, replica, pending, chan, spc, cur, view, image>>
  BY DEF Begin, serVars, commVars, bookVars
<1>3. Book' = Book
  BY <1>2 DEF Book, Tables
<1>4. /\ Updates' = Updates /\ InsertProgram' = InsertProgram /\ IsLive' = IsLive /\ Bound' = Bound
      /\ ImageFits' = ImageFits
      /\ Resting' = Resting /\ RestAfter(n)' = RestAfter(n)
  BY <1>2 DEF Updates, InsertProgram, IsLive, Bound, ImageFits, Resting, RestAfter, Prebuilt
<1>5. BookInv'
  BY <1>1, <1>2, <1>3, <1>4 DEF BookInv
<1>6. /\ program \in LivePrograms \cup BatchPrograms /\ n \in Nat
      /\ DOMAIN flat.idmap \subseteq 1..n /\ Resting = RestAfter(n) /\ flat.hwm <= Bound
      /\ InsertProgram => \E c \in 0..Transactions : n = c * ApplyBatch
  BY <1>1, <1>2 DEF CountInv, Upcoming
<1>7. left' \in Nat
  BY <1>2, NumbersAre DEF Batch
<1>8. ASSUME InsertProgram PROVE \E c \in 0..Transactions : Upcoming' = c * ApplyBatch
  <2>1. Prebuilt = 0 /\ ~IsLive
    BY <1>1, <1>8, ProgramsAre
  <2>2. left' = ApplyBatch
    BY <1>2, <1>6, <2>1 DEF Batch
  <2>3. LoopEnd = Transactions * ApplyBatch
    <3>1. LoopEnd = 0 + (Warmup \div ApplyBatch) * ApplyBatch + (Iters \div ApplyBatch) * ApplyBatch
      BY <2>1 DEF LoopEnd, LoopStart, Batch
    <3>. DEFINE ws == Warmup \div ApplyBatch
                is == Iters \div ApplyBatch
    <3>2. ws \in Nat /\ is \in Nat
      BY NumbersAre
    <3>. HIDE DEF ws, is
    <3>3. (ws + is) * ApplyBatch = 0 + ws * ApplyBatch + is * ApplyBatch
      BY <3>2, NumbersAre
    <3>. QED BY <3>1, <3>3 DEF Transactions, ws, is
  <2>4. PICK c \in 0..Transactions : n = c * ApplyBatch
    BY <1>6, <1>8
  <2>5. c + 1 <= Transactions /\ (c + 1) * ApplyBatch = c * ApplyBatch + ApplyBatch
    <3>1. c \in Nat /\ Transactions \in Nat /\ ApplyBatch \in Nat /\ c * ApplyBatch < Transactions * ApplyBatch
      BY <1>2, <2>3, <2>4, NumbersAre
    <3>. QED BY <3>1, OneMoreFits
  <2>6. Upcoming' = (c + 1) * ApplyBatch
    BY <1>2, <2>2, <2>4, <2>5 DEF Upcoming
  <2>7. c + 1 \in 0..Transactions
    BY <2>5, NumbersAre
  <2>. QED BY <2>6, <2>7
<1>9. CountInv'
  BY <1>2, <1>4, <1>6, <1>7, <1>8 DEF CountInv
<1>10. StoreInv'
  BY <1>1, <1>2, <1>4 DEF StoreInv
<1>11. PinInv'
  BY <1>1, <1>2 DEF PinInv, Pins, NoMessage
<1>12. SerInv'
  BY <1>1, <1>2 DEF SerInv, NoMessage
<1>. QED BY <1>5, <1>9, <1>10, <1>11, <1>12 DEF SafeInv

\* A command of the open transaction.
LEMMA ApplyStep ==
    ASSUME FlatBookFits, SafeInv, ApplyCommand PROVE SafeInv'
<1>1. BookInv /\ CountInv /\ StoreInv /\ PinInv /\ SerInv
  BY DEF SafeInv
<1>2. /\ wpc = "apply" /\ wpc' = wpc
      /\ UNCHANGED <<program, store, version, pending, chan, spc, cur, view, image, joined>>
  BY CommandIs
<1>3. BookInv' /\ CountInv'
  BY <1>1, CommandKeeps
<1>4. StoreInv'
  BY <1>1, <1>2 DEF StoreInv, IsLive
<1>5. PinInv'
  BY <1>1, <1>2 DEF PinInv, Pins, NoMessage
<1>6. SerInv'
  BY <1>1, <1>2 DEF SerInv, NoMessage
<1>. QED BY <1>3, <1>4, <1>5, <1>6 DEF SafeInv

\* A commit adds its version and keeps those with a pin.
LEMMA CommitStep ==
    ASSUME SafeInv, Commit PROVE SafeInv'
<1>1. BookInv /\ CountInv /\ StoreInv /\ PinInv /\ SerInv
  BY DEF SafeInv
<1>. DEFINE committed == [v \in DOMAIN store \cup {version} |-> IF v = version THEN wtx ELSE store[v]]
<1>2. /\ wpc = "apply" /\ left = 0 /\ store' = Restrict(committed, Retained(committed))
      /\ wpc' \in {"begin", "handshake", "trigger"} /\ (wpc' = "handshake" => IsLive)
      /\ UNCHANGED <<program, n, left, version, ids, wtx, flat, joined, replica,
                     pending, chan, spc, cur, view, image>>
  BY DEF Commit, serVars, commVars, bookVars
<1>3. /\ version \in Nat \ {0} /\ (\A v \in DOMAIN store : v \in 1..version) /\ version \notin DOMAIN store
  BY <1>1, <1>2 DEF StoreInv
<1>4. /\ DOMAIN committed = DOMAIN store \cup {version} /\ committed[version] = wtx
      /\ \A v \in DOMAIN store : committed[v] = store[v]
  BY <1>3
<1>. HIDE DEF committed
<1>5. /\ DOMAIN store' = Retained(committed)
      /\ \A v \in Retained(committed) : store'[v] = committed[v]
  BY <1>2 DEF Restrict, Retained
<1>6. version \in Retained(committed)
  BY <1>3, <1>4, NumbersAre DEF Retained
<1>7. \A v \in Held \cap DOMAIN store : v \in DOMAIN store' /\ store'[v] = store[v]
  BY <1>4, <1>5 DEF Retained, Pinned
<1>8. Book' = Book
  BY <1>2, <1>4, <1>5, <1>6 DEF Book, Tables
<1>9. Upcoming' = Upcoming
  BY <1>1, <1>2 DEF Upcoming, CountInv
<1>10. /\ Updates' = Updates /\ InsertProgram' = InsertProgram /\ IsLive' = IsLive /\ Bound' = Bound
      /\ ImageFits' = ImageFits
       /\ Resting' = Resting /\ RestAfter(n)' = RestAfter(n)
  BY <1>2 DEF Updates, InsertProgram, IsLive, Bound, ImageFits, Resting, RestAfter, Prebuilt
<1>11. BookInv'
  BY <1>1, <1>2, <1>8, <1>10 DEF BookInv
<1>12. CountInv'
  BY <1>1, <1>2, <1>9, <1>10 DEF CountInv
<1>13. StoreInv'
  <2>1. \A v \in DOMAIN store' : v \in 1..version
    BY <1>3, <1>4, <1>5 DEF Retained
  <2>. QED BY <1>2, <1>3, <1>5, <1>6, <1>10, <2>1 DEF StoreInv
<1>14. PinInv'
  <2>1. ASSUME NEW m, chan = <<m>>, Pins(m) PROVE Pins(m)'
    <3>1. m.version \in Held
      <4>1. 1 \in DOMAIN chan /\ chan[1] = m
        BY <2>1
      <4>. QED BY <4>1 DEF Held
    <3>. QED BY <1>7, <2>1, <3>1, PinsKept DEF Pins
  <2>2. ASSUME cur # NoMessage, Pins(cur) PROVE Pins(cur)'
    <3>1. cur.version \in Held
      BY <2>2 DEF Held
    <3>. QED BY <1>2, <1>7, <2>2, <3>1 DEF Pins
  <2>. QED BY <1>1, <1>2, <2>1, <2>2 DEF PinInv, NoMessage
<1>15. SerInv'
  BY <1>1, <1>2 DEF SerInv, NoMessage
<1>. QED BY <1>11, <1>12, <1>13, <1>14, <1>15 DEF SafeInv

\* An image of what a message pins.
LEMMA StandsEncodes ==
    ASSUME NEW db, NEW seen, Stands(db, seen)
    PROVE  /\ ~EncodeAtPanics(db) /\ ~RestoreUltimaFails(EncodeAt(db))
           /\ DigestUltima(RestoreUltima(EncodeAt(db), db.nextRow).db) = seen
<1>1. PICK i, b : Intact(b) /\ b.hwm <= GroupMax /\ Same([db |-> db, ids |-> i], b) /\ seen = DigestBook(b)
  BY DEF Stands
<1>. DEFINE u == [db |-> db, ids |-> i]
<1>2. u.db = db /\ Same(u, b)
  BY <1>1
<1>. HIDE DEF u
<1>3. ~EncodeAtPanics(db) /\ ~RestoreUltimaFails(EncodeAt(db))
  BY <1>1, <1>2, GroupsOfTables, OrderGroup
<1>4. db.nextRow \in Nat \ {0} /\ \A r \in DOMAIN db.orders : r < db.nextRow
  <2>1. u.db.nextRow \in Nat \ {0} /\ \A r \in DOMAIN u.db.orders : r \in 1..(u.db.nextRow - 1)
    BY <1>1, <1>2, SlotsIn
  <2>. QED BY <1>2, <2>1
<1>5. Same(RestoreUltima(EncodeAt(db), db.nextRow), b)
  BY <1>1, <1>2, <1>4, RestoreSame
<1>6. DigestUltima(RestoreUltima(EncodeAt(db), db.nextRow).db) = DigestBook(b)
  BY <1>1, <1>5, SameDigest
<1>. QED BY <1>1, <1>3, <1>6

\* A pin of the current version.
LEMMA PinTaken ==
    ASSUME CountersSuffice, BookInv, CountInv, StoreInv, wpc # "apply", IsLive, NEW at,
           pending' = PinCurrent(at), store' = store
    PROVE  Pins(pending)'
<1>1. Intact(flat) /\ Same([db |-> store[version], ids |-> ids], flat)
  BY DEF BookInv, Book, Tables
<1>2. flat.hwm <= GroupMax
  <2>1. flat.hwm <= Bound /\ ImageFits
    BY ProgramsAre, NumbersAre DEF CountInv
  <2>2. flat.hwm \in Nat
    BY <1>1, RestingTyped
  <2>. QED BY <2>1, <2>2, NumbersAre, GroupMaxAssumption DEF ImageFits
<1>3. Stands(store[version], DigestBook(flat))
  BY <1>1, <1>2 DEF Stands
<1>4. version # 0 /\ version \in DOMAIN store
  BY DEF StoreInv
<1>5. pending'.version = version /\ pending'.seen = DigestBook(flat)
  BY DEF PinCurrent
<1>. QED BY <1>3, <1>4, <1>5 DEF Pins

\* The writer between two transactions.
LEMMA HandoverStep ==
    ASSUME CountersSuffice, SafeInv,
           \/ StartHandshake \/ AwaitHandshake \/ NoTrigger \/ SkipTrigger \/ TakeTrigger
           \/ Send \/ EndLoop \/ Join
    PROVE  SafeInv'
<1>1. BookInv /\ CountInv /\ StoreInv /\ PinInv /\ SerInv
  BY DEF SafeInv
<1>2. /\ wpc # "apply" /\ wpc' \notin {"apply", "handshake"}
      /\ UNCHANGED <<program, store, version, ids, wtx, n, left, flat, joined, replica,
                     spc, cur, view, image>>
  BY DEF StartHandshake, AwaitHandshake, NoTrigger, SkipTrigger, TakeTrigger, Send, EndLoop, Join,
         serVars, commVars, bookVars
<1>3. BookInv' /\ CountInv' /\ StoreInv'
  BY <1>1, <1>2, QuietBooks
<1>4. SerInv'
  BY <1>1, <1>2 DEF SerInv, NoMessage
<1>5. \A m : Pins(m) => Pins(m)'
  BY <1>2 DEF Pins
<1>6. cur' # NoMessage => Pins(cur)'
  BY <1>1, <1>2 DEF PinInv, Pins, NoMessage
<1>7. CASE StartHandshake \/ TakeTrigger
  <2>1. /\ wpc # "apply" /\ IsLive /\ chan' = chan
        /\ \E at : pending' = PinCurrent(at)
    BY <1>1, <1>7 DEF StartHandshake, TakeTrigger, TriggerDue, StoreInv
  <2>2. Pins(pending)'
    BY <1>1, <1>2, <2>1, PinTaken
  <2>3. chan' = <<>> \/ \E m : chan' = <<m>> /\ Pins(m)'
    BY <1>1, <1>5, <2>1 DEF PinInv
  <2>4. PinInv'
    BY <1>6, <2>2, <2>3 DEF PinInv, NoMessage
  <2>. QED BY <1>3, <1>4, <2>4 DEF SafeInv
<1>8. CASE Send
  <2>1. wpc = "send" /\ chan' = <<pending>> /\ wpc' # "send"
    BY <1>8 DEF Send
  <2>2. Pins(pending)
    BY <1>1, <2>1 DEF PinInv
  <2>3. \E m : chan' = <<m>> /\ Pins(m)'
    BY <1>5, <2>1, <2>2
  <2>4. PinInv'
    BY <1>6, <2>1, <2>3 DEF PinInv, NoMessage
  <2>. QED BY <1>3, <1>4, <2>4 DEF SafeInv
<1>9. CASE AwaitHandshake \/ NoTrigger \/ SkipTrigger \/ EndLoop \/ Join
  <2>1. wpc' # "send" /\ chan' = chan
    BY <1>9 DEF AwaitHandshake, NoTrigger, SkipTrigger, EndLoop, Join, commVars
  <2>2. chan' = <<>> \/ \E m : chan' = <<m>> /\ Pins(m)'
    BY <1>1, <1>5, <2>1 DEF PinInv
  <2>3. PinInv'
    BY <1>6, <2>1, <2>2 DEF PinInv, NoMessage
  <2>. QED BY <1>3, <1>4, <2>3 DEF SafeInv
<1>. QED BY <1>7, <1>8, <1>9

\* The serializer.
LEMMA SerializerKeeps ==
    ASSUME SafeInv, SerializerStep PROVE SafeInv'
<1>1. BookInv /\ CountInv /\ StoreInv /\ PinInv /\ SerInv
  BY DEF SafeInv
<1>2. UNCHANGED <<program, wpc, store, version, ids, wtx, n, left, pending, flat, joined, replica>>
  BY DEF SerializerStep, Recv, OpenRead, EncodeView, ClearBusy, DropPin, ExitLoop, writerVars, bookVars
<1>3. BookInv' /\ CountInv' /\ StoreInv'
  BY <1>1, <1>2, QuietBooks
<1>4. \A m : Pins(m) => Pins(m)'
  BY <1>2 DEF Pins
<1>5. wpc' = "send" => Pins(pending)'
  BY <1>1, <1>2 DEF PinInv, Pins
<1>6. CASE Recv
  <2>1. chan # <<>> /\ cur' = Head(chan) /\ chan' = Tail(chan) /\ spc' = "open"
    BY <1>6 DEF Recv
  <2>2. PICK m : chan = <<m>> /\ Pins(m)
    BY <1>1, <2>1 DEF PinInv
  <2>3. cur' = m /\ chan' = <<>>
    BY <2>1, <2>2
  <2>4. cur' # NoMessage
    BY <2>2, <2>3 DEF Pins, NoMessage
  <2>5. Pins(m)'
    BY <1>4, <2>2
  <2>6. Pins(cur)'
    BY <2>3, <2>5 DEF Pins
  <2>7. PinInv'
    BY <1>5, <2>3, <2>6 DEF PinInv
  <2>8. SerInv'
    BY <2>1, <2>4 DEF SerInv, NoMessage
  <2>. QED BY <1>3, <2>7, <2>8 DEF SafeInv
<1>7. ASSUME cur' = cur, chan' = chan PROVE PinInv'
  <2>1. chan' = <<>> \/ \E m : chan' = <<m>> /\ Pins(m)'
    BY <1>1, <1>4, <1>7 DEF PinInv
  <2>2. cur' # NoMessage => Pins(cur)'
    BY <1>1, <1>2, <1>7 DEF PinInv, Pins, NoMessage
  <2>. QED BY <1>5, <2>1, <2>2 DEF PinInv, NoMessage
<1>8. CASE OpenRead
  <2>1. spc = "open" /\ UNCHANGED <<cur, chan, image>>
    BY <1>8 DEF OpenRead, commVars
  <2>2. cur # NoMessage /\ Pins(cur)
    BY <1>1, <2>1 DEF SerInv, PinInv
  <2>3. view' = store[cur.version] /\ spc' = "encode"
    BY <1>8, <2>2 DEF OpenRead, ReadVersion, Pins
  <2>4. Stands(view', cur'.seen)
    BY <2>1, <2>2, <2>3 DEF Pins
  <2>5. SerInv'
    BY <2>1, <2>2, <2>3, <2>4 DEF SerInv, NoMessage
  <2>. QED BY <1>3, <1>7, <2>1, <2>5 DEF SafeInv
<1>9. CASE EncodeView
  <2>1. spc = "encode" /\ UNCHANGED <<cur, chan, view>>
    BY <1>9 DEF EncodeView, commVars
  <2>2. Stands(view, cur.seen) /\ cur # NoMessage
    BY <1>1, <2>1 DEF SerInv
  <2>3. ~EncodeAtPanics(view)
    BY <2>2, StandsEncodes
  <2>4. image' = EncodeAt(view) /\ spc' = "clear"
    BY <1>9, <2>3 DEF EncodeView
  <2>5. SerInv'
    BY <2>1, <2>2, <2>4 DEF SerInv, NoMessage
  <2>. QED BY <1>3, <1>7, <2>1, <2>5 DEF SafeInv
<1>10. CASE ClearBusy
  <2>1. spc = "clear" /\ spc' = "drop" /\ UNCHANGED <<cur, chan>>
    BY <1>10 DEF ClearBusy
  <2>2. SerInv'
    BY <1>1, <2>1 DEF SerInv, NoMessage
  <2>. QED BY <1>3, <1>7, <2>1, <2>2 DEF SafeInv
<1>11. CASE DropPin
  <2>1. spc' = "recv" /\ cur' = NoMessage /\ chan' = chan
    BY <1>11 DEF DropPin, commVars
  <2>2. chan' = <<>> \/ \E m : chan' = <<m>> /\ Pins(m)'
    BY <1>1, <1>4, <2>1 DEF PinInv
  <2>3. PinInv'
    BY <1>5, <2>1, <2>2 DEF PinInv, NoMessage
  <2>4. SerInv'
    BY <2>1 DEF SerInv
  <2>. QED BY <1>3, <2>3, <2>4 DEF SafeInv
<1>12. CASE ExitLoop
  <2>1. spc' = "done" /\ UNCHANGED <<cur, chan>>
    BY <1>12 DEF ExitLoop, commVars
  <2>2. SerInv'
    BY <2>1 DEF SerInv
  <2>. QED BY <1>3, <1>7, <2>1, <2>2 DEF SafeInv
<1>. QED BY <1>6, <1>8, <1>9, <1>10, <1>11, <1>12 DEF SerializerStep

\* The replica joins as a copy of the book.
LEMMA JoinStep ==
    ASSUME SafeInv, JoinReplica PROVE SafeInv'
<1>1. BookInv /\ CountInv /\ StoreInv /\ PinInv /\ SerInv
  BY DEF SafeInv
<1>2. /\ ~IsLive /\ wpc = "trigger" /\ joined' = TRUE
      /\ UNCHANGED <<program, store, wpc, version, ids, wtx, n, left, pending, chan,
                     spc, cur, view, image, flat>>
      /\ \E nextRow \in 1..store[version].nextRow :
            /\ \A row \in DOMAIN store[version].orders : row < nextRow
            /\ replica' = RestoreUltima(EncodeAt(store[version]), nextRow)
  BY DEF JoinReplica, writerVars, serVars, commVars
<1>3. Intact(flat) /\ Same(Book, flat) /\ Book.db = store[version] /\ flat.hwm <= Bound
  BY <1>1, <1>2 DEF BookInv, CountInv, Book, Tables
<1>4. ASSUME ImageFits PROVE Same(replica', flat)
  <2>1. PICK nextRow \in 1..Book.db.nextRow :
            /\ \A row \in DOMAIN Book.db.orders : row < nextRow
            /\ replica' = RestoreUltima(EncodeAt(Book.db), nextRow)
    BY <1>2, <1>3
  <2>2. flat.hwm <= GroupMax
    BY <1>3, <1>4, RestingTyped, NumbersAre, GroupMaxAssumption DEF ImageFits
  <2>3. nextRow \in Nat \ {0}
    OBVIOUS
  <2>. QED BY <1>3, <2>1, <2>2, <2>3, RestoreSame
<1>5. /\ Updates' = Updates /\ InsertProgram' = InsertProgram /\ IsLive' = IsLive /\ Bound' = Bound
      /\ ImageFits' = ImageFits
      /\ Resting' = Resting /\ RestAfter(n)' = RestAfter(n) /\ Book' = Book /\ Upcoming' = Upcoming
  BY <1>2 DEF Updates, InsertProgram, IsLive, Bound, ImageFits, Resting, RestAfter, Prebuilt,
              Book, Tables, Upcoming
<1>6. BookInv'
  BY <1>1, <1>2, <1>4, <1>5 DEF BookInv
<1>7. CountInv'
  BY <1>1, <1>2, <1>5 DEF CountInv
<1>8. StoreInv'
  BY <1>1, <1>2, <1>5 DEF StoreInv
<1>9. PinInv'
  BY <1>1, <1>2 DEF PinInv, Pins, NoMessage
<1>10. SerInv'
  BY <1>1, <1>2 DEF SerInv, NoMessage
<1>. QED BY <1>6, <1>7, <1>8, <1>9, <1>10 DEF SafeInv

\* A step that changes nothing.
LEMMA StutterStep ==
    ASSUME SafeInv, UNCHANGED vars PROVE SafeInv'
<1>1. BookInv /\ CountInv /\ StoreInv /\ PinInv /\ SerInv
  BY DEF SafeInv
<1>2. UNCHANGED <<program, store, wpc, version, ids, wtx, n, left, pending, chan,
                  spc, cur, view, image, flat, joined, replica>>
  BY DEF vars, writerVars, serVars, commVars, bookVars
<1>3. BookInv' /\ CountInv' /\ StoreInv'
  BY <1>1, <1>2, QuietBooks
<1>4. PinInv'
  BY <1>1, <1>2 DEF PinInv, Pins, NoMessage
<1>5. SerInv'
  BY <1>1, <1>2 DEF SerInv, NoMessage
<1>. QED BY <1>3, <1>4, <1>5 DEF SafeInv

\* What the program needs room for does not depend on where it is.
LEMMA RoomStays ==
    ASSUME [Next]_vars
    PROVE  program' = program /\ FlatBookFits' = FlatBookFits /\ ImageFits' = ImageFits
<1>1. program' = program
  BY DEF Next, vars, WriterStep, SerializerStep, Finished, JoinReplica,
         Begin, ApplyCommand, Commit, StartHandshake, AwaitHandshake, NoTrigger, SkipTrigger, TakeTrigger,
         Send, EndLoop, Join, Recv, OpenRead, EncodeView, ClearBusy, DropPin, ExitLoop
<1>. QED BY <1>1 DEF FlatBookFits, ImageFits, Bound, InsertProgram

\* The seeded version is the new book.
LEMMA InitSafe == Init => SafeInv
<1>. SUFFICES ASSUME Init PROVE SafeInv
  OBVIOUS
<1>1. /\ program \in LivePrograms \cup BatchPrograms
      /\ wpc = "begin" /\ n = 0 /\ left = 0 /\ version = 1
      /\ store = [v \in {1} |-> NewTables] /\ ids = NewUltima.ids
      /\ chan = <<>> /\ spc = "recv" /\ cur = NoMessage /\ flat = NewBook /\ joined = FALSE
  BY DEF Init
<1>2. Book = NewUltima
  BY <1>1 DEF Book, Tables, NewUltima
<1>3. BookInv
  <2>1. Same(Book, flat) /\ Intact(flat)
    BY <1>1, <1>2, NewSame
  <2>2. Plain(Book, flat)
    BY <1>1, <1>2, NewPlain
  <2>. QED BY <1>1, <2>1, <2>2 DEF BookInv
<1>4. CountInv
  <2>1. DOMAIN flat.idmap = {} /\ flat.hwm = 0
    BY <1>1 DEF NewBook
  <2>2. Resting = 0
    BY <2>1, FS_EmptySet DEF Resting
  <2>3. RestAfter(n) = 0
    <3>1. InsertProgram \/ n < Prebuilt
      BY <1>1, NumbersAre DEF Prebuilt, InsertProgram
    <3>. QED BY <1>1, <3>1 DEF RestAfter
  <2>4. 0 \in 0..Transactions /\ Upcoming = 0 * ApplyBatch
    BY <1>1, NumbersAre DEF Upcoming
  <2>5. flat.hwm <= Bound
    BY <2>1, NumbersAre
  <2>. QED BY <1>1, <2>1, <2>2, <2>3, <2>4, <2>5 DEF CountInv
<1>5. StoreInv
  BY <1>1 DEF StoreInv
<1>6. PinInv
  BY <1>1 DEF PinInv
<1>7. SerInv
  BY <1>1 DEF SerInv
<1>. QED BY <1>3, <1>4, <1>5, <1>6, <1>7 DEF SafeInv

\* Every step keeps the invariant.
LEMMA SafeStep ==
    ASSUME CountersSuffice, FlatBookFits, SafeInv, [Next]_vars PROVE SafeInv'
<1>1. CASE WriterStep
  <2>1. CASE Begin
    BY <2>1, BeginStep
  <2>2. CASE ApplyCommand
    BY <2>2, ApplyStep
  <2>3. CASE Commit
    BY <2>3, CommitStep
  <2>4. CASE \/ StartHandshake \/ AwaitHandshake \/ NoTrigger \/ SkipTrigger \/ TakeTrigger
             \/ Send \/ EndLoop \/ Join
    BY <2>4, HandoverStep
  <2>. QED BY <1>1, <2>1, <2>2, <2>3, <2>4 DEF WriterStep
<1>2. CASE SerializerStep
  BY <1>2, SerializerKeeps
<1>3. CASE JoinReplica
  BY <1>3, JoinStep
<1>4. CASE Finished \/ UNCHANGED vars
  BY <1>4, StutterStep DEF Finished
<1>. QED BY <1>1, <1>2, <1>3, <1>4 DEF Next

-----------------------------------------------------------------------------
(* The theorems.                                                           *)

\* The invariant of the programs.
LEMMA SpecSafe ==
    ASSUME CountersSuffice
    PROVE  Spec /\ FlatBookFits => [](SafeInv /\ FlatBookFits)
<1>1. Init /\ FlatBookFits => SafeInv /\ FlatBookFits
  BY InitSafe
<1>2. SafeInv /\ FlatBookFits /\ [Next]_vars => (SafeInv /\ FlatBookFits)'
  BY SafeStep, RoomStays
<1>. QED BY <1>1, <1>2, PTL DEF Spec

\* Whether an image can count every order does not change.
LEMMA SpecImageFits == Spec /\ ImageFits => []ImageFits
<1>1. ImageFits /\ [Next]_vars => ImageFits'
  BY RoomStays
<1>. QED BY <1>1, PTL DEF Spec

\* A message's version stays in the store until its pin is dropped, and no
\* call of the serializer panics.
THEOREM SpecPinned ==
    ASSUME CountersSuffice
    PROVE  Spec /\ FlatBookFits => []PinnedIsReadable
<1>1. SafeInv => PinnedIsReadable
  <2>. SUFFICES ASSUME SafeInv PROVE PinnedIsReadable
    OBVIOUS
  <2>1. PinInv /\ SerInv
    BY DEF SafeInv
  <2>2. spc # "panicked"
    BY <2>1 DEF SerInv
  <2>3. ASSUME NEW x \in Held PROVE x \in DOMAIN store
    <3>1. CASE wpc = "send" /\ x = pending.version
      BY <2>1, <3>1 DEF PinInv, Pins
    <3>2. CASE \E i \in DOMAIN chan : x = chan[i].version
      <4>1. PICK i \in DOMAIN chan : x = chan[i].version
        BY <3>2
      <4>2. PICK m : chan = <<m>> /\ Pins(m)
        BY <2>1, <4>1 DEF PinInv
      <4>3. chan[i] = m
        BY <4>1, <4>2
      <4>. QED BY <4>1, <4>2, <4>3 DEF Pins
    <3>3. CASE cur # NoMessage /\ x = cur.version
      BY <2>1, <3>3 DEF PinInv, Pins
    <3>. QED BY <2>3, <3>1, <3>2, <3>3 DEF Held
  <2>. QED BY <2>2, <2>3 DEF PinnedIsReadable
<1>. QED BY <1>1, SpecSafe, PTL

\* The image of a pinned version is that of the book at the moment of the pin.
THEOREM SpecImage ==
    ASSUME CountersSuffice
    PROVE  Spec /\ FlatBookFits => []ImageIsPinnedBook
<1>1. SafeInv => ImageIsPinnedBook
  <2>. SUFFICES ASSUME SafeInv, spc = "clear"
                PROVE  /\ ~RestoreUltimaFails(image)
                       /\ DigestUltima(RestoreUltima(image, view.nextRow).db) = cur.seen
    BY DEF ImageIsPinnedBook
  <2>1. Stands(view, cur.seen) /\ image = EncodeAt(view)
    BY DEF SafeInv, SerInv
  <2>. QED BY <2>1, StandsEncodes
<1>. QED BY <1>1, SpecSafe, PTL

\* Outside a transaction the ultima book and the flat book are the same book.
THEOREM SpecSame ==
    ASSUME CountersSuffice
    PROVE  Spec /\ FlatBookFits => []SameBook
<1>1. SafeInv => SameBook
  <2>. SUFFICES ASSUME SafeInv, wpc \notin {"begin", "apply"}
                PROVE  /\ DigestUltima(store[version]) = DigestBook(flat)
                       /\ Updates \/ program = "ultima_batch_insert" => EncodeAt(store[version]) = Encode(flat)
                       /\ \A id \in DOMAIN ids : store[version].orders[ids[id]].id = id
                       /\ DOMAIN ids = DOMAIN flat.idmap
    BY DEF SameBook
  <2>1. /\ Intact(flat) /\ Same(Book, flat) /\ Book.db = store[version] /\ Book.ids = ids
        /\ Updates \/ InsertProgram => Plain(Book, flat)
    BY DEF SafeInv, BookInv, Book, Tables
  <2>2. DigestUltima(store[version]) = DigestBook(flat)
    BY <2>1, SameDigest
  <2>3. Updates \/ program = "ultima_batch_insert" => EncodeAt(store[version]) = Encode(flat)
    BY <2>1, PlainImage DEF InsertProgram
  <2>4. DOMAIN ids = DOMAIN flat.idmap
    BY <2>1 DEF Same, RowsHold
  <2>5. ASSUME NEW id \in DOMAIN ids PROVE store[version].orders[ids[id]].id = id
    <3>. DEFINE s == flat.idmap[id]
    <3>1. flat.pool[s].id = id /\ Book.db.orders[Book.ids[id]] = OrderIn(Book, flat, s)
      BY <2>1, <2>4, OrderOfId
    <3>2. OrderIn(Book, flat, s).id = flat.pool[s].id
      BY DEF OrderIn
    <3>. QED BY <2>1, <3>1, <3>2
  <2>. QED BY <2>2, <2>3, <2>4, <2>5
<1>. QED BY <1>1, SpecSafe, PTL

\* A book restored from an image goes on as the book it was taken of.
THEOREM SpecReplica ==
    ASSUME CountersSuffice
    PROVE  Spec /\ FlatBookFits /\ ImageFits => []ReplicaIsSameBook
<1>1. SafeInv /\ ImageFits => ReplicaIsSameBook
  <2>. SUFFICES ASSUME SafeInv, ImageFits, joined
                PROVE  /\ DigestUltima(replica.db) = DigestBook(flat)
                       /\ DOMAIN replica.ids = DOMAIN ids
    BY DEF ReplicaIsSameBook
  <2>1. Intact(flat) /\ Same(Book, flat) /\ Book.ids = ids /\ Same(replica, flat)
    BY DEF SafeInv, BookInv, Book
  <2>. QED BY <2>1, SameDigest DEF Same, RowsHold
<1>. QED BY <1>1, SpecSafe, SpecImageFits, PTL
=============================================================================
