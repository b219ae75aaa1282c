-------------------------- MODULE FlatBook_proofs --------------------------
(***************************************************************************)
(* Proofs about the flat book: under any operations (OrderBook), and under *)
(* the churn driver, with a second book restored from a snapshot (Churn).  *)
(* They hold for every pool, ladder, `steady` and random draw.             *)
(*                                                                         *)
(* The invariant of OrderBook says that the book holds lists (Holds, of    *)
(* BookOps_proofs): there are queues and a free list that its links spell  *)
(* out both ways, whose slots are the ones in use, and whose lengths and   *)
(* sums the aggregates record.  Sound, AggregatesExact and BestExact are   *)
(* read off it; that it is kept by an insert, a partial fill, a cancel and *)
(* a fill are the lemmas of BookOps_proofs.  The same lists are the queues *)
(* of AbstractBook, which the book implements.                             *)
(*                                                                         *)
(* That of Churn adds that slots beyond the high-water mark are as         *)
(* Book::new made them, that the driver's list names the orders of the     *)
(* book, each once, how many these are at an even and at an odd op, and    *)
(* that the high-water mark is no higher than their largest number.        *)
(***************************************************************************)
EXTENDS OrderBook, Churn, BookOps_proofs

-----------------------------------------------------------------------------
(* The book under any operations.                                          *)

\* The prices and quantities an order slot can show.
Prices == {0} \cup {PriceOf(t) : t \in Ticks}
Amounts == {0} \cup Quantities

\* The book holds lists, its ids were handed out, its prices and quantities
\* are those of orders that were inserted.
Consistent(b, last) ==
    /\ DOMAIN b.idmap \subseteq 1..last
    /\ \A s \in Slots : b.pool[s].price \in Prices /\ b.pool[s].qty \in Amounts
    /\ \E q, f : Holds(b, q, f)

\* The inductive invariant.
IInv ==
    /\ running \in BOOLEAN
    /\ lastId \in 0..MaxId
    /\ Consistent(book, lastId)

\* A new book is consistent.
LEMMA InitConsistent == Init => IInv
<1>. SUFFICES ASSUME Init PROVE IInv
  OBVIOUS
<1>1. DOMAIN book.idmap = {} /\ \A s \in Slots : book.pool[s] = ZeroOrder
  BY DEF Init, NewBook
<1>2. Consistent(book, 0)
  <2>1. \A s \in Slots : book.pool[s].price \in Prices /\ book.pool[s].qty \in Amounts
    BY <1>1 DEF ZeroOrder, Prices, Amounts
  <2>2. \E q, f : Holds(book, q, f)
    BY NewBookHolds DEF Init
  <2>. QED BY <1>1, <2>1, <2>2 DEF Consistent
<1>. QED BY <1>2, BookWorkload DEF Init, IInv

\* An insert with the next id keeps the book consistent.
LEMMA InsertConsistent ==
    ASSUME NEW b, NEW last \in Nat, Consistent(b, last), ~Exhausted(b),
           NEW t \in Ticks, NEW qty \in Quantities, NEW side \in Sides
    PROVE  Consistent(Insert(b, last + 1, PriceOf(t), qty, side), last + 1)
<1>. DEFINE id == last + 1
            p  == PriceOf(t)
            n  == Insert(b, id, p, qty, side)
            s  == NextSlot(b)
<1>1. PICK q, f : Holds(b, q, f)
  BY DEF Consistent
<1>2. id \in Nat \ {0} /\ id \notin DOMAIN b.idmap /\ qty \in Nat
  BY BookWorkload DEF Consistent
<1>3. p \in Int /\ TickOf(p) \in Ticks /\ p \in Prices
  BY TickOfPrice DEF Prices
<1>. HIDE DEF id, p
<1>4. \E z, g : Holds(n, z, g)
  BY <1>1, <1>2, <1>3, InsertHolds
<1>5. /\ s \in Slots /\ n.pool[s].price = p /\ n.pool[s].qty = qty
      /\ \A x \in Slots \ {s} : SameOrder(n, b, x)
      /\ DOMAIN n.idmap = DOMAIN b.idmap \cup {id}
  <2>1. Holds(b, q, f) /\ ~Exhausted(b)
    BY <1>1
  <2>2. id \in Nat \ {0} /\ p \in Int /\ qty \in Nat /\ side \in Sides /\ TickOf(p) \in Ticks
    BY <1>2, <1>3
  <2>3. LET n_1 == Insert(b, id, p, qty, side)
            s_1 == NextSlot(b)
        IN  /\ s_1 \in Slots /\ b.pool[s_1].id = 0
            /\ n_1.pool[s_1].id = id /\ n_1.pool[s_1].price = p
            /\ n_1.pool[s_1].qty = qty /\ n_1.pool[s_1].filled = 0
            /\ \A x \in Slots \ {s_1} : SameOrder(n_1, b, x)
            /\ DOMAIN n_1.idmap = DOMAIN b.idmap \cup {id}
    BY <2>1, <2>2, InsertOrders
  <2>. QED BY <2>3
<1>. HIDE DEF n, s
<1>6. DOMAIN n.idmap \subseteq 1..id
  BY <1>5 DEF Consistent, id
<1>7. ASSUME NEW x \in Slots
      PROVE  n.pool[x].price \in Prices /\ n.pool[x].qty \in Amounts
  <2>1. CASE x = s
    BY <1>3, <1>5, <2>1 DEF Amounts
  <2>2. CASE x # s
    <3>1. SameOrder(n, b, x)
      BY <1>5, <2>2
    <3>. QED BY <3>1 DEF SameOrder, Consistent
  <2>. QED BY <2>1, <2>2
<1>. QED BY <1>4, <1>6, <1>7 DEF Consistent, id, p, n

\* So does a partial fill,
LEMMA UpdateConsistent ==
    ASSUME NEW b, NEW last \in Nat, Consistent(b, last),
           NEW id \in DOMAIN b.idmap, NEW fillQty \in FillQuantities
    PROVE  Consistent(Update(b, id, fillQty), last)
<1>. DEFINE n == Update(b, id, fillQty)
            s == b.idmap[id]
<1>1. PICK q, f : Holds(b, q, f)
  BY DEF Consistent
<1>2. fillQty \in Nat
  BY BookWorkload
<1>3. Holds(n, q, f)
  BY <1>1, <1>2, UpdateHolds
<1>4. /\ n.pool[s].price = b.pool[s].price /\ n.pool[s].qty = b.pool[s].qty
      /\ \A x \in Slots \ {s} : SameOrder(n, b, x)
      /\ n.idmap = b.idmap
  BY <1>1, <1>2, UpdateOrders
<1>. HIDE DEF n, s
<1>5. \A x \in Slots : n.pool[x].price = b.pool[x].price /\ n.pool[x].qty = b.pool[x].qty
  BY <1>4 DEF SameOrder
<1>6. \A x \in Slots : n.pool[x].price \in Prices /\ n.pool[x].qty \in Amounts
  BY <1>5 DEF Consistent
<1>7. DOMAIN n.idmap \subseteq 1..last
  BY <1>4 DEF Consistent
<1>. QED BY <1>3, <1>6, <1>7 DEF Consistent, n

\* and an order that leaves.
LEMMA LeftConsistent ==
    ASSUME NEW b, NEW last \in Nat, Consistent(b, last),
           NEW id \in DOMAIN b.idmap, NEW n, Left(b, n, id)
    PROVE  Consistent(n, last)
<1>. DEFINE s == b.idmap[id]
            o == b.pool[s]
            t == TickOf(o.price)
<1>1. PICK q, f : Holds(b, q, f)
  BY DEF Consistent
<1>2. PICK k : PlaceOf(b, q, id, k)
  BY <1>1, OrderIsListed
<1>3. \E z, g : Holds(n, z, g)
  BY <1>1, <1>2, LeftHolds
<1>4. /\ n.pool[s].price = b.pool[s].price /\ n.pool[s].qty = b.pool[s].qty
      /\ \A x \in Slots \ {s} : SameOrder(n, b, x)
      /\ n.idmap = Restrict(b.idmap, DOMAIN b.idmap \ {id})
  BY DEF Left, Shrunk
<1>. HIDE DEF s
<1>5. \A x \in Slots : n.pool[x].price = b.pool[x].price /\ n.pool[x].qty = b.pool[x].qty
  BY <1>4 DEF SameOrder
<1>6. \A x \in Slots : n.pool[x].price \in Prices /\ n.pool[x].qty \in Amounts
  BY <1>5 DEF Consistent
<1>7. DOMAIN n.idmap \subseteq 1..last
  <2>1. DOMAIN n.idmap = DOMAIN b.idmap \ {id}
    BY <1>4 DEF Restrict
  <2>. QED BY <2>1 DEF Consistent
<1>. QED BY <1>3, <1>6, <1>7 DEF Consistent

\* Every step keeps the invariant.
LEMMA StepConsistent == IInv /\ [Next]_vars => IInv'
<1>. SUFFICES ASSUME IInv, [Next]_vars PROVE IInv'
  OBVIOUS
<1>0. lastId \in Nat /\ Consistent(book, lastId) /\ lastId \in 0..MaxId /\ MaxId \in Nat
  BY BookWorkload DEF IInv
<1>1. ASSUME NEW t \in Ticks, NEW qty \in Quantities, NEW side \in Sides, DoInsert(t, qty, side)
      PROVE  IInv'
  <2>1. Consistent(book', lastId')
    BY <1>0, <1>1, InsertConsistent DEF DoInsert
  <2>2. lastId' \in 0..MaxId /\ running' \in BOOLEAN
    BY <1>0, <1>1 DEF DoInsert, IInv
  <2>. QED BY <2>1, <2>2 DEF IInv
<1>2. CASE InsertPanics
  BY <1>0, <1>2 DEF InsertPanics, IInv
<1>3. ASSUME NEW id \in Live, NEW fillQty \in FillQuantities, DoUpdate(id, fillQty)
      PROVE  IInv'
  <2>1. Consistent(book', lastId')
    BY <1>0, <1>3, UpdateConsistent DEF DoUpdate, Live
  <2>. QED BY <1>0, <1>3, <2>1 DEF DoUpdate, IInv
<1>4. ASSUME NEW id \in Live, DoCancel(id) \/ DoFill(id)
      PROVE  IInv'
  <2>1. id \in DOMAIN book.idmap /\ lastId' = lastId /\ running' = running
    BY <1>4 DEF Live, DoCancel, DoFill
  <2>2. PICK q, f : Holds(book, q, f)
    BY <1>0 DEF Consistent
  <2>3. Left(book, book', id)
    <3>1. Left(book, Cancel(book, id), id) /\ Left(book, Fill(book, id), id)
      BY <2>1, <2>2, CancelLeaves, FillLeaves
    <3>. QED BY <1>4, <3>1 DEF DoCancel, DoFill
  <2>4. Consistent(book', lastId)
    BY <1>0, <2>1, <2>3, LeftConsistent
  <2>. QED BY <1>0, <2>1, <2>4 DEF IInv
<1>5. CASE UNCHANGED vars
  BY <1>0, <1>5 DEF vars, IInv
<1>. QED BY <1>1, <1>2, <1>3, <1>4, <1>5 DEF Next

\* It holds throughout.
LEMMA Invariance == Spec => []IInv
<1>1. Init => IInv
  BY InitConsistent
<1>2. IInv /\ [Next]_vars => IInv'
  BY StepConsistent
<1>. QED BY <1>1, <1>2, PTL DEF Spec

-----------------------------------------------------------------------------
(* The invariants of the runs.                                             *)

\* The state has the type the run checks.
LEMMA TypeHolds == IInv => TypeOK
<1>. SUFFICES ASSUME IInv PROVE TypeOK
  OBVIOUS
<1>1. PICK q, f : Holds(book, q, f)
  BY DEF IInv, Consistent
<1>2. book \in Books /\ SlotsHold(book) /\ lastId \in 0..MaxId /\ MaxId \in Nat
  BY <1>1, BookWorkload DEF IInv, Holds
<1>3. DOMAIN book.idmap \subseteq 1..MaxId
  <2>1. DOMAIN book.idmap \subseteq 1..lastId
    BY DEF IInv, Consistent
  <2>2. 1..lastId \subseteq 1..MaxId
    BY <1>2
  <2>. QED BY <2>1, <2>2
<1>4. ASSUME NEW s \in Slots PROVE book.pool[s] \in OrderType
  <2>. DEFINE o == book.pool[s]
  <2>1. o \in Orders
    BY <1>2 DEF Books, Pools
  <2>2. o.id \in 0..MaxId
    <3>1. o.id \in Nat
      BY <2>1 DEF Orders
    <3>2. CASE o.id = 0
      BY <1>2, <3>2
    <3>3. CASE o.id # 0
      <4>1. o.id \in DOMAIN book.idmap
        BY <1>2, <3>3 DEF SlotsHold
      <4>. HIDE DEF o
      <4>. QED BY <1>2, <1>3, <4>1
    <3>. QED BY <3>2, <3>3
  <2>3. o.price \in Prices /\ o.qty \in Amounts
    BY DEF IInv, Consistent
  <2>. HIDE DEF o
  <2>4. o = [id |-> o.id, price |-> o.price, qty |-> o.qty, filled |-> o.filled,
             next |-> o.next, prev |-> o.prev, side |-> o.side]
        /\ o.filled \in Nat /\ o.next \in SlotOrNil /\ o.prev \in SlotOrNil /\ o.side \in Sides
    BY <2>1 DEF Orders
  <2>5. o \in OrderType
    BY <2>2, <2>3, <2>4 DEF OrderType, Prices, Amounts, SlotOrNil
  <2>. QED BY <2>5 DEF o
<1>5. ASSUME NEW side \in Sides, NEW t \in Ticks PROVE book.lane[side][t] \in LevelType
  <2>. DEFINE v == book.lane[side][t]
              l == q[side][t]
              w == [i \in 1..Len(l) |-> Open(book.pool[l[i]])]
  <2>1. v \in PriceLevels
    BY <1>2 DEF Books, Lanes
  <2>2. LevelHolds(book, side, t, l) /\ l \in Seq(Slots)
    BY <1>1 DEF Holds
  <2>3. w \in Seq(Int) /\ OpenQty(book, l) = Total(w)
    BY <1>2, <2>2, OpensTyped DEF OpenQty
  <2>4. \A i \in 1..Len(w) : w[i] >= 0
    <3>1. \A i \in 1..Len(l) : Open(book.pool[l[i]]) >= 0
      <4>. TAKE i \in 1..Len(l)
      <4>1. l[i] \in Slots
        BY <2>2, ElementOfSeq
      <4>2. book.pool[l[i]] \in Orders /\ book.pool[l[i]].filled <= book.pool[l[i]].qty
        BY <1>2, <4>1 DEF Books, Pools, SlotsHold
      <4>. QED BY <4>2 DEF Orders, Open
    <3>. QED BY <3>1
  <2>5. v.qtyTotal \in Nat /\ v.count \in Nat
    <3>1. v.qtyTotal = Total(w) /\ v.count = Len(l)
      BY <2>2, <2>3 DEF LevelHolds
    <3>. HIDE DEF v, w, l
    <3>2. Total(w) \in Int /\ Total(w) >= 0
      BY <2>3, <2>4, TotalType
    <3>. QED BY <2>2, <3>1, <3>2
  <2>. HIDE DEF v
  <2>6. v \in LevelType
    BY <2>1, <2>5 DEF PriceLevels, LevelType, SlotOrNil
  <2>. QED BY <2>6 DEF v
<1>6. /\ book.hwm \in 0..Cap
      /\ \A side \in Sides : book.best[side] \in Ticks \cup {NoLevel}
      /\ book.freeHead \in Slots \cup {NIL}
  BY <1>2 DEF Books, Bests, SlotOrNil
<1>7. \A id \in Live : book.idmap[id] \in Slots
  BY <1>2, IdMapTyped DEF Live
<1>. QED BY <1>3, <1>4, <1>5, <1>6, <1>7 DEF TypeOK, Live

\* The slots are those of the lists.
LEMMA SlotsAccounted == IInv => SlotsAccountedFor
<1>. SUFFICES ASSUME IInv PROVE SlotsAccountedFor
  OBVIOUS
<1>1. PICK q, f : Holds(book, q, f)
  BY DEF IInv, Consistent
<1>2. /\ FreeList(book) = f
      /\ \A side \in Sides, t \in Ticks : QueueOf(book, side, t) = q[side][t]
  BY <1>1, HoldsIsRead
<1>3. /\ FreeHolds(book, f)
      /\ \A side \in Sides, t \in Ticks : LevelHolds(book, side, t, q[side][t])
      /\ book.hwm \in 0..Cap
  BY <1>1 DEF Holds, Books
<1>4. /\ \A i, j \in 1..Len(f) : f[i] = f[j] => i = j
      /\ \A side \in Sides, t \in Ticks :
            \A i, j \in 1..Len(q[side][t]) : q[side][t][i] = q[side][t][j] => i = j
  BY <1>3 DEF FreeHolds, LevelHolds, ListFrom
<1>5. 0..(book.hwm - 1) = {s \in Slots : s < book.hwm}
  BY <1>3, BookConfig DEF Slots
<1>6. {f[i] : i \in 1..Len(f)} = {s \in 0..(book.hwm - 1) : book.pool[s].id = 0}
  <2>1. \A i \in 1..Len(f) : f[i] \in Slots
    BY <1>3, ElementOfSeq DEF FreeHolds, ListFrom
  <2>2. \A x \in Slots : (\E i \in 1..Len(f) : f[i] = x) <=> x < book.hwm /\ book.pool[x].id = 0
    BY <1>3 DEF FreeHolds
  <2>. QED BY <1>5, <2>1, <2>2
<1>7. ASSUME NEW side \in Sides, NEW t \in Ticks
      PROVE  {q[side][t][i] : i \in 1..Len(q[side][t])} =
                {s \in 0..(book.hwm - 1) : /\ book.pool[s].id # 0
                                           /\ book.pool[s].side = side
                                           /\ TickOf(book.pool[s].price) = t}
  <2>. DEFINE l == q[side][t]
  <2>1. LevelHolds(book, side, t, l)
    BY <1>3
  <2>. HIDE DEF l
  <2>2. \A i \in 1..Len(l) : l[i] \in Slots
    BY <2>1, ElementOfSeq DEF LevelHolds, ListFrom
  <2>3. \A x \in Slots : (\E i \in 1..Len(l) : l[i] = x) <=> RestsAt(book, x, side, t)
    BY <2>1 DEF LevelHolds
  <2>4. {l[i] : i \in 1..Len(l)} = {x \in Slots : RestsAt(book, x, side, t)}
    BY <2>2, <2>3
  <2>. QED BY <1>5, <2>4 DEF l, RestsAt
<1>. DEFINE lists == {f} \cup {q[side][t] : side \in Sides, t \in Ticks}
<1>8. \A l \in lists : \A i, j \in 1..Len(l) : l[i] = l[j] => i = j
  BY <1>4
<1>9. {FreeList(book)} \cup {QueueOf(book, side, t) : side \in Sides, t \in Ticks} = lists
  BY <1>2
<1>. QED BY <1>2, <1>6, <1>7, <1>8, <1>9 DEF SlotsAccountedFor

\* The links run both ways.
LEMMA LinksHold == IInv => LinksConsistent
<1>. SUFFICES ASSUME IInv PROVE LinksConsistent
  OBVIOUS
<1>1. PICK q, f : Holds(book, q, f)
  BY DEF IInv, Consistent
<1>2. \A side \in Sides, t \in Ticks : QueueOf(book, side, t) = q[side][t]
  BY <1>1, HoldsIsRead
<1>3. ASSUME NEW side \in Sides, NEW t \in Ticks
      PROVE  LET l == QueueOf(book, side, t)
                 n == Len(l)
             IN  /\ book.lane[side][t].tail = IF n = 0 THEN NIL ELSE l[n]
                 /\ \A i \in 1..n : book.pool[l[i]].prev = IF i = 1 THEN NIL ELSE l[i - 1]
  <2>. DEFINE l == QueueOf(book, side, t)
  <2>1. LevelHolds(book, side, t, l)
    BY <1>1, <1>2 DEF Holds
  <2>. HIDE DEF l
  <2>2. /\ book.lane[side][t].tail = IF Len(l) = 0 THEN NIL ELSE l[Len(l)]
        /\ \A i \in 1..Len(l) : book.pool[l[i]].prev = IF i = 1 THEN NIL ELSE l[i - 1]
    BY <2>1 DEF LevelHolds
  <2>. QED BY <2>2 DEF l
<1>. QED BY <1>3 DEF LinksConsistent

\* The id map names the orders.
LEMMA IdMapHolds == IInv => IdMapExact
<1>. SUFFICES ASSUME IInv PROVE IdMapExact
  OBVIOUS
<1>1. book \in Books /\ SlotsHold(book)
  BY DEF IInv, Consistent, Holds
<1>2. \A id \in Live : id # 0 /\ book.idmap[id] \in Slots /\ book.pool[book.idmap[id]].id = id
  BY <1>1, IdMapTyped DEF SlotsHold, Live
<1>3. \A s \in Slots : book.pool[s].id # 0 =>
         book.pool[s].id \in Live /\ book.idmap[book.pool[s].id] = s
  BY <1>1 DEF SlotsHold, Live
<1>4. {book.idmap[id] : id \in Live} = {s \in Slots : book.pool[s].id # 0}
  BY <1>2, <1>3
<1>. QED BY <1>2, <1>4 DEF IdMapExact

\* The aggregates are those of the queues.
LEMMA AggregatesHold == IInv => AggregatesExact
<1>. SUFFICES ASSUME IInv PROVE AggregatesExact
  OBVIOUS
<1>1. PICK q, f : Holds(book, q, f)
  BY DEF IInv, Consistent
<1>2. \A side \in Sides, t \in Ticks : QueueOf(book, side, t) = q[side][t]
  BY <1>1, HoldsIsRead
<1>3. \A side \in Sides, t \in Ticks :
         /\ book.lane[side][t].count = Len(q[side][t])
         /\ book.lane[side][t].qtyTotal = OpenQty(book, q[side][t])
  BY <1>1 DEF Holds, LevelHolds
<1>. QED BY <1>2, <1>3 DEF AggregatesExact

\* The cached best is the best.
LEMMA BestIsExact == IInv => BestExact
<1>. SUFFICES ASSUME IInv PROVE BestExact
  OBVIOUS
<1>1. BestHolds(book)
  BY DEF IInv, Consistent, Holds
<1>2. ASSUME NEW side \in Sides
      PROVE  book.best[side] = IF Occupied(book, side) = {} THEN NoLevel
                               ELSE IF side = BID THEN Max(Occupied(book, side))
                               ELSE Min(Occupied(book, side))
  <2>. DEFINE S == Occupied(book, side)
              best == book.best[side]
  <2>1. S \in SUBSET Ticks /\ IsBest(side, S, best)
    BY <1>1 DEF BestHolds, Occupied
  <2>2. \A i \in S : i \in Nat
    BY <2>1 DEF Ticks
  <2>. HIDE DEF S, best
  <2>3. CASE S = {}
    BY <2>1, <2>3 DEF IsBest, S, best
  <2>4. CASE S # {} /\ side = BID
    <3>1. Max(S) \in S /\ \A i \in S : i <= Max(S)
      BY <2>1, <2>4, MaxIs
    <3>2. best \in S /\ \A i \in S : i <= best
      BY <2>1, <2>4 DEF IsBest
    <3>3. best = Max(S)
      BY <2>2, <3>1, <3>2
    <3>. QED BY <2>4, <3>3 DEF S, best
  <2>5. CASE S # {} /\ side # BID
    <3>1. Min(S) \in S /\ \A i \in S : Min(S) <= i
      BY <2>1, <2>5, MinIs
    <3>2. best \in S /\ \A i \in S : best <= i
      BY <2>1, <2>5 DEF IsBest
    <3>3. best = Min(S)
      BY <2>2, <3>1, <3>2
    <3>. QED BY <2>5, <3>3 DEF S, best
  <2>. QED BY <2>3, <2>4, <2>5
<1>. QED BY <1>2 DEF BestExact, Occupied

\* Whatever orders come and go, slots, links and id map stay consistent, for
\* every pool, ladder and workload.
THEOREM BookSound == Spec => []Sound
<1>1. IInv => Sound
  BY TypeHolds, SlotsAccounted, LinksHold, IdMapHolds DEF Sound
<1>. QED BY <1>1, Invariance, PTL

\* The count and quantity of a level are those of its queue, though insert,
\* update and unlink only ever add to and subtract from them.
THEOREM AggregatesAreExact == Spec => []AggregatesExact
BY AggregatesHold, Invariance, PTL

\* The cached best of a side is its highest bid or lowest ask, though it is
\* repaired by a search only when the best level empties.
THEOREM BestAlwaysExact == Spec => []BestExact
BY BestIsExact, Invariance, PTL

-----------------------------------------------------------------------------
(* The abstract book.                                                      *)

\* What the abstract book keeps of the order at slot s, and of a list.
Kept(b, s) == [id |-> b.pool[s].id, qty |-> b.pool[s].qty, filled |-> b.pool[s].filled]
Ranked(b, l) == [i \in 1..Len(l) |-> Kept(b, l[i])]

\* Queues of any book.
QueuesIn(b) ==
    [side \in Sides |-> [t \in Ticks |->
        LET q == QueueOf(b, side, t)
        IN  [i \in 1..Len(q) |-> [id     |-> b.pool[q[i]].id,
                                  qty    |-> b.pool[q[i]].qty,
                                  filled |-> b.pool[q[i]].filled]]]]

\* One queue changes, to v.
OneQueue(b, n, side, t, v) ==
    QueuesIn(n) = [QueuesIn(b) EXCEPT ![side] = [QueuesIn(b)[side] EXCEPT ![t] = v]]

\* The k-th order of one queue is filled by at most fillQty.
FilledAt(b, n, side, t, k, fillQty) ==
    LET o    == QueuesIn(b)[side][t][k]
        open == o.qty - o.filled
    IN  /\ k \in 1..Len(QueuesIn(b)[side][t])
        /\ QueuesIn(n) = [QueuesIn(b) EXCEPT ![side][t][k].filled =
                             @ + (IF fillQty < open THEN fillQty ELSE open)]

\* The k-th order of one queue leaves.
GoneAt(b, n, side, t, k) ==
    LET v == QueuesIn(b)[side][t]
    IN  /\ k \in 1..Len(v)
        /\ OneQueue(b, n, side, t, SubSeq(v, 1, k - 1) \o SubSeq(v, k + 1, Len(v)))

\* The queues are those of the lists.
LEMMA QueuesAreLists ==
    ASSUME NEW b, NEW q, NEW f, Holds(b, q, f)
    PROVE  QueuesIn(b) = [side \in Sides |-> [t \in Ticks |-> Ranked(b, q[side][t])]]
<1>1. \A side \in Sides, t \in Ticks : QueueOf(b, side, t) = q[side][t]
  BY HoldsIsRead
<1>2. \A side \in Sides, t \in Ticks :
         LET l == QueueOf(b, side, t)
         IN  [i \in 1..Len(l) |-> [id     |-> b.pool[l[i]].id,
                                   qty    |-> b.pool[l[i]].qty,
                                   filled |-> b.pool[l[i]].filled]]
           = Ranked(b, q[side][t])
  BY <1>1 DEF Ranked, Kept
<1>. QED BY <1>2 DEF QueuesIn

\* If the list of one level changes and the orders of the others do not, one
\* queue changes.
LEMMA QueueChanges ==
    ASSUME NEW b, NEW q, NEW f, Holds(b, q, f), NEW n, NEW z, NEW g, Holds(n, z, g),
           NEW side \in Sides, NEW t \in Ticks, NEW s \in Slots,
           \A x \in Slots \ {s} : SameOrder(n, b, x),
           \A d \in Sides, i \in Ticks : d # side \/ i # t => ~RestsAt(b, s, d, i) /\ z[d][i] = q[d][i]
    PROVE  OneQueue(b, n, side, t, Ranked(n, z[side][t]))
<1>1. ASSUME NEW d \in Sides, NEW i \in Ticks, d # side \/ i # t
      PROVE  Ranked(n, z[d][i]) = Ranked(b, q[d][i])
  <2>. DEFINE l == q[d][i]
  <2>1. LevelHolds(b, d, i, l) /\ z[d][i] = l /\ ~RestsAt(b, s, d, i)
    BY <1>1 DEF Holds
  <2>. HIDE DEF l
  <2>2. \A j \in 1..Len(l) : l[j] \in Slots
    BY <2>1, ElementOfSeq DEF LevelHolds, ListFrom
  <2>3. \A j \in 1..Len(l) : l[j] \in Slots \ {s}
    BY <2>1, <2>2 DEF LevelHolds
  <2>4. \A j \in 1..Len(l) : SameOrder(n, b, l[j])
    BY <2>3
  <2>5. \A j \in 1..Len(l) : Kept(n, l[j]) = Kept(b, l[j])
    BY <2>4 DEF SameOrder, Kept
  <2>6. Ranked(n, l) = Ranked(b, l)
    BY <2>5 DEF Ranked
  <2>. QED BY <2>1, <2>6 DEF l
<1>2. QueuesIn(b) = [d \in Sides |-> [i \in Ticks |-> Ranked(b, q[d][i])]]
  BY QueuesAreLists
<1>3. QueuesIn(n) = [d \in Sides |-> [i \in Ticks |-> Ranked(n, z[d][i])]]
  BY QueuesAreLists
<1>. DEFINE R(d, i) == Ranked(b, q[d][i])
            S(d, i) == Ranked(n, z[d][i])
<1>4. \A d \in Sides, i \in Ticks : d # side \/ i # t => S(d, i) = R(d, i)
  BY <1>1
<1>. HIDE DEF R, S
<1>5. QueuesIn(b) = [d \in Sides |-> [i \in Ticks |-> R(d, i)]]
  BY <1>2 DEF R
<1>6. QueuesIn(n) = [d \in Sides |-> [i \in Ticks |-> S(d, i)]]
  BY <1>3 DEF S
<1>7. [d \in Sides |-> [i \in Ticks |-> S(d, i)]]
        = [[d \in Sides |-> [i \in Ticks |-> R(d, i)]] EXCEPT ![side] =
              [[i \in Ticks |-> R(side, i)] EXCEPT ![t] = S(side, t)]]
  <2>. DEFINE U(d) == [i \in Ticks |-> R(d, i)]
              V(d) == [i \in Ticks |-> S(d, i)]
  <2>1. V(side) = [U(side) EXCEPT ![t] = S(side, t)]
    BY <1>4
  <2>2. \A d \in Sides : d # side => V(d) = U(d)
    BY <1>4
  <2>. HIDE DEF U, V
  <2>3. [d \in Sides |-> V(d)] = [[d \in Sides |-> U(d)] EXCEPT ![side] = [U(side) EXCEPT ![t] = S(side, t)]]
    BY <2>1, <2>2
  <2>. QED BY <2>3 DEF U, V
<1>8. QueuesIn(b)[side] = [i \in Ticks |-> R(side, i)]
  BY <1>5
<1>. QED BY <1>5, <1>6, <1>7, <1>8 DEF S, OneQueue

\* An insert puts the order at the end of its queue.
LEMMA InsertQueues ==
    ASSUME NEW b, NEW q, NEW f, Holds(b, q, f), ~Exhausted(b),
           NEW id \in Nat \ {0}, id \notin DOMAIN b.idmap,
           NEW price \in Int, NEW qty \in Nat, NEW side \in Sides, NEW t \in Ticks, TickOf(price) = t
    PROVE  OneQueue(b, Insert(b, id, price, qty, side), side, t,
                    Append(QueuesIn(b)[side][t], [id |-> id, qty |-> qty, filled |-> 0]))
<1>. DEFINE n == Insert(b, id, price, qty, side)
            s == NextSlot(b)
            l == q[side][t]
            m == Append(l, s)
            z == [q EXCEPT ![side] = [q[side] EXCEPT ![t] = m]]
            o == [id |-> id, qty |-> qty, filled |-> 0]
<1>1. PICK g : Holds(n, z, g)
  BY InsertHolds
<1>2. /\ s \in Slots /\ b.pool[s].id = 0
      /\ n.pool[s].id = id /\ n.pool[s].qty = qty /\ n.pool[s].filled = 0
      /\ \A x \in Slots \ {s} : SameOrder(n, b, x)
  BY InsertOrders, SMTT(30)
<1>. HIDE DEF n, s
<1>3. q \in [Sides -> [Ticks -> Seq(Slots)]] /\ l \in Seq(Slots) /\ LevelHolds(b, side, t, l)
  BY DEF Holds
<1>. HIDE DEF l
<1>4. /\ m \in Seq(Slots) /\ Len(m) = Len(l) + 1 /\ m[Len(l) + 1] = s
      /\ \A i \in 1..Len(l) : m[i] = l[i]
      /\ \A i \in 1..Len(m) : i \in 1..Len(l) \/ i = Len(l) + 1
  BY <1>2, <1>3, AppendedList
<1>. HIDE DEF m
<1>5. z[side][t] = m /\ \A d \in Sides, i \in Ticks : d # side \/ i # t => z[d][i] = q[d][i]
  BY <1>3
<1>. HIDE DEF z
<1>6. \A d \in Sides, i \in Ticks : ~RestsAt(b, s, d, i)
  BY <1>2 DEF RestsAt
<1>7. OneQueue(b, n, side, t, Ranked(n, m))
  <2>1. OneQueue(b, n, side, t, Ranked(n, z[side][t]))
    BY <1>1, <1>2, <1>5, <1>6, QueueChanges
  <2>. QED BY <1>5, <2>1
<1>8. QueuesIn(b)[side][t] = Ranked(b, l)
  <2>1. QueuesIn(b) = [d \in Sides |-> [i \in Ticks |-> Ranked(b, q[d][i])]]
    BY QueuesAreLists
  <2>. QED BY <2>1 DEF l
<1>9. Ranked(n, m) = Append(Ranked(b, l), o)
  <2>1. PICK N \in Nat : N = Len(l)
    BY <1>3
  <2>2. \A i \in 1..N : l[i] \in Slots \ {s}
    <3>1. \A i \in 1..N : l[i] \in Slots
      BY <1>3, <2>1, ElementOfSeq
    <3>2. \A i \in 1..N : RestsAt(b, l[i], side, t)
      BY <1>3, <2>1, <3>1 DEF LevelHolds
    <3>. QED BY <1>6, <3>1, <3>2
  <2>3. \A i \in 1..N : Kept(n, m[i]) = Kept(b, l[i])
    <3>1. \A i \in 1..N : m[i] = l[i] /\ SameOrder(n, b, l[i])
      BY <1>2, <1>4, <2>1, <2>2
    <3>. QED BY <3>1 DEF SameOrder, Kept
  <2>4. Kept(n, m[N + 1]) = o
    BY <1>2, <1>4, <2>1 DEF Kept
  <2>5. Ranked(b, l) = [i \in 1..N |-> Kept(b, l[i])] /\ Ranked(n, m) = [i \in 1..(N + 1) |-> Kept(n, m[i])]
    BY <1>4, <2>1 DEF Ranked
  <2>. DEFINE K(i) == Kept(b, l[i])
              M(i) == Kept(n, m[i])
  <2>. HIDE DEF o
  <2>6. (\A i \in 1..N : M(i) = K(i)) /\ M(N + 1) = o
    BY <2>3, <2>4
  <2>. HIDE DEF K, M
  <2>7. Append([i \in 1..N |-> K(i)], o) = [i \in 1..(N + 1) |-> M(i)]
    <3>. DEFINE v == [i \in 1..N |-> K(i)]
    <3>1. v \in Seq({K(i) : i \in 1..N} \cup {o}) /\ Len(v) = N
      <4>1. v \in [1..N -> {K(i) : i \in 1..N} \cup {o}]
        OBVIOUS
      <4>. HIDE DEF v
      <4>. QED BY <2>1, <4>1
    <3>2. \A i \in 1..N : v[i] = K(i)
      OBVIOUS
    <3>. HIDE DEF v
    <3>. DEFINE E == {K(i) : i \in 1..N} \cup {o}
                w == Append(v, o)
    <3>3. o \in E
      OBVIOUS
    <3>. HIDE DEF E
    <3>4. /\ w \in Seq(E) /\ Len(w) = N + 1 /\ w[N + 1] = o
          /\ \A i \in 1..N : w[i] = v[i]
      BY <3>1, <3>3, AppendProperties DEF E
    <3>5. \A i \in 1..(N + 1) : w[i] = M(i)
      <4>1. \A i \in 1..(N + 1) : i = N + 1 \/ i \in 1..N
        BY <2>1
      <4>. QED BY <2>6, <3>2, <3>4, <4>1
    <3>. HIDE DEF w
    <3>6. w = [i \in 1..(N + 1) |-> w[i]]
      BY <3>4
    <3>7. w = [i \in 1..(N + 1) |-> M(i)]
      BY <3>5, <3>6
    <3>. QED BY <3>7 DEF v, w
  <2>. QED BY <2>5, <2>7 DEF K, M
<1>. QED BY <1>7, <1>8, <1>9 DEF n

\* A partial fill leaves the order where it is.
LEMMA UpdateQueues ==
    ASSUME NEW b, NEW q, NEW f, Holds(b, q, f), NEW id \in DOMAIN b.idmap, NEW fillQty \in Nat
    PROVE  \E side \in Sides, t \in Ticks, k \in Nat :
              FilledAt(b, Update(b, id, fillQty), side, t, k, fillQty)
<1>. DEFINE n    == Update(b, id, fillQty)
            s    == b.idmap[id]
            p    == b.pool[s]
            side == p.side
            t    == TickOf(p.price)
            l    == q[side][t]
            open == p.qty - p.filled
            add  == IF fillQty < open THEN fillQty ELSE open
<1>1. Holds(n, q, f)
  BY UpdateHolds
<1>2. /\ s \in Slots /\ p \in Orders /\ t \in Ticks /\ side \in Sides
      /\ RestsAt(b, s, side, t) /\ \E k : PlaceOf(b, q, id, k)
  BY OrderIsListed
<1>3. PICK k : PlaceOf(b, q, id, k)
  BY <1>2
<1>4. k \in 1..Len(l) /\ l[k] = s
  BY <1>3 DEF PlaceOf
<1>5. /\ n.pool[s].id = p.id /\ n.pool[s].qty = p.qty /\ n.pool[s].filled = p.filled + add
      /\ \A x \in Slots \ {s} : SameOrder(n, b, x)
  BY UpdateOrders
<1>6. LevelHolds(b, side, t, l) /\ l \in Seq(Slots)
  BY <1>2 DEF Holds
<1>7. \A d \in Sides, i \in Ticks : d # side \/ i # t => ~RestsAt(b, s, d, i)
  BY <1>2 DEF RestsAt
<1>. HIDE DEF n, s, p, side, t, l, add, open
<1>8. OneQueue(b, n, side, t, Ranked(n, l))
  <2>1. OneQueue(b, n, side, t, Ranked(n, q[side][t]))
    BY <1>1, <1>2, <1>5, <1>7, QueueChanges
  <2>. QED BY <2>1 DEF l
<1>9. QueuesIn(b)[side][t] = Ranked(b, l)
  <2>1. QueuesIn(b) = [d \in Sides |-> [i \in Ticks |-> Ranked(b, q[d][i])]]
    BY QueuesAreLists
  <2>. QED BY <1>2, <2>1 DEF l
<1>10. Ranked(b, l)[k] = Kept(b, s) /\ Kept(n, s) = [Kept(b, s) EXCEPT !.filled = @ + add]
  <2>1. Ranked(b, l)[k] = Kept(b, s)
    BY <1>4 DEF Ranked
  <2>2. Kept(n, s) = [Kept(b, s) EXCEPT !.filled = @ + add]
    BY <1>5 DEF Kept, p
  <2>. QED BY <2>1, <2>2
<1>11. Ranked(n, l) = [Ranked(b, l) EXCEPT ![k] = Kept(n, s)]
  <2>1. \A i \in 1..Len(l) : l[i] \in Slots /\ (i # k => l[i] # s)
    <3>1. \A i \in 1..Len(l) : l[i] \in Slots
      BY <1>6, ElementOfSeq
    <3>2. \A i, j \in 1..Len(l) : l[i] = l[j] => i = j
      BY <1>6 DEF LevelHolds, ListFrom
    <3>. QED BY <1>4, <3>1, <3>2
  <2>2. ASSUME NEW i \in 1..Len(l)
        PROVE  Kept(n, l[i]) = IF i = k THEN Kept(n, s) ELSE Kept(b, l[i])
    <3>1. CASE i = k
      BY <1>4, <3>1
    <3>2. CASE i # k
      <4>1. SameOrder(n, b, l[i])
        BY <1>5, <2>1, <3>2
      <4>. QED BY <3>2, <4>1 DEF SameOrder, Kept
    <3>. QED BY <3>1, <3>2
  <2>. QED BY <1>4, <2>2 DEF Ranked
<1>12. k \in 1..Len(QueuesIn(b)[side][t])
  <2>1. Len(Ranked(b, l)) = Len(l)
    BY <1>6 DEF Ranked
  <2>. QED BY <1>4, <1>9, <2>1
<1>13. LET o == QueuesIn(b)[side][t][k]
       IN  add = IF fillQty < o.qty - o.filled THEN fillQty ELSE o.qty - o.filled
  <2>1. QueuesIn(b)[side][t][k] = Kept(b, s)
    BY <1>9, <1>10
  <2>2. Kept(b, s).qty = p.qty /\ Kept(b, s).filled = p.filled
    BY DEF Kept, p
  <2>. QED BY <2>1, <2>2 DEF add, open
<1>14. QueuesIn(n) = [QueuesIn(b) EXCEPT ![side][t][k].filled = @ + add]
  <2>. DEFINE Q == QueuesIn(b)
              e == [Q[side][t][k] EXCEPT !.filled = Q[side][t][k].filled + add]
              v == [Q[side][t] EXCEPT ![k] = e]
  <2>1. e = Kept(n, s)
    BY <1>9, <1>10
  <2>2. v = Ranked(n, l)
    BY <1>9, <1>11, <2>1
  <2>3. QueuesIn(n) = [Q EXCEPT ![side] = [Q[side] EXCEPT ![t] = v]]
    BY <1>8, <2>2 DEF OneQueue
  <2>. HIDE DEF Q
  <2>4. [Q EXCEPT ![side][t][k].filled = @ + add] = [Q EXCEPT ![side] = [Q[side] EXCEPT ![t] = v]]
    OBVIOUS
  <2>. QED BY <2>3, <2>4 DEF Q
<1>15. FilledAt(b, n, side, t, k, fillQty)
  BY <1>12, <1>13, <1>14 DEF FilledAt
<1>16. k \in Nat
  BY <1>4
<1>. QED BY <1>2, <1>15, <1>16 DEF n

\* A list of which the k-th member was removed.
LEMMA RemovedAt ==
    ASSUME NEW E, NEW v \in Seq(E), NEW k \in 1..Len(v)
    PROVE  SubSeq(v, 1, k - 1) \o SubSeq(v, k + 1, Len(v))
             = [i \in 1..(Len(v) - 1) |-> IF i < k THEN v[i] ELSE v[i + 1]]
<1>1. PICK N \in Nat : N = Len(v)
  OBVIOUS
<1>. DEFINE u == SubSeq(v, 1, k - 1)
            w == SubSeq(v, k + 1, N)
<1>2. k \in Nat /\ 1 <= k /\ k <= N /\ k - 1 \in Nat /\ N - k \in Nat
  BY <1>1
<1>3. /\ u \in Seq(E) /\ Len(u) = k - 1
      /\ \A i \in 1..(k - 1) : u[i] = v[i]
  BY <1>1, <1>2, ElementOfSeq
<1>4. /\ w \in Seq(E) /\ Len(w) = N - k
      /\ \A i \in 1..(N - k) : w[i] = v[k + i]
  BY <1>1, <1>2, ElementOfSeq
<1>. HIDE DEF u, w
<1>5. /\ u \o w \in Seq(E) /\ Len(u \o w) = N - 1
      /\ \A i \in 1..(N - 1) : (u \o w)[i] = IF i <= k - 1 THEN u[i] ELSE w[i - (k - 1)]
  <2>1. /\ u \o w \in Seq(E) /\ Len(u \o w) = Len(u) + Len(w)
        /\ \A i \in 1..(Len(u) + Len(w)) : (u \o w)[i] = IF i <= Len(u) THEN u[i] ELSE w[i - Len(u)]
    BY <1>3, <1>4, ConcatProperties
  <2>2. Len(u) + Len(w) = N - 1
    BY <1>2, <1>3, <1>4
  <2>. QED BY <1>3, <2>1, <2>2
<1>6. ASSUME NEW i \in 1..(N - 1)
      PROVE  (u \o w)[i] = IF i < k THEN v[i] ELSE v[i + 1]
  <2>1. CASE i < k
    <3>1. i <= k - 1 /\ i \in 1..(k - 1)
      BY <1>2, <2>1
    <3>. QED BY <1>3, <1>5, <2>1, <3>1
  <2>2. CASE ~(i < k)
    <3>1. ~(i <= k - 1) /\ i - (k - 1) \in 1..(N - k) /\ k + (i - (k - 1)) = i + 1
      BY <1>2, <2>2
    <3>. QED BY <1>4, <1>5, <2>2, <3>1
  <2>. QED BY <2>1, <2>2
<1>7. u \o w = [i \in 1..(N - 1) |-> (u \o w)[i]]
  <2>. DEFINE z == u \o w
  <2>1. z \in Seq(E) /\ Len(z) = N - 1
    BY <1>5
  <2>. HIDE DEF z
  <2>2. z = [i \in 1..(N - 1) |-> z[i]]
    BY <2>1
  <2>. QED BY <2>2 DEF z
<1>8. u \o w = [i \in 1..(N - 1) |-> IF i < k THEN v[i] ELSE v[i + 1]]
  BY <1>6, <1>7
<1>. QED BY <1>1, <1>8 DEF u, w

\* An order that leaves is taken out of its queue.
LEMMA LeftQueues ==
    ASSUME NEW b, NEW q, NEW f, Holds(b, q, f), NEW id \in DOMAIN b.idmap, NEW n, Left(b, n, id)
    PROVE  \E side \in Sides, t \in Ticks, k \in Nat : GoneAt(b, n, side, t, k)
<1>. DEFINE s    == b.idmap[id]
            p    == b.pool[s]
            side == p.side
            t    == TickOf(p.price)
            l    == q[side][t]
<1>1. /\ s \in Slots /\ t \in Ticks /\ side \in Sides
      /\ RestsAt(b, s, side, t) /\ \E k : PlaceOf(b, q, id, k)
  BY OrderIsListed
<1>2. PICK k : PlaceOf(b, q, id, k)
  BY <1>1
<1>3. k \in 1..Len(l) /\ l[k] = s
  BY <1>2 DEF PlaceOf
<1>. DEFINE m == Cut(l, k)
            z == [q EXCEPT ![side] = [q[side] EXCEPT ![t] = m]]
<1>4. Holds(n, z, Freed(f, s))
  BY <1>2, LeftHolds
<1>5. \A x \in Slots \ {s} : SameOrder(n, b, x)
  BY DEF Left, Shrunk
<1>6. LevelHolds(b, side, t, l) /\ l \in Seq(Slots) /\ q \in [Sides -> [Ticks -> Seq(Slots)]]
  BY <1>1 DEF Holds
<1>7. \A d \in Sides, i \in Ticks : d # side \/ i # t => ~RestsAt(b, s, d, i)
  BY <1>1 DEF RestsAt
<1>. HIDE DEF s, p, side, t, l
<1>8. z[side][t] = m /\ \A d \in Sides, i \in Ticks : d # side \/ i # t => z[d][i] = q[d][i]
  BY <1>1, <1>6
<1>9. /\ m \in Seq(Slots) /\ Len(m) = Len(l) - 1
      /\ \A i \in 1..(Len(l) - 1) : m[i] = IF i < k THEN l[i] ELSE l[i + 1]
  BY <1>3, <1>6, CutList
<1>. HIDE DEF m, z
<1>10. OneQueue(b, n, side, t, Ranked(n, m))
  <2>1. OneQueue(b, n, side, t, Ranked(n, z[side][t]))
    BY <1>1, <1>4, <1>5, <1>7, <1>8, QueueChanges
  <2>. QED BY <1>8, <2>1
<1>11. QueuesIn(b)[side][t] = Ranked(b, l)
  <2>1. QueuesIn(b) = [d \in Sides |-> [i \in Ticks |-> Ranked(b, q[d][i])]]
    BY QueuesAreLists
  <2>. QED BY <1>1, <2>1 DEF l
<1>. DEFINE v == Ranked(b, l)
            E == {Kept(b, x) : x \in Slots}
<1>12. PICK N \in Nat : N = Len(l)
  BY <1>6
<1>13. \A i \in 1..N : l[i] \in Slots /\ (i # k => l[i] # s)
  <2>1. \A i \in 1..N : l[i] \in Slots
    BY <1>6, <1>12, ElementOfSeq
  <2>2. \A i, j \in 1..N : l[i] = l[j] => i = j
    BY <1>6, <1>12 DEF LevelHolds, ListFrom
  <2>. QED BY <1>3, <1>12, <2>1, <2>2
<1>14. v \in Seq(E) /\ Len(v) = N /\ \A i \in 1..N : v[i] = Kept(b, l[i])
  <2>1. v = [i \in 1..N |-> Kept(b, l[i])]
    BY <1>12 DEF Ranked
  <2>2. v \in [1..N -> E]
    BY <1>13, <2>1
  <2>. HIDE DEF v, E
  <2>3. v \in Seq(E) /\ Len(v) = N
    BY <1>12, <2>2
  <2>. QED BY <2>1, <2>3
<1>. HIDE DEF v, E
<1>15. ASSUME NEW i \in 1..(N - 1)
       PROVE  Kept(n, m[i]) = IF i < k THEN v[i] ELSE v[i + 1]
  <2>. DEFINE j == IF i < k THEN i ELSE i + 1
  <2>1. j \in 1..N /\ j # k /\ m[i] = l[j]
    BY <1>3, <1>9, <1>12
  <2>2. (IF i < k THEN v[i] ELSE v[i + 1]) = v[j]
    OBVIOUS
  <2>. HIDE DEF j
  <2>3. SameOrder(n, b, l[j])
    BY <1>5, <1>13, <2>1
  <2>4. Kept(n, l[j]) = Kept(b, l[j])
    BY <2>3 DEF SameOrder, Kept
  <2>. QED BY <1>14, <2>1, <2>2, <2>4
<1>16. Ranked(n, m) = SubSeq(v, 1, k - 1) \o SubSeq(v, k + 1, Len(v))
  <2>1. SubSeq(v, 1, k - 1) \o SubSeq(v, k + 1, Len(v))
          = [i \in 1..(Len(v) - 1) |-> IF i < k THEN v[i] ELSE v[i + 1]]
    BY <1>3, <1>12, <1>14, RemovedAt, ZenonT(40)
  <2>2. Ranked(n, m) = [i \in 1..(N - 1) |-> Kept(n, m[i])]
    BY <1>9, <1>12 DEF Ranked
  <2>3. Ranked(n, m) = [i \in 1..(N - 1) |-> IF i < k THEN v[i] ELSE v[i + 1]]
    BY <1>15, <2>2
  <2>. QED BY <1>14, <2>1, <2>3
<1>17. k \in 1..Len(QueuesIn(b)[side][t]) /\ QueuesIn(b)[side][t] = v
  BY <1>3, <1>11, <1>12, <1>14 DEF v
<1>18. GoneAt(b, n, side, t, k) /\ k \in Nat
  BY <1>3, <1>10, <1>16, <1>17 DEF GoneAt
<1>. QED BY <1>1, <1>18

-----------------------------------------------------------------------------
(* The refinement.                                                         *)

\* The queues of a new book are empty.
LEMMA InitRefines == Init => Abstract!Init
<1>. SUFFICES ASSUME Init PROVE Abstract!Init
  OBVIOUS
<1>1. Queues = QueuesIn(NewBook)
  BY DEF Queues, QueuesIn, Init
<1>2. QueuesIn(NewBook) = [side \in Sides |-> [t \in Ticks |-> Ranked(NewBook, NoQueues[side][t])]]
  BY NewBookHolds, QueuesAreLists
<1>3. \A side \in Sides, t \in Ticks : Ranked(NewBook, NoQueues[side][t]) = <<>>
  <2>1. Ranked(NewBook, <<>>) = <<>>
    BY DEF Ranked
  <2>. QED BY <2>1 DEF NoQueues
<1>. QED BY <1>1, <1>2, <1>3 DEF Abstract!Init, Init

\* Every step is one of the abstract book or changes nothing it knows of.
LEMMA StepRefines == IInv /\ [Next]_vars => [Abstract!Next]_(Abstract!vars)
<1>. SUFFICES ASSUME IInv, [Next]_vars PROVE [Abstract!Next]_(Abstract!vars)
  OBVIOUS
<1>0. /\ Queues = QueuesIn(book) /\ Queues' = QueuesIn(book')
      /\ lastId \in Nat /\ Live \subseteq 1..lastId
  <2>1. lastId \in Nat
    BY BookWorkload DEF IInv
  <2>. QED BY <2>1 DEF Queues, QueuesIn, IInv, Consistent, Live
<1>h. PICK q, f : Holds(book, q, f)
  BY DEF IInv, Consistent
<1>1. ASSUME NEW t \in Ticks, NEW qty \in Quantities, NEW side \in Sides, DoInsert(t, qty, side)
      PROVE  Abstract!Next
  <2>1. /\ ~Exhausted(book) /\ lastId < MaxId /\ lastId' = lastId + 1
        /\ book' = Insert(book, lastId + 1, PriceOf(t), qty, side)
    BY <1>1 DEF DoInsert
  <2>2. lastId + 1 \in Nat \ {0} /\ lastId + 1 \notin DOMAIN book.idmap /\ qty \in Nat
    BY <1>0, BookWorkload DEF Live
  <2>3. PriceOf(t) \in Int /\ TickOf(PriceOf(t)) = t
    BY TickOfPrice
  <2>4. OneQueue(book, book', side, t,
                 Append(QueuesIn(book)[side][t], [id |-> lastId + 1, qty |-> qty, filled |-> 0]))
    BY <1>h, <2>1, <2>2, <2>3, InsertQueues
  <2>5. Queues' = [Queues EXCEPT ![side][t] =
                      Append(@, [id |-> lastId + 1, qty |-> qty, filled |-> 0])]
    BY <1>0, <2>4 DEF OneQueue
  <2>6. Abstract!Insert(side, t, qty)
    BY <2>1, <2>5 DEF Abstract!Insert
  <2>. QED BY <2>6 DEF Abstract!Next
<1>2. CASE InsertPanics
  BY <1>0, <1>2 DEF InsertPanics, Abstract!vars
<1>3. ASSUME NEW id \in Live, NEW fillQty \in FillQuantities, DoUpdate(id, fillQty)
      PROVE  Abstract!Next
  <2>1. id \in DOMAIN book.idmap /\ fillQty \in Nat /\ lastId' = lastId
        /\ book' = Update(book, id, fillQty)
    BY <1>3, BookWorkload DEF Live, DoUpdate
  <2>2. PICK side \in Sides, t \in Ticks, k \in Nat : FilledAt(book, book', side, t, k, fillQty)
    BY <1>h, <2>1, UpdateQueues
  <2>3. k \in 1..Len(Queues[side][t]) /\
              LET o    == Queues[side][t][k]
                  open == o.qty - o.filled
              IN  Queues' = [Queues EXCEPT ![side][t][k].filled =
                                @ + (IF fillQty < open THEN fillQty ELSE open)]
    BY <1>0, <2>2 DEF FilledAt
  <2>4. Abstract!Update(side, t, k, fillQty)
    BY <2>1, <2>3 DEF Abstract!Update
  <2>. QED BY <2>3, <2>4 DEF Abstract!Next
<1>4. ASSUME NEW id \in Live, DoCancel(id) \/ DoFill(id)
      PROVE  Abstract!Next
  <2>1. id \in DOMAIN book.idmap /\ lastId' = lastId
    BY <1>4 DEF Live, DoCancel, DoFill
  <2>2. Left(book, book', id)
    <3>1. Left(book, Cancel(book, id), id) /\ Left(book, Fill(book, id), id)
      BY <1>h, <2>1, CancelLeaves, FillLeaves
    <3>. QED BY <1>4, <3>1 DEF DoCancel, DoFill
  <2>3. PICK side \in Sides, t \in Ticks, k \in Nat : GoneAt(book, book', side, t, k)
    BY <1>h, <2>1, <2>2, LeftQueues
  <2>4. k \in 1..Len(Queues[side][t]) /\
              LET v == Queues[side][t]
              IN  Queues' = [Queues EXCEPT ![side][t] =
                                SubSeq(v, 1, k - 1) \o SubSeq(v, k + 1, Len(v))]
    BY <1>0, <2>3 DEF GoneAt, OneQueue
  <2>5. Abstract!Depart(side, t, k)
    BY <2>1, <2>4 DEF Abstract!Depart, Abstract!RemoveAt
  <2>. QED BY <2>4, <2>5 DEF Abstract!Next
<1>5. CASE UNCHANGED vars
  BY <1>0, <1>5 DEF vars, Abstract!vars
<1>. QED BY <1>1, <1>2, <1>3, <1>4, <1>5 DEF Next

\* The linked pool with its recycled slots is a book of queues in arrival
\* order: each operation changes one queue as AbstractBook says and leaves
\* every other order where it was.
THEOREM BookRefinesAbstract == Spec => RefinesAbstractBook
<1>1. Init => Abstract!Init
  BY InitRefines
<1>2. IInv /\ [Next]_vars => [Abstract!Next]_(Abstract!vars)
  BY StepRefines
<1>. QED BY <1>1, <1>2, Invariance, PTL DEF Spec, RefinesAbstractBook, Abstract!Spec

-----------------------------------------------------------------------------
(* The driver's list.                                                      *)

\* The ids on a list.
IdsOf(l) == {l[i] : i \in 1..Len(l)}

\* The list l names the orders of the book, each once; their ids are up to n.
Matches(b, l, n) ==
    /\ l \in Seq(1..n)
    /\ DOMAIN b.idmap = IdsOf(l)
    /\ \A i, j \in 1..Len(l) : l[i] = l[j] => i = j

\* A list of the orders of the book is as long as there are orders.
LEMMA OrdersListed ==
    ASSUME NEW b, NEW n, NEW l, Matches(b, l, n)
    PROVE  Cardinality(DOMAIN b.idmap) <= Len(l)
<1>1. l \in Seq(1..n) /\ DOMAIN b.idmap = IdsOf(l) /\ Len(l) \in Nat
  BY DEF Matches
<1>2. [i \in 1..Len(l) |-> l[i]] \in Surjection(1..Len(l), IdsOf(l))
  BY <1>1 DEF Surjection, IdsOf
<1>3. ExistsSurjection(1..Len(l), IdsOf(l))
  BY <1>2 DEF ExistsSurjection
<1>. QED BY <1>1, <1>3, FS_SurjCardinalityBound

\* A sequence over S whose elements are in T.
LEMMA SeqWiden ==
    ASSUME NEW S, NEW T, NEW l \in Seq(S), \A i \in 1..Len(l) : l[i] \in T
    PROVE  l \in Seq(T)
OBVIOUS

\* Vec::swap_remove takes out one element and keeps the others, each once.
LEMMA SwapRemoved ==
    ASSUME NEW S, NEW l \in Seq(S), NEW v \in 1..Len(l),
           \A i, j \in 1..Len(l) : l[i] = l[j] => i = j
    PROVE  LET m == SwapRemove(l, v)
           IN  /\ m \in Seq(S) /\ Len(m) = Len(l) - 1
               /\ IdsOf(m) = IdsOf(l) \ {l[v]}
               /\ \A i, j \in 1..Len(m) : m[i] = m[j] => i = j
<1>. DEFINE n == Len(l)
            e == [l EXCEPT ![v] = l[n]]
            m == SwapRemove(l, v)
<1>1. n \in Nat \ {0} /\ \A i \in 1..n : l[i] \in S
  OBVIOUS
<1>2. e \in Seq(S) /\ Len(e) = n /\ \A i \in 1..n : e[i] = IF i = v THEN l[n] ELSE l[i]
  OBVIOUS
<1>3. m = SubSeq(e, 1, n - 1)
  BY <1>2 DEF SwapRemove, Front, Last
<1>. HIDE DEF e, m
<1>4. m \in Seq(S) /\ Len(m) = n - 1 /\ \A i \in 1..(n - 1) : m[i] = IF i = v THEN l[n] ELSE l[i]
  BY <1>1, <1>2, <1>3
<1>. HIDE DEF n
<1>5. \A i, j \in 1..(n - 1) : m[i] = m[j] => i = j
  BY <1>1, <1>4 DEF n
<1>6. ASSUME NEW i \in 1..(n - 1) PROVE \E j \in 1..n : j # v /\ l[j] = m[i]
  <2>1. CASE i = v
    BY <1>1, <1>4, <2>1 DEF n
  <2>2. CASE i # v
    BY <1>1, <1>4, <2>2
  <2>. QED BY <2>1, <2>2
<1>7. ASSUME NEW j \in 1..n, j # v PROVE \E i \in 1..(n - 1) : m[i] = l[j]
  <2>1. CASE j = n
    BY <1>1, <1>4, <1>7, <2>1 DEF n
  <2>2. CASE j # n
    BY <1>1, <1>4, <1>7, <2>2
  <2>. QED BY <2>1, <2>2
<1>8. {m[i] : i \in 1..(n - 1)} = {l[j] : j \in 1..n} \ {l[v]}
  <2>1. \A j \in 1..n : l[j] = l[v] <=> j = v
    BY DEF n
  <2>2. ASSUME NEW x \in {m[i] : i \in 1..(n - 1)} PROVE x \in {l[j] : j \in 1..n} \ {l[v]}
    BY <1>6, <2>1
  <2>3. ASSUME NEW x \in {l[j] : j \in 1..n} \ {l[v]} PROVE x \in {m[i] : i \in 1..(n - 1)}
    <3>1. PICK j \in 1..n : x = l[j] /\ j # v
      BY <2>1
    <3>. QED BY <1>7, <3>1
  <2>. QED BY <2>2, <2>3
<1>. QED BY <1>4, <1>5, <1>8 DEF n, m, IdsOf

-----------------------------------------------------------------------------
(* The run.                                                                *)

\* The most orders that rest at once.
Most == steady + 1 - (steady % 2)

\* How many orders rest at a point of the run.
LiveCount ==
    /\ phase = "prebuild" => Len(live) = index /\ index < steady
    /\ phase = "churn" => Len(live) = IF index % 2 = 1 THEN Most ELSE Most - 1

\* The inductive invariant.
RunInv ==
    /\ steady \in 1..SteadyMax /\ steady <= Cap
    /\ index \in Nat /\ live \in Seq(Nat)
    /\ phase \in {"prebuild", "churn", "panicked"}
    /\ Intact(primary) /\ primary.hwm <= Most
    /\ phase # "panicked" => Matches(primary, live, index) /\ LiveCount

\* The largest group the code's counter takes (65535) is odd and the largest
\* `steady` it accepts: one order more than an even `steady` still fits.
CountersSuffice == SteadyMax <= GroupMax /\ GroupMax % 2 = 1

\* Before the first op.
LEMMA InitKept == ChurnInit => RunInv
<1>. SUFFICES ASSUME ChurnInit PROVE RunInv
  OBVIOUS
<1>1. /\ steady \in 1..SteadyMax /\ steady <= Cap /\ primary = NewBook /\ live = <<>>
      /\ index = 0 /\ phase = "prebuild"
  BY DEF ChurnInit, AcceptedSteady
<1>2. DOMAIN primary.idmap = {} /\ primary.hwm = 0 /\ \A s \in Slots : primary.pool[s] = ZeroOrder
  BY <1>1 DEF NewBook
<1>3. Intact(primary)
  BY <1>1, <1>2, NewBookHolds DEF Intact
<1>4. Matches(primary, live, index)
  BY <1>1, <1>2 DEF Matches, IdsOf
<1>5. steady \in Nat /\ steady > 0 /\ Most \in Nat /\ Most >= steady
  BY <1>1, ChurnAssumption DEF Most
<1>6. LiveCount
  BY <1>1, <1>5 DEF LiveCount
<1>7. primary.hwm <= Most
  BY <1>2, <1>5
<1>. QED BY <1>1, <1>3, <1>4, <1>6, <1>7 DEF RunInv

\* What the invariant says of the numbers.
LEMMA Counts ==
    ASSUME RunInv
    PROVE  /\ steady \in Nat /\ steady > 0 /\ Most \in Nat /\ steady <= Most /\ Most <= steady + 1
           /\ Len(live) \in Nat /\ index \in Nat
           /\ phase = "prebuild" => Len(live) < Most
           /\ phase = "churn" /\ InsertDue => index % 2 = 0 /\ Len(live) = Most - 1
           /\ phase = "churn" /\ ~InsertDue => index % 2 = 1 /\ Len(live) = Most
           /\ phase # "panicked" => Len(live) <= Most
<1>1. steady \in Nat /\ steady > 0 /\ Most \in Nat /\ steady <= Most /\ Most <= steady + 1
  BY ChurnAssumption DEF RunInv, Most
<1>2. Len(live) \in Nat /\ index \in Nat
  BY DEF RunInv
<1>3. phase = "prebuild" => Len(live) < Most
  BY <1>1, <1>2 DEF RunInv, LiveCount
<1>4. index % 2 \in {0, 1}
  BY <1>2
<1>5. phase = "churn" => Len(live) = IF index % 2 = 1 THEN Most ELSE Most - 1
  BY DEF RunInv, LiveCount
<1>6. phase = "churn" /\ InsertDue => index % 2 = 0 /\ Len(live) = Most - 1
  <2>1. live = <<>> => Len(live) = 0
    OBVIOUS
  <2>. QED BY <1>1, <1>4, <1>5, <2>1 DEF InsertDue
<1>7. phase = "churn" /\ ~InsertDue => index % 2 = 1 /\ Len(live) = Most
  BY <1>4, <1>5 DEF InsertDue
<1>8. phase \in {"prebuild", "churn", "panicked"}
  BY DEF RunInv
<1>9. phase # "panicked" => Len(live) <= Most
  BY <1>1, <1>2, <1>3, <1>5, <1>8
<1>. QED BY <1>1, <1>2, <1>3, <1>6, <1>7, <1>9

\* An insert is only due while fewer orders rest than ever may: it finds a
\* freed slot, or an unused one below the bound.
LEMMA InsertOpKeeps ==
    ASSUME RunInv, phase # "panicked", Len(live) < Most,
           phase = "churn" => index % 2 = 0 /\ Len(live) = Most - 1,
           NEW t \in Ticks, NEW side \in Sides, InsertOp(t, side)
    PROVE  RunInv' /\ (Most <= Cap => ~Exhausted(primary))
<1>1. /\ steady \in Nat /\ steady > 0 /\ Most \in Nat /\ steady <= Most
      /\ Len(live) \in Nat /\ index \in Nat
  BY Counts
<1>2. /\ Intact(primary) /\ primary.hwm <= Most /\ Matches(primary, live, index) /\ live \in Seq(Nat)
      /\ steady \in 1..SteadyMax /\ steady <= Cap
  BY DEF RunInv
<1>3. /\ steady' = steady /\ Most' = Most /\ index' = index + 1 /\ live' = Append(live, index + 1)
  BY DEF InsertOp, Most
<1>4. live' \in Seq(Nat) /\ index' \in Nat
  BY <1>1, <1>2, <1>3
<1>5. primary.freeHead = NIL => primary.hwm + 1 <= Most /\ primary.hwm \in Nat
  <2>1. primary.hwm \in Nat /\ Cardinality(DOMAIN primary.idmap) \in Nat
    <3>1. primary.hwm \in Nat /\ IsFiniteSet(DOMAIN primary.idmap)
      BY <1>2, IntactBooks, IdsFinite
    <3>. QED BY <3>1, FS_CardinalityType
  <2>2. Cardinality(DOMAIN primary.idmap) <= Len(live)
    BY <1>2, OrdersListed
  <2>3. primary.freeHead = NIL => primary.hwm <= Cardinality(DOMAIN primary.idmap)
    BY <1>2, FullBook
  <2>. QED BY <1>1, <2>1, <2>2, <2>3
<1>6. Most <= Cap => ~Exhausted(primary)
  BY <1>1, <1>5, BookConfig DEF Exhausted
<1>7. CASE Exhausted(primary)
  <2>1. phase' = "panicked" /\ primary' = primary
    BY <1>7 DEF InsertOp
  <2>. QED BY <1>2, <1>3, <1>4, <1>6, <2>1 DEF RunInv
<1>8. CASE ~Exhausted(primary)
  <2>1. /\ primary' = Insert(primary, index + 1, PriceOf(t), 1, side)
        /\ phase' = IF phase = "prebuild" /\ index + 1 = steady THEN "churn" ELSE phase
    BY <1>8 DEF InsertOp
  <2>2. index + 1 \in Nat \ {0} /\ index + 1 \notin DOMAIN primary.idmap
    <3>1. \A i \in 1..Len(live) : live[i] \in 1..index
      BY <1>2, ElementOfSeq DEF Matches
    <3>. QED BY <1>1, <1>2, <3>1 DEF Matches, IdsOf
  <2>3. /\ Intact(primary')
        /\ DOMAIN primary'.idmap = DOMAIN primary.idmap \cup {index + 1}
        /\ primary'.hwm = IF primary.freeHead = NIL THEN primary.hwm + 1 ELSE primary.hwm
    BY <1>2, <1>8, <2>1, <2>2, InsertIntact
  <2>4. primary'.hwm <= Most
    BY <1>2, <1>5, <2>3
  <2>5. Matches(primary', live', index')
    <3>1. live \in Seq(1..index) /\ live \in Seq(1..(index + 1)) /\ index + 1 \in 1..(index + 1)
      <4>1. live \in Seq(1..index)
        BY <1>2 DEF Matches
      <4>2. \A i \in 1..Len(live) : live[i] \in 1..(index + 1)
        BY <1>1, <4>1, ElementOfSeq
      <4>. QED BY <1>1, <4>1, <4>2, SeqWiden
    <3>2. /\ live' \in Seq(1..(index + 1)) /\ Len(live') = Len(live) + 1
          /\ live'[Len(live) + 1] = index + 1
          /\ \A i \in 1..Len(live) : live'[i] = live[i]
      BY <1>3, <3>1
    <3>3. \A i \in 1..Len(live') : i \in 1..Len(live) \/ i = Len(live) + 1
      BY <1>1, <3>2
    <3>4. \A i \in 1..Len(live) : i \in 1..Len(live') /\ live[i] # index + 1
      <4>1. \A i \in 1..Len(live) : live[i] \in DOMAIN primary.idmap
        BY <1>2 DEF Matches, IdsOf
      <4>. QED BY <1>1, <2>2, <3>2, <4>1
    <3>5. Len(live) + 1 \in 1..Len(live')
      BY <1>1, <3>2
    <3>6. IdsOf(live') = IdsOf(live) \cup {index + 1}
      BY <3>2, <3>3, <3>4, <3>5 DEF IdsOf
    <3>7. \A i, j \in 1..Len(live') : live'[i] = live'[j] => i = j
      <4>1. \A i, j \in 1..Len(live) : live[i] = live[j] => i = j
        BY <1>2 DEF Matches
      <4>. QED BY <3>2, <3>3, <3>4, <4>1
    <3>8. DOMAIN primary.idmap = IdsOf(live)
      BY <1>2 DEF Matches
    <3>. QED BY <1>3, <2>3, <3>2, <3>6, <3>7, <3>8 DEF Matches
  <2>6. LiveCount'
    <3>1. Len(live') = Len(live) + 1
      BY <1>2, <1>3
    <3>2. CASE phase = "prebuild"
      <4>1. Len(live) = index /\ index < steady
        BY <3>2 DEF RunInv, LiveCount
      <4>2. index + 1 = steady => steady = IF steady % 2 = 1 THEN Most ELSE Most - 1
        BY <1>1 DEF Most
      <4>. QED BY <1>1, <1>3, <2>1, <3>1, <3>2, <4>1, <4>2 DEF LiveCount
    <3>3. CASE phase = "churn"
      <4>1. (index + 1) % 2 = 1 /\ Len(live) + 1 = Most
        BY <1>1, <3>3
      <4>. QED BY <1>3, <2>1, <3>1, <3>3, <4>1 DEF LiveCount
    <3>. QED BY <3>2, <3>3 DEF RunInv
  <2>7. phase' \in {"prebuild", "churn"}
    BY <2>1 DEF RunInv
  <2>. QED BY <1>2, <1>3, <1>4, <1>6, <2>3, <2>4, <2>5, <2>6, <2>7 DEF RunInv
<1>. QED BY <1>7, <1>8

\* A departure takes an order that rests, and its id off the list.
LEMMA DepartKeeps ==
    ASSUME RunInv, NEW v \in 1..Len(live), NEW isFill \in BOOLEAN, ChurnDepart(v, isFill)
    PROVE  /\ RunInv' /\ phase' = "churn"
           /\ live[v] \in DOMAIN primary.idmap
           /\ primary' = IF isFill THEN Fill(primary, live[v]) ELSE Cancel(primary, live[v])
<1>1. /\ steady \in Nat /\ Most \in Nat /\ index \in Nat /\ Len(live) = Most /\ index % 2 = 1
  BY Counts DEF ChurnDepart
<1>2. /\ Intact(primary) /\ primary.hwm <= Most /\ Matches(primary, live, index) /\ live \in Seq(Nat)
      /\ steady \in 1..SteadyMax /\ steady <= Cap
  BY DEF RunInv, ChurnDepart
<1>3. live[v] \in DOMAIN primary.idmap
  BY <1>2 DEF Matches, IdsOf
<1>4. /\ steady' = steady /\ Most' = Most /\ index' = index + 1 /\ phase' = "churn"
      /\ live' = SwapRemove(live, v)
      /\ primary' = IF isFill THEN Fill(primary, live[v]) ELSE Cancel(primary, live[v])
  BY <1>3 DEF ChurnDepart, Most
<1>5. Intact(primary') /\ DOMAIN primary'.idmap = DOMAIN primary.idmap \ {live[v]} /\ primary'.hwm = primary.hwm
  <2>1. primary' \in {Fill(primary, live[v]), Cancel(primary, live[v])}
    BY <1>4
  <2>. QED BY <1>2, <1>3, <2>1, LeftIntact
<1>6. /\ live' \in Seq(1..index) /\ Len(live') = Len(live) - 1
      /\ IdsOf(live') = IdsOf(live) \ {live[v]}
      /\ \A i, j \in 1..Len(live') : live'[i] = live'[j] => i = j
  <2>1. live \in Seq(1..index) /\ \A i, j \in 1..Len(live) : live[i] = live[j] => i = j
    BY <1>2 DEF Matches
  <2>. DEFINE m == SwapRemove(live, v)
  <2>2. /\ m \in Seq(1..index) /\ Len(m) = Len(live) - 1
        /\ IdsOf(m) = IdsOf(live) \ {live[v]}
        /\ \A i, j \in 1..Len(m) : m[i] = m[j] => i = j
    BY <2>1, SwapRemoved, Zenon
  <2>3. live' = m
    BY <1>4
  <2>. HIDE DEF m
  <2>4. live' \in Seq(1..index) /\ Len(live') = Len(live) - 1
    BY <2>2, <2>3
  <2>5. IdsOf(live') = IdsOf(live) \ {live[v]}
    BY <2>2, <2>3
  <2>6. \A i, j \in 1..Len(live') : live'[i] = live'[j] => i = j
    BY <2>2, <2>3
  <2>. QED BY <2>4, <2>5, <2>6, Zenon
<1>7. live' \in Seq(1..(index + 1)) /\ live' \in Seq(Nat)
  <2>1. \A i \in 1..Len(live') : live'[i] \in 1..(index + 1) /\ live'[i] \in Nat
    <3>1. \A i \in 1..Len(live') : live'[i] \in 1..index
      BY <1>6, ElementOfSeq
    <3>. QED BY <1>1, <3>1
  <2>. QED BY <1>6, <2>1, SeqWiden, Zenon
<1>8. Matches(primary', live', index')
  BY <1>2, <1>4, <1>5, <1>6, <1>7 DEF Matches
<1>9. LiveCount'
  <2>1. (index + 1) % 2 # 1
    BY <1>1
  <2>. QED BY <1>1, <1>4, <1>6, <2>1 DEF LiveCount
<1>. QED BY <1>1, <1>2, <1>3, <1>4, <1>5, <1>7, <1>8, <1>9 DEF RunInv

\* Every step keeps the invariant.
LEMMA StepKept == RunInv /\ [ChurnNext]_churnVars => RunInv'
<1>. SUFFICES ASSUME RunInv, [ChurnNext]_churnVars PROVE RunInv'
  OBVIOUS
<1>1. ASSUME NEW t \in Ticks, NEW side \in Sides, PrebuildStep(t, side) PROVE RunInv'
  BY <1>1, Counts, InsertOpKeeps DEF PrebuildStep
<1>2. ASSUME NEW t \in Ticks, NEW side \in Sides, ChurnInsert(t, side) PROVE RunInv'
  <2>1. Len(live) < Most /\ index % 2 = 0 /\ Len(live) = Most - 1
    BY <1>2, Counts DEF ChurnInsert
  <2>. QED BY <1>2, <2>1, InsertOpKeeps DEF ChurnInsert
<1>3. ASSUME NEW v \in 1..Len(live), NEW isFill \in BOOLEAN, ChurnDepart(v, isFill) PROVE RunInv'
  BY <1>3, DepartKeeps
<1>4. CASE TakeSnapshot
  <2>1. /\ UNCHANGED <<steady, primary, live, index>> /\ Most' = Most
        /\ phase = "churn" /\ phase' \in {"churn", "panicked"}
    BY <1>4 DEF TakeSnapshot, Most
  <2>. QED BY <2>1 DEF RunInv, LiveCount
<1>5. CASE UNCHANGED churnVars
  BY <1>5 DEF churnVars, RunInv, LiveCount, Most
<1>. QED BY <1>1, <1>2, <1>3, <1>4, <1>5 DEF ChurnNext

\* The driver's list and the id map of the book name the same orders, each
\* once: cancel and fill (ChurnOp::apply) never meet an id that is unknown or
\* already gone, whatever victims are drawn.
THEOREM DriverMatches == ChurnSpec => []LiveMatchesBook
<1>1. ChurnInit => RunInv
  BY InitKept
<1>2. RunInv /\ [ChurnNext]_churnVars => RunInv'
  BY StepKept
<1>3. RunInv => LiveMatchesBook
  BY DEF RunInv, Matches, IdsOf, LiveMatchesBook
<1>. QED BY <1>1, <1>2, <1>3, PTL DEF ChurnSpec

\* The groups of a snapshot taken during the run fit their counters.
LEMMA GroupsOfRun ==
    ASSUME CountersSuffice, RunInv, phase # "panicked"
    PROVE  GroupsFit(primary)
<1>1. Most \in Nat /\ Len(live) <= Most /\ Len(live) \in Nat /\ steady \in Nat
  BY Counts
<1>2. Intact(primary) /\ primary.hwm <= Most /\ Matches(primary, live, index) /\ steady \in 1..SteadyMax
  BY DEF RunInv
<1>3. Most <= GroupMax
  <2>1. GroupMax \in Nat /\ GroupMax % 2 = 1 /\ steady <= GroupMax
    BY <1>1, <1>2, GroupMaxAssumption, ChurnAssumption DEF CountersSuffice
  <2>2. CASE steady % 2 = 1
    BY <1>1, <2>1, <2>2 DEF Most
  <2>3. CASE steady % 2 # 1
    <3>1. steady # GroupMax
      BY <2>1, <2>3
    <3>. QED BY <1>1, <2>1, <2>3, <3>1 DEF Most
  <2>. QED BY <2>2, <2>3
<1>4. Len(OrderElems(primary)) = primary.hwm /\ primary.hwm \in Nat
  <2>1. primary.hwm \in Nat
    BY <1>2, IntactBooks
  <2>. QED BY <2>1 DEF OrderElems
<1>5. Len(LevelElems(primary)) <= primary.hwm /\ Len(LevelElems(primary)) \in Nat
  BY <1>2, LevelsFit
<1>. QED BY <1>1, <1>2, <1>3, <1>4, <1>5, GroupMaxAssumption DEF GroupsFit

\* A snapshot of every accepted configuration can be encoded: with 16-bit
\* counters and `steady` up to 65535 neither group of an image outgrows its
\* counter (encode casts the high-water mark to u16), at any op.
THEOREM EveryConfigEncodes ==
    ASSUME CountersSuffice PROVE ChurnSpec => []SnapshotEncodable
<1>1. ChurnInit => RunInv
  BY InitKept
<1>2. RunInv /\ [ChurnNext]_churnVars => RunInv'
  BY StepKept
<1>3. RunInv => SnapshotEncodable
  BY GroupsOfRun DEF SnapshotEncodable, GroupsFit
<1>. QED BY <1>1, <1>2, <1>3, PTL DEF ChurnSpec

\* With them the run never panics in a pool that is large enough, and the
\* restored book is the original.
RunSafe ==
    /\ RunInv
    /\ Most <= Cap => phase # "panicked"
    /\ joined \in BOOLEAN
    /\ joined => replica = primary

\* Before the first op.
LEMMA InitSafe == ChurnInit => RunSafe
<1>. SUFFICES ASSUME ChurnInit PROVE RunSafe
  OBVIOUS
<1>1. RunInv
  BY InitKept
<1>. QED BY <1>1 DEF ChurnInit, RunSafe

\* An insert does to the replica what it does to the book.
LEMMA InsertOpSafe ==
    ASSUME RunSafe, phase # "panicked", Len(live) < Most,
           phase = "churn" => index % 2 = 0 /\ Len(live) = Most - 1,
           NEW t \in Ticks, NEW side \in Sides, InsertOp(t, side)
    PROVE  RunSafe'
<1>1. RunInv' /\ (Most <= Cap => ~Exhausted(primary))
  BY InsertOpKeeps DEF RunSafe
<1>2. Most' = Most /\ joined' = joined
  BY DEF InsertOp, Most
<1>3. Most <= Cap => phase' # "panicked"
  <2>1. ~Exhausted(primary) => phase' \in {"churn", phase}
    BY DEF InsertOp
  <2>. QED BY <1>1, <2>1
<1>4. joined => replica' = primary'
  BY DEF InsertOp, OnReplica, RunSafe
<1>. QED BY <1>1, <1>2, <1>3, <1>4 DEF RunSafe

\* Every step keeps this.
LEMMA StepSafe ==
    ASSUME CountersSuffice, RunSafe, [ChurnNext]_churnVars PROVE RunSafe'
<1>0. RunInv /\ RunInv'
  BY StepKept DEF RunSafe
<1>1. ASSUME NEW t \in Ticks, NEW side \in Sides, PrebuildStep(t, side) PROVE RunSafe'
  BY <1>0, <1>1, Counts, InsertOpSafe DEF PrebuildStep
<1>2. ASSUME NEW t \in Ticks, NEW side \in Sides, ChurnInsert(t, side) PROVE RunSafe'
  <2>1. Len(live) < Most /\ index % 2 = 0 /\ Len(live) = Most - 1
    BY <1>0, <1>2, Counts DEF ChurnInsert
  <2>. QED BY <1>2, <2>1, InsertOpSafe DEF ChurnInsert
<1>3. ASSUME NEW v \in 1..Len(live), NEW isFill \in BOOLEAN, ChurnDepart(v, isFill) PROVE RunSafe'
  <2>1. /\ phase' = "churn" /\ live[v] \in DOMAIN primary.idmap
        /\ primary' = IF isFill THEN Fill(primary, live[v]) ELSE Cancel(primary, live[v])
    BY <1>0, <1>3, DepartKeeps
  <2>2. joined' = joined /\ (joined => replica' = primary')
    BY <1>3, <2>1 DEF ChurnDepart, OnReplica, RunSafe
  <2>. QED BY <1>0, <2>1, <2>2 DEF RunSafe
<1>4. CASE TakeSnapshot
  <2>1. phase = "churn" /\ UNCHANGED <<steady, primary, live, index>>
    BY <1>4 DEF TakeSnapshot
  <2>2. GroupsFit(primary) /\ Intact(primary)
    BY <1>0, <2>1, GroupsOfRun DEF RunInv
  <2>3. ~EncodePanics(primary) /\ Restore(Encode(primary)) = primary
    BY <2>2, ImageIs, RestoreOfEncode
  <2>4. phase' = "churn" /\ joined' = TRUE /\ replica' = primary'
    BY <1>4, <2>1, <2>3 DEF TakeSnapshot
  <2>. QED BY <1>0, <2>4 DEF RunSafe
<1>5. CASE UNCHANGED churnVars
  BY <1>0, <1>5 DEF churnVars, RunSafe, Most
<1>. QED BY <1>1, <1>2, <1>3, <1>4, <1>5 DEF ChurnNext

\* Slots are recycled: alloc_slot reaches no further into the pool than the
\* most orders that rest at once, and in a pool of that size the run never
\* panics, in alloc_slot or in a cancel, a fill or an encode.
THEOREM PoolIsEnough ==
    ASSUME CountersSuffice PROVE ChurnSpec => []PoolSuffices
<1>1. ChurnInit => RunSafe
  BY InitSafe
<1>2. RunSafe /\ [ChurnNext]_churnVars => RunSafe'
  BY StepSafe
<1>3. RunSafe => PoolSuffices
  BY DEF RunSafe, RunInv, Most, PoolSuffices
<1>. QED BY <1>1, <1>2, <1>3, PTL DEF ChurnSpec

\* A book restored from a snapshot, taken at any op, is the original one, and
\* the same operations keep it so: free list, queues, best prices and id map
\* included.
THEOREM ReplicaStaysSame ==
    ASSUME CountersSuffice PROVE ChurnSpec => []ReplicaFollows
<1>1. ChurnInit => RunSafe
  BY InitSafe
<1>2. RunSafe /\ [ChurnNext]_churnVars => RunSafe'
  BY StepSafe
<1>3. RunSafe => ReplicaFollows
  BY DEF RunSafe, ReplicaFollows
<1>. QED BY <1>1, <1>2, <1>3, PTL DEF ChurnSpec

=============================================================================
