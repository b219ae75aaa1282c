------------------------------ MODULE CowBook ------------------------------
(***************************************************************************)
(* The copy-on-write order book (rust/smr-collections/common/src/          *)
(* cowbook.rs).  Orders and price levels are cells; cells live in chunks;  *)
(* a chunk lives at a reference of the heap and carries the generation it  *)
(* was born in.  The book holds a table from chunk to reference, and so    *)
(* does every Root that capture() handed out.  order_mut and level_mut     *)
(* copy the chunk of the cell if it was born before the current            *)
(* generation, and then write IN PLACE through a raw pointer.              *)
(*                                                                         *)
(* An operation is the sequence of cell writes the code performs, and      *)
(* every write is a step of its own, because another thread may be reading *)
(* a Root at the same time.  What an operation writes is what the flat     *)
(* book's operation (BookOps) changes, in the order of the code; the       *)
(* scalars and the id map belong to the writer alone and change at once.   *)
(***************************************************************************)
EXTENDS BookOps

CONSTANTS
    OrderChunk,     \* orders per chunk (SMRC_CHUNK)
    LevelChunk,     \* levels per chunk (LEVEL_CHUNK)
    Refs,           \* heap references (Arc allocations)
    MaxId,          \* bound: number of inserts
    MaxGen,         \* bound: generation after the last capture
    Quantities,     \* quantities an insert may carry
    FillQuantities  \* quantities an update may carry

ASSUME ChunkAssumption ==
    /\ OrderChunk \in Nat \ {0}
    /\ LevelChunk \in Nat \ {0}

\* The workload draws quantities from 1..1000 and fills from 1..100; a new
\* book has generation 1.
ASSUME CowWorkload ==
    /\ Quantities \subseteq Nat
    /\ FillQuantities \subseteq Nat
    /\ MaxId \in Nat
    /\ MaxGen \in Nat \ {0}

VARIABLES
    heap,       \* [Refs -> chunk]
    table,      \* the book's chunk table
    gen,        \* the generation, bumped by every capture
    scalars,    \* hwm, best, freeHead and idmap of the book
    todo,       \* writes the current operation has still to perform
    roots,      \* the Roots alive
    flat,       \* history: a flat Book that applied the same operations
    lastId      \* id of the last insert

cowVars == <<heap, table, gen, scalars, todo, roots, flat, lastId>>

-----------------------------------------------------------------------------
(* Cells, chunks, references.                                              *)

LaneOf(side) == IF side = BID THEN "bids" ELSE "asks"
OrderCell(s) == <<"orders", s>>
LevelCell(side, t) == <<LaneOf(side), t>>

Cells == {"orders"} \X Slots \cup {"bids", "asks"} \X Ticks

ChunkOf(c) ==
    <<c[1], c[2] \div (IF c[1] = "orders" THEN OrderChunk ELSE LevelChunk)>>
Chunks == {ChunkOf(c) : c \in Cells}
CellsOf(k) == {c \in Cells : ChunkOf(c) = k}

\* The content of a reference that is not allocated: generations start at 1.
NoChunk == [born |-> 0, data |-> <<>>]

\* The heap is large enough for the chunks of a new book.
ASSUME HeapAssumption ==
    \E f \in [Chunks -> Refs] : \A j, k \in Chunks : f[j] = f[k] => j = k

\* Where the chunks of a new book are: each at a reference of its own.
FirstTable ==
    CHOOSE f \in [Chunks -> Refs] : \A j, k \in Chunks : f[j] = f[k] => j = k

\* The value of a cell seen through a chunk table.
ReadVia(tbl, c) == heap[tbl[ChunkOf(c)]].data[c]

\* References reachable from the book's table or from a Root: an Arc is
\* freed when the last of them is gone.
Held(tbl, rs) ==
    {tbl[k] : k \in Chunks} \cup UNION {{r.table[k] : k \in Chunks} : r \in rs}

Reclaim(h, tbl, rs) == [r \in Refs |-> IF r \in Held(tbl, rs) THEN h[r] ELSE NoChunk]

\* The book as a flat value, read through the tables.
View ==
    [pool     |-> [s \in Slots |-> ReadVia(table, OrderCell(s))],
     lane     |-> [side \in Sides |-> [t \in Ticks |-> ReadVia(table, LevelCell(side, t))]],
     hwm      |-> scalars.hwm,
     best     |-> scalars.best,
     freeHead |-> scalars.freeHead,
     idmap    |-> scalars.idmap]

CellOf(b, c) ==
    IF c[1] = "orders" THEN b.pool[c[2]]
    ELSE b.lane[IF c[1] = "bids" THEN BID ELSE ASK][c[2]]

ScalarsOf(b) == [hwm |-> b.hwm, best |-> b.best, freeHead |-> b.freeHead, idmap |-> b.idmap]

-----------------------------------------------------------------------------
(* Operations.                                                             *)

\* The chunk tables of a new book refer to chunks born in generation 1.
Init ==
    /\ table = FirstTable
    /\ heap = [r \in Refs |->
                  IF \E k \in Chunks : FirstTable[k] = r
                  THEN [born |-> 1,
                        data |-> [c \in CellsOf(CHOOSE k \in Chunks : FirstTable[k] = r) |->
                                    CellOf(NewBook, c)]]
                  ELSE NoChunk]
    /\ gen = 1
    /\ scalars = ScalarsOf(NewBook)
    /\ todo = <<>>
    /\ roots = {}
    /\ flat = NewBook
    /\ lastId = 0

\* The writes that turn the book into b: the named cells, in this order.
WritesOf(b, cells) ==
    [i \in 1..Len(cells) |-> [cell |-> cells[i], val |-> CellOf(b, cells[i])]]

OrderCellIf(s) == IF s = NIL THEN <<>> ELSE <<OrderCell(s)>>

\* An operation starts: its writes are queued.
Start(b, writes) ==
    /\ todo' = writes
    /\ scalars' = ScalarsOf(b)
    /\ UNCHANGED <<heap, table, gen, roots>>

BeginInsert(t, qty, side) ==
    /\ todo = <<>>
    /\ ~Exhausted(View)
    /\ lastId < MaxId
    /\ lastId' = lastId + 1
    /\ LET b    == Insert(View, lastId + 1, PriceOf(t), qty, side)
           slot == NextSlot(View)
       IN  Start(b, WritesOf(b, <<OrderCell(slot), LevelCell(side, t)>>
                                \o OrderCellIf(b.pool[slot].prev)))
    /\ flat' = Insert(flat, lastId + 1, PriceOf(t), qty, side)

BeginUpdate(id, fillQty) ==
    /\ todo = <<>>
    /\ LET b == Update(View, id, fillQty)
           s == scalars.idmap[id]
       IN  Start(b, WritesOf(b, <<OrderCell(s),
                                  LevelCell(b.pool[s].side, TickOf(b.pool[s].price))>>))
    /\ flat' = Update(flat, id, fillQty)
    /\ UNCHANGED lastId

\* The cells unlink and free_slot write.
RemovalCells(id) ==
    LET s == scalars.idmap[id]
        o == ReadVia(table, OrderCell(s))
    IN  OrderCellIf(o.prev) \o OrderCellIf(o.next)
        \o <<LevelCell(o.side, TickOf(o.price)), OrderCell(s)>>

BeginCancel(id) ==
    /\ todo = <<>>
    /\ LET b == Cancel(View, id)
       IN  Start(b, WritesOf(b, RemovalCells(id)))
    /\ flat' = Cancel(flat, id)
    /\ UNCHANGED lastId

\* fill books the quantity through order_mut before it unlinks.
BeginFill(id) ==
    /\ todo = <<>>
    /\ LET b      == Fill(View, id)
           c      == OrderCell(scalars.idmap[id])
           booked == [ReadVia(table, c) EXCEPT !.filled = ReadVia(table, c).qty]
       IN  Start(b, <<[cell |-> c, val |-> booked]>> \o WritesOf(b, RemovalCells(id)))
    /\ flat' = Fill(flat, id)
    /\ UNCHANGED lastId

-----------------------------------------------------------------------------
(* order_mut / level_mut and the write through the reference they return.  *)

\* Faulty variant: a chunk is copied only if it is two generations old.
NeedsCopyLate(k) == heap[table[k]].born < gen - 1

\* The copy decision is the epoch, never the reference count.
NeedsCopy(k) == heap[table[k]].born < gen

WriteInPlace(k, w) ==
    /\ heap' = [heap EXCEPT ![table[k]].data[w.cell] = w.val]
    /\ UNCHANGED table

\* Faulty variant: the copy starts from an empty chunk.
CopyThenWriteBlank(k, w) ==
    LET new  == CHOOSE r \in Refs : r \notin Held(table, roots)
        copy == [born |-> gen,
                 data |-> [c \in CellsOf(k) |->
                              IF c = w.cell THEN w.val ELSE CellOf(NewBook, c)]]
        tbl  == [table EXCEPT ![k] = new]
    IN  /\ table' = tbl
        /\ heap' = Reclaim([heap EXCEPT ![new] = copy], tbl, roots)

\* A fresh Arc with the chunk's content takes its place in the table; the
\* old chunk stays with the Roots that hold it, or is freed.
CopyThenWrite(k, w) ==
    LET new  == CHOOSE r \in Refs : r \notin Held(table, roots)
        copy == [born |-> gen,
                 data |-> [heap[table[k]].data EXCEPT ![w.cell] = w.val]]
        tbl  == [table EXCEPT ![k] = new]
    IN  /\ Refs \ Held(table, roots) # {}
        /\ table' = tbl
        /\ heap' = Reclaim([heap EXCEPT ![new] = copy], tbl, roots)

\* Indexing the chunk table or the chunk out of bounds would panic.
WriteCell ==
    /\ todo # <<>>
    /\ Head(todo).cell \in Cells
    /\ LET w == Head(todo)
           k == ChunkOf(w.cell)
       IN  IF NeedsCopy(k) THEN CopyThenWrite(k, w) ELSE WriteInPlace(k, w)
    /\ todo' = Tail(todo)
    /\ UNCHANGED <<gen, scalars, roots, flat, lastId>>

-----------------------------------------------------------------------------
(* capture and the end of a Root.                                          *)

\* A Root remembers, as history, the cells it was taken from.
RootOf(g) ==
    [gen     |-> g,
     table   |-> table,
     scalars |-> scalars,
     frozen  |-> [c \in Cells |-> ReadVia(table, c)]]

\* Faulty variant: the generation is not bumped.
CaptureNoBump ==
    /\ todo = <<>>
    /\ gen < MaxGen
    /\ roots' = roots \cup {RootOf(gen)}
    /\ UNCHANGED <<heap, table, gen, scalars, todo, flat, lastId>>

\* The chunk table is cloned, then the generation is bumped.
Capture ==
    /\ todo = <<>>
    /\ gen < MaxGen
    /\ roots' = roots \cup {RootOf(gen)}
    /\ gen' = gen + 1
    /\ UNCHANGED <<heap, table, scalars, todo, flat, lastId>>

\* A Root is dropped; chunks only it held are freed.
DropRoot(r) ==
    /\ roots' = roots \ {r}
    /\ heap' = Reclaim(heap, table, roots \ {r})
    /\ UNCHANGED <<table, gen, scalars, todo, flat, lastId>>

-----------------------------------------------------------------------------

Next ==
    \/ \E t \in Ticks, qty \in Quantities, side \in Sides : BeginInsert(t, qty, side)
    \/ \E id \in DOMAIN scalars.idmap : \E fillQty \in FillQuantities : BeginUpdate(id, fillQty)
    \/ \E id \in DOMAIN scalars.idmap : BeginCancel(id)
    \/ \E id \in DOMAIN scalars.idmap : BeginFill(id)
    \/ WriteCell
    \/ Capture
    \/ \E r \in roots : DropRoot(r)

Spec == Init /\ [][Next]_cowVars

-----------------------------------------------------------------------------
(* Properties.                                                             *)

\* A table leads to allocated chunks, each with the cells of its number.
WellHeld(tbl) ==
    /\ tbl \in [Chunks -> Refs]
    /\ \A k \in Chunks :
          /\ heap[tbl[k]].born \in 1..gen
          /\ DOMAIN heap[tbl[k]].data = CellsOf(k)

\* No operation indexes out of bounds.
TypeOK ==
    /\ gen \in 1..MaxGen
    /\ lastId \in 0..MaxId
    /\ \A i \in DOMAIN todo : todo[i].cell \in Cells

\* The tables of the book and of every Root lead to allocated chunks (an Arc
\* never dangles), no two entries of the book's table to the same one, and
\* nothing else is allocated (an Arc is freed with its last holder).
MemoryExact ==
    /\ WellHeld(table)
    /\ \A r \in roots : WellHeld(r.table)
    /\ \A j, k \in Chunks : table[j] = table[k] => j = k
    /\ \A r \in Refs : heap[r] # NoChunk <=> r \in Held(table, roots)

\* "a frozen Root is never mutated" (cowbook.rs, module comment): whatever
\* the writer does after the capture, and however far its current operation
\* has got, every cell read through a Root is what it was at the capture.
RootsFrozen ==
    \A r \in roots : \A c \in Cells : ReadVia(r.table, c) = r.frozen[c]

\* "current-gen chunk must be unshared" (debug_assert of order_mut and
\* level_mut): a chunk the writer may write in place is in no Root.
CurrentGenUnshared ==
    \A k \in Chunks :
        ~NeedsCopy(k) => \A r \in roots : \A j \in Chunks : r.table[j] # table[k]

\* The parts of the epoch argument (the SAFETY comment of order_mut): no
\* chunk of the book is younger than the generation, every chunk of a Root
\* is strictly older.
IsChunk(x) == x = [born |-> x.born, data |-> x.data]

Shape ==
    /\ gen \in Nat
    /\ heap = [ref \in Refs |-> heap[ref]]
    /\ table \in [Chunks -> Refs]
    /\ \A k \in Chunks : IsChunk(heap[table[k]])

BookEpochs ==
    \A k \in Chunks : heap[table[k]].born \in Nat /\ heap[table[k]].born <= gen

RootEpochs ==
    \A r \in roots :
        /\ r.table \in [Chunks -> Refs]
        /\ \A k \in Chunks : heap[r.table[k]].born \in Nat /\ heap[r.table[k]].born < gen

\* Why the epoch check is enough to keep the Roots as they were: with the
\* bounds on the ages of chunks, the frozen Roots are an inductive invariant.
EpochInv == Shape /\ BookEpochs /\ RootEpochs /\ RootsFrozen

\* "Same op semantics as Book" (cowbook.rs): between operations, the cells
\* reached through the tables are those of a flat book with the same history.
Lockstep == TypeOK /\ (todo = <<>> => View = flat)
=============================================================================
