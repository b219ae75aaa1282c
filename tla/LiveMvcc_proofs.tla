-------------------------- MODULE LiveMvcc_proofs --------------------------
(***************************************************************************)
(* The copy-on-write book never mutates a frozen Root, and the programs    *)
(* that serialize Roots beside the writer use it as it may be used.        *)
(*                                                                         *)
(* First the book by itself (CowBook), for every pool, ladder, chunk size, *)
(* heap and number of captures.  RootsFrozen is not inductive alone; it    *)
(* needs the argument of the SAFETY comment in order_mut, that a chunk of  *)
(* the current generation is in no Root.  That is EpochInv: the chunks of  *)
(* the Roots are strictly older than the generation, so the in-place       *)
(* write, which happens only at the generation, misses all of them.        *)
(* LockInv says that the book is on its way to a flat book with the same   *)
(* history: every cell holds what the flat book has there, or a queued     *)
(* write brings it.                                                        *)
(*                                                                         *)
(* Then the programs (LiveMvcc), for every number of iterations and        *)
(* trigger period and in both operation streams: they implement the book's *)
(* specification, the handover of Roots never blocks the writer, the       *)
(* serializer never reads a torn or later state, no more than three        *)
(* versions of the book are alive, and every image restores the book as it *)
(* was at the capture.                                                     *)
(***************************************************************************)
EXTENDS LiveMvcc, BookOps_proofs

-----------------------------------------------------------------------------
(* The copy-on-write book.                                                 *)

\* The chunk of a cell is a chunk of the tables (slot / chunk is in range).
LEMMA ChunkOfCell ==
    ASSUME NEW c \in Cells PROVE ChunkOf(c) \in Chunks
BY DEF Chunks

\* What the book or a Root refers to survives a reclamation (Arc counts).
LEMMA ReclaimKeeps ==
    ASSUME NEW h, NEW tbl, NEW rs, NEW ref \in Refs, ref \in Held(tbl, rs)
    PROVE  Reclaim(h, tbl, rs)[ref] = h[ref]
BY DEF Reclaim

\* Every entry of the book's table and of a Root's table is held.
LEMMA HeldEntries ==
    ASSUME NEW tbl, NEW rs, NEW ch \in Chunks
    PROVE  /\ tbl[ch] \in Held(tbl, rs)
           /\ \A r \in rs : r.table[ch] \in Held(tbl, rs)
BY DEF Held

\* CowBook::new: no Root, and every chunk is of generation 1.
LEMMA InitEpoch == Init => EpochInv
<1>. SUFFICES ASSUME Init PROVE EpochInv
  OBVIOUS
<1>1. FirstTable \in [Chunks -> Refs]
  BY HeapAssumption DEF FirstTable
<1>2. ASSUME NEW ch \in Chunks
      PROVE  IsChunk(heap[table[ch]]) /\ heap[table[ch]].born = 1
  <2>1. table[ch] \in Refs /\ FirstTable[ch] = table[ch]
    BY <1>1 DEF Init
  <2>. DEFINE D(x) == [c \in CellsOf(x) |-> CellOf(NewBook, c)]
  <2>2. heap[table[ch]] = [born |-> 1, data |-> D(CHOOSE j \in Chunks : FirstTable[j] = table[ch])]
    BY <2>1 DEF Init
  <2>. HIDE DEF D
  <2>. QED BY <2>2 DEF IsChunk
<1>3. Shape
  BY <1>1, <1>2 DEF Init, Shape
<1>4. gen = 1
  BY DEF Init
<1>5. BookEpochs
  BY <1>2, <1>4 DEF BookEpochs
<1>. QED
  BY <1>3, <1>5 DEF Init, EpochInv, RootEpochs, RootsFrozen

\* A step that touches neither the heap, the tables nor the Roots.
LEMMA StutterEpoch ==
    ASSUME EpochInv, UNCHANGED <<heap, table, gen, roots>> PROVE EpochInv'
BY DEF EpochInv, Shape, BookEpochs, RootEpochs, RootsFrozen, ReadVia

\* If no chunk of a Root changes, the Roots stay frozen and stay old.
LEMMA RootsKept ==
    ASSUME RootEpochs, RootsFrozen, gen' = gen, roots' \subseteq roots,
           \A r \in roots' : \A ch \in Chunks : heap'[r.table[ch]] = heap[r.table[ch]]
    PROVE  RootEpochs' /\ RootsFrozen'
<1>1. RootEpochs'
  BY DEF RootEpochs
<1>2. RootsFrozen'
  BY ChunkOfCell DEF RootsFrozen, ReadVia
<1>. QED BY <1>1, <1>2

\* The write of order_mut or level_mut into a chunk of this generation.
LEMMA WriteInPlaceEpoch ==
    ASSUME EpochInv, NEW ch \in Chunks, NEW w, ~NeedsCopy(ch), WriteInPlace(ch, w),
           UNCHANGED <<gen, roots>>
    PROVE  EpochInv'
<1>0. /\ table' = table /\ gen' = gen /\ roots' = roots
      /\ heap' = [heap EXCEPT ![table[ch]].data[w.cell] = w.val]
  BY DEF WriteInPlace
<1>1. table[ch] \in Refs /\ gen \in Nat
  BY DEF EpochInv, Shape
<1>2. heap[table[ch]].born = gen
  BY <1>1 DEF EpochInv, BookEpochs, NeedsCopy
<1>3. \A ref \in Refs : ref # table[ch] => heap'[ref] = heap[ref]
  BY <1>0 DEF EpochInv, Shape
<1>4. IsChunk(heap'[table[ch]]) /\ heap'[table[ch]].born = gen
  <2>. DEFINE d == [heap[table[ch]].data EXCEPT ![w.cell] = w.val]
  <2>1. heap'[table[ch]] = [heap[table[ch]] EXCEPT !.data = d]
    BY <1>0, <1>1 DEF EpochInv, Shape
  <2>2. heap[table[ch]] = [born |-> heap[table[ch]].born, data |-> heap[table[ch]].data]
    BY DEF EpochInv, Shape, IsChunk
  <2>. HIDE DEF d
  <2>3. heap'[table[ch]] = [born |-> heap[table[ch]].born, data |-> d]
    BY <2>1, <2>2
  <2>. QED BY <2>3, <1>2 DEF IsChunk
<1>5. heap' = [ref \in Refs |-> heap'[ref]]
  BY <1>0 DEF EpochInv, Shape
<1>6. ASSUME NEW j \in Chunks
      PROVE  IsChunk(heap'[table[j]]) /\ heap'[table[j]].born \in Nat /\ heap'[table[j]].born <= gen
  <2>1. table[j] \in Refs /\ IsChunk(heap[table[j]])
    BY DEF EpochInv, Shape
  <2>2. heap[table[j]].born \in Nat /\ heap[table[j]].born <= gen
    BY DEF EpochInv, BookEpochs
  <2>3. CASE table[j] = table[ch]
    BY <2>3, <1>4, <1>1
  <2>4. CASE table[j] # table[ch]
    BY <2>1, <2>2, <2>4, <1>3
  <2>. QED BY <2>3, <2>4
<1>7. ASSUME NEW r \in roots, NEW j \in Chunks
      PROVE  heap'[r.table[j]] = heap[r.table[j]]
  <2>1. r.table[j] \in Refs /\ heap[r.table[j]].born < gen
    BY DEF EpochInv, RootEpochs
  <2>2. r.table[j] # table[ch]
    BY <2>1, <1>1, <1>2
  <2>. QED BY <2>1, <2>2, <1>3
<1>8. RootEpochs' /\ RootsFrozen'
  BY <1>0, <1>7, RootsKept DEF EpochInv
<1>9. Shape'
  BY <1>0, <1>5, <1>6 DEF EpochInv, Shape
<1>10. BookEpochs'
  BY <1>0, <1>6 DEF BookEpochs
<1>. QED BY <1>8, <1>9, <1>10 DEF EpochInv

\* The write into a copy: the copy is of this generation and takes the place
\* of the old chunk in the book's table only.
LEMMA CopyThenWriteEpoch ==
    ASSUME EpochInv, NEW ch \in Chunks, NEW w, CopyThenWrite(ch, w),
           UNCHANGED <<gen, roots>>
    PROVE  EpochInv'
<1>. DEFINE new  == CHOOSE r \in Refs : r \notin Held(table, roots)
            copy == [born |-> gen,
                     data |-> [heap[table[ch]].data EXCEPT ![w.cell] = w.val]]
            tbl  == [table EXCEPT ![ch] = new]
            mid  == [heap EXCEPT ![new] = copy]
<1>0. /\ table' = tbl /\ gen' = gen /\ roots' = roots
      /\ heap' = Reclaim(mid, tbl, roots)
      /\ Refs \ Held(table, roots) # {}
  BY DEF CopyThenWrite
<1>1. new \in Refs /\ new \notin Held(table, roots)
  BY <1>0
<1>. HIDE DEF new
<1>2. copy.born = gen /\ IsChunk(copy)
  BY DEF IsChunk
<1>. HIDE DEF copy
<1>3. tbl \in [Chunks -> Refs] /\ tbl[ch] = new
      /\ \A j \in Chunks : j # ch => tbl[j] = table[j]
  BY <1>1 DEF EpochInv, Shape
<1>. HIDE DEF tbl
<1>4. mid[new] = copy /\ \A ref \in Refs : ref # new => mid[ref] = heap[ref]
  BY <1>1 DEF EpochInv, Shape
<1>. HIDE DEF mid
<1>5. heap' = [ref \in Refs |-> heap'[ref]]
  BY <1>0 DEF Reclaim
<1>6. ASSUME NEW j \in Chunks
      PROVE  IsChunk(heap'[tbl[j]]) /\ heap'[tbl[j]].born \in Nat /\ heap'[tbl[j]].born <= gen
  <2>1. heap'[tbl[j]] = mid[tbl[j]]
    BY <1>0, <1>3, HeldEntries, ReclaimKeeps
  <2>2. CASE j = ch
    <3>1. gen \in Nat
      BY DEF EpochInv, Shape
    <3>. QED BY <2>1, <2>2, <1>2, <1>3, <1>4, <3>1
  <2>3. CASE j # ch
    <3>1. table[j] \in Refs /\ table[j] # new /\ IsChunk(heap[table[j]])
      BY <1>1, HeldEntries DEF EpochInv, Shape
    <3>2. heap'[tbl[j]] = heap[table[j]]
      BY <2>1, <2>3, <1>3, <1>4, <3>1
    <3>. QED BY <3>1, <3>2 DEF EpochInv, BookEpochs
  <2>. QED BY <2>2, <2>3
<1>7. ASSUME NEW r \in roots, NEW j \in Chunks
      PROVE  heap'[r.table[j]] = heap[r.table[j]]
  <2>1. r.table[j] \in Refs
    BY DEF EpochInv, RootEpochs
  <2>2. r.table[j] # new
    BY <1>1, HeldEntries
  <2>3. heap'[r.table[j]] = mid[r.table[j]]
    BY <1>0, <2>1, HeldEntries, ReclaimKeeps
  <2>. QED BY <2>1, <2>2, <2>3, <1>4
<1>8. RootEpochs' /\ RootsFrozen'
  BY <1>0, <1>7, RootsKept DEF EpochInv
<1>9. Shape'
  BY <1>0, <1>3, <1>5, <1>6 DEF EpochInv, Shape
<1>10. BookEpochs'
  BY <1>0, <1>6 DEF BookEpochs
<1>. QED BY <1>8, <1>9, <1>10 DEF EpochInv

\* One cell write, whichever way it goes.
LEMMA WriteCellEpoch ==
    ASSUME EpochInv, WriteCell PROVE EpochInv'
<1>. DEFINE w == Head(todo)
            ch == ChunkOf(w.cell)
<1>0. ch \in Chunks
  BY ChunkOfCell DEF WriteCell
<1>1. CASE NeedsCopy(ch)
  BY <1>0, <1>1, CopyThenWriteEpoch DEF WriteCell
<1>2. CASE ~NeedsCopy(ch)
  BY <1>0, <1>2, WriteInPlaceEpoch DEF WriteCell
<1>. QED BY <1>1, <1>2

\* capture(): the Root's chunks are those of the book, and the generation
\* moves past all of them.
LEMMA CaptureEpoch ==
    ASSUME EpochInv, Capture PROVE EpochInv'
<1>0. /\ heap' = heap /\ table' = table /\ gen' = gen + 1
      /\ roots' = roots \cup {RootOf(gen)}
  BY DEF Capture
<1>1. RootOf(gen).table = table
      /\ \A c \in Cells : RootOf(gen).frozen[c] = ReadVia(table, c)
  BY DEF RootOf
<1>2. gen \in Nat /\ table \in [Chunks -> Refs]
  BY DEF EpochInv, Shape
<1>3. RootEpochs'
  BY <1>0, <1>1, <1>2 DEF EpochInv, BookEpochs, RootEpochs
<1>4. \A r \in roots' : \A c \in Cells : ReadVia(r.table, c) = r.frozen[c]
  BY <1>0, <1>1 DEF EpochInv, RootsFrozen
<1>5. RootsFrozen'
  BY <1>0, <1>4 DEF RootsFrozen, ReadVia
<1>6. BookEpochs'
  BY <1>0, <1>2 DEF EpochInv, BookEpochs
<1>7. Shape'
  BY <1>0, <1>2 DEF EpochInv, Shape
<1>. QED BY <1>3, <1>5, <1>6, <1>7 DEF EpochInv

\* A Root is dropped: what the book and the other Roots hold is not freed.
LEMMA DropRootEpoch ==
    ASSUME EpochInv, NEW r \in roots, DropRoot(r) PROVE EpochInv'
<1>0. /\ table' = table /\ gen' = gen /\ roots' = roots \ {r}
      /\ heap' = Reclaim(heap, table, roots')
  BY DEF DropRoot
<1>1. \A j \in Chunks : heap'[table[j]] = heap[table[j]]
  BY <1>0, HeldEntries, ReclaimKeeps DEF EpochInv, Shape
<1>2. ASSUME NEW q \in roots', NEW j \in Chunks
      PROVE  heap'[q.table[j]] = heap[q.table[j]]
  <2>1. q \in roots /\ q.table[j] \in Refs
    BY <1>0 DEF EpochInv, RootEpochs
  <2>2. q.table[j] \in Held(table, roots')
    BY HeldEntries
  <2>. QED BY <1>0, <2>1, <2>2, ReclaimKeeps
<1>3. heap' = [ref \in Refs |-> heap'[ref]]
  BY <1>0 DEF Reclaim
<1>4. RootEpochs' /\ RootsFrozen'
  BY <1>0, <1>2, RootsKept DEF EpochInv
<1>5. Shape'
  BY <1>0, <1>1, <1>3 DEF EpochInv, Shape
<1>6. BookEpochs'
  BY <1>0, <1>1 DEF EpochInv, BookEpochs
<1>. QED BY <1>4, <1>5, <1>6 DEF EpochInv

-----------------------------------------------------------------------------

\* Every step of the book keeps the epoch invariant.
LEMMA NextEpoch ==
    ASSUME EpochInv, [Next]_cowVars PROVE EpochInv'
<1>1. ASSUME NEW t \in Ticks, NEW qty \in Quantities, NEW side \in Sides,
             BeginInsert(t, qty, side)
      PROVE  EpochInv'
  BY <1>1, StutterEpoch DEF BeginInsert, Start
<1>2. ASSUME NEW id \in DOMAIN scalars.idmap, NEW fillQty \in FillQuantities,
             BeginUpdate(id, fillQty)
      PROVE  EpochInv'
  BY <1>2, StutterEpoch DEF BeginUpdate, Start
<1>3. ASSUME NEW id \in DOMAIN scalars.idmap, BeginCancel(id) PROVE EpochInv'
  BY <1>3, StutterEpoch DEF BeginCancel, Start
<1>4. ASSUME NEW id \in DOMAIN scalars.idmap, BeginFill(id) PROVE EpochInv'
  BY <1>4, StutterEpoch DEF BeginFill, Start
<1>5. ASSUME NEW r \in roots, DropRoot(r) PROVE EpochInv'
  BY <1>5, DropRootEpoch
<1>6. CASE UNCHANGED cowVars
  BY <1>6, StutterEpoch DEF cowVars
<1>. QED
  BY <1>1, <1>2, <1>3, <1>4, <1>5, <1>6, WriteCellEpoch, CaptureEpoch DEF Next

-----------------------------------------------------------------------------
(* Memory.                                                                 *)

\* Reclaiming frees what is not held.
LEMMA ReclaimFrees ==
    ASSUME NEW h, NEW tbl, NEW rs, NEW ref \in Refs, ref \notin Held(tbl, rs)
    PROVE  Reclaim(h, tbl, rs)[ref] = NoChunk
BY DEF Reclaim

\* What has been born is no free reference.
LEMMA BornIsChunk == ASSUME NEW x, NEW g, x.born \in 1..g, g \in Nat PROVE x # NoChunk
<1>1. NoChunk.born = 0
  BY DEF NoChunk
<1>. QED BY <1>1

\* A new book: its chunks, each at a reference of its own.
LEMMA InitMemory == Init => MemoryExact
<1>. SUFFICES ASSUME Init PROVE MemoryExact
  OBVIOUS
<1>0. roots = {} /\ gen = 1 /\ table = FirstTable
  BY DEF Init
<1>1. FirstTable \in [Chunks -> Refs] /\ \A i, j \in Chunks : FirstTable[i] = FirstTable[j] => i = j
  BY HeapAssumption DEF FirstTable
<1>2. ASSUME NEW ch \in Chunks
      PROVE  heap[table[ch]].born = 1 /\ DOMAIN heap[table[ch]].data = CellsOf(ch)
  <2>1. table[ch] \in Refs /\ FirstTable[ch] = table[ch]
    BY <1>0, <1>1
  <2>2. ch = CHOOSE j \in Chunks : FirstTable[j] = table[ch]
    BY <1>1, <2>1
  <2>3. heap[table[ch]] = [born |-> 1, data |-> [c \in CellsOf(CHOOSE j \in Chunks : FirstTable[j] = table[ch]) |->
                                                   CellOf(NewBook, c)]]
    BY <2>1 DEF Init
  <2>4. heap[table[ch]] = [born |-> 1, data |-> [c \in CellsOf(ch) |-> CellOf(NewBook, c)]]
    BY <2>2, <2>3
  <2>. DEFINE d == [c \in CellsOf(ch) |-> CellOf(NewBook, c)]
  <2>5. DOMAIN d = CellsOf(ch)
    OBVIOUS
  <2>. HIDE DEF d
  <2>. QED BY <2>4, <2>5
<1>3. WellHeld(table)
  BY <1>0, <1>1, <1>2 DEF WellHeld
<1>4. ASSUME NEW ref \in Refs PROVE heap[ref] # NoChunk <=> ref \in Held(table, roots)
  <2>1. ref \in Held(table, roots) <=> \E ch \in Chunks : FirstTable[ch] = ref
    BY <1>0 DEF Held
  <2>2. CASE \E ch \in Chunks : FirstTable[ch] = ref
    BY <1>0, <1>2, <2>1, <2>2, BornIsChunk
  <2>3. CASE ~\E ch \in Chunks : FirstTable[ch] = ref
    <3>1. heap[ref] = NoChunk
      BY <2>3 DEF Init
    <3>. QED BY <2>1, <2>3, <3>1
  <2>. QED BY <2>2, <2>3
<1>. QED BY <1>0, <1>1, <1>3, <1>4 DEF MemoryExact

\* A step that leaves the heap and its holders alone.
LEMMA StutterMemory ==
    ASSUME MemoryExact, UNCHANGED <<heap, table, gen, roots>> PROVE MemoryExact'
BY DEF MemoryExact, WellHeld

\* What the holders see stays well held.
LEMMA WellHeldKept ==
    ASSUME NEW tbl, WellHeld(tbl), gen \in Nat, gen' \in Nat, gen <= gen',
           \A ch \in Chunks : heap'[tbl[ch]] = heap[tbl[ch]]
    PROVE  WellHeld(tbl)'
BY DEF WellHeld

\* The write in place.
LEMMA WriteInPlaceMemory ==
    ASSUME EpochInv, MemoryExact, NEW ch \in Chunks, NEW w, ~NeedsCopy(ch), WriteInPlace(ch, w),
           UNCHANGED <<gen, roots>>
    PROVE  MemoryExact'
<1>0. /\ table' = table /\ gen' = gen /\ roots' = roots
      /\ heap' = [heap EXCEPT ![table[ch]].data[w.cell] = w.val]
  BY DEF WriteInPlace
<1>1. table[ch] \in Refs /\ gen \in Nat
  BY DEF EpochInv, Shape
<1>2. \A ref \in Refs : ref # table[ch] => heap'[ref] = heap[ref]
  BY <1>0 DEF EpochInv, Shape
<1>3. heap'[table[ch]].born = heap[table[ch]].born /\ DOMAIN heap'[table[ch]].data = DOMAIN heap[table[ch]].data
  <2>. DEFINE d == [heap[table[ch]].data EXCEPT ![w.cell] = w.val]
  <2>1. heap'[table[ch]] = [heap[table[ch]] EXCEPT !.data = d]
    BY <1>0, <1>1 DEF EpochInv, Shape
  <2>2. heap[table[ch]] = [born |-> heap[table[ch]].born, data |-> heap[table[ch]].data]
    BY DEF EpochInv, Shape, IsChunk
  <2>3. DOMAIN d = DOMAIN heap[table[ch]].data
    OBVIOUS
  <2>. HIDE DEF d
  <2>4. heap'[table[ch]] = [born |-> heap[table[ch]].born, data |-> d]
    BY <2>1, <2>2
  <2>. QED BY <2>3, <2>4
<1>4. ASSUME NEW tbl, WellHeld(tbl) PROVE WellHeld(tbl)'
  <2>1. \A j \in Chunks : tbl[j] \in Refs
    BY <1>4 DEF WellHeld
  <2>2. \A j \in Chunks : /\ heap'[tbl[j]].born = heap[tbl[j]].born
                          /\ DOMAIN heap'[tbl[j]].data = DOMAIN heap[tbl[j]].data
    BY <1>2, <1>3, <2>1
  <2>. QED BY <1>0, <1>4, <2>2 DEF WellHeld
<1>5. WellHeld(table)' /\ \A r \in roots' : WellHeld(r.table)'
  BY <1>0, <1>4 DEF MemoryExact, WellHeld
<1>6. ASSUME NEW ref \in Refs PROVE heap'[ref] # NoChunk <=> ref \in Held(table, roots)
  <2>1. CASE ref = table[ch]
    <3>1. ref \in Held(table, roots)
      BY <2>1, HeldEntries
    <3>2. heap'[ref].born \in 1..gen
      BY <1>3, <2>1 DEF MemoryExact, WellHeld
    <3>. QED BY <1>1, <3>1, <3>2, BornIsChunk
  <2>2. CASE ref # table[ch]
    BY <1>2, <2>2 DEF MemoryExact
  <2>. QED BY <2>1, <2>2
<1>7. Held(table, roots)' = Held(table, roots)
  BY <1>0 DEF Held
<1>. QED BY <1>0, <1>5, <1>6, <1>7 DEF MemoryExact

\* The write into a copy: the old chunk is freed unless a Root holds it.
LEMMA CopyThenWriteMemory ==
    ASSUME EpochInv, MemoryExact, NEW ch \in Chunks, NEW w, CopyThenWrite(ch, w),
           UNCHANGED <<gen, roots>>, gen >= 1
    PROVE  MemoryExact'
<1>. DEFINE new  == CHOOSE r \in Refs : r \notin Held(table, roots)
            data == [heap[table[ch]].data EXCEPT ![w.cell] = w.val]
            copy == [born |-> gen, data |-> data]
            tbl  == [table EXCEPT ![ch] = new]
            mid  == [heap EXCEPT ![new] = copy]
<1>0. /\ table' = tbl /\ gen' = gen /\ roots' = roots
      /\ heap' = Reclaim(mid, tbl, roots)
      /\ Refs \ Held(table, roots) # {}
  BY DEF CopyThenWrite
<1>1. new \in Refs /\ new \notin Held(table, roots)
  BY <1>0
<1>. HIDE DEF new
<1>2. gen \in Nat /\ gen \in 1..gen
  BY DEF EpochInv, Shape
<1>3. DOMAIN data = CellsOf(ch)
  BY DEF MemoryExact, WellHeld
<1>. HIDE DEF data
<1>4. copy.born = gen /\ copy.data = data
  OBVIOUS
<1>. HIDE DEF copy
<1>5. tbl \in [Chunks -> Refs] /\ tbl[ch] = new
      /\ \A j \in Chunks : j # ch => tbl[j] = table[j]
  BY <1>1 DEF EpochInv, Shape
<1>. HIDE DEF tbl
<1>6. mid[new] = copy /\ \A ref \in Refs : ref # new => mid[ref] = heap[ref]
  BY <1>1 DEF EpochInv, Shape
<1>. HIDE DEF mid
<1>7. ASSUME NEW j \in Chunks
      PROVE  heap'[tbl[j]].born \in 1..gen /\ DOMAIN heap'[tbl[j]].data = CellsOf(j)
  <2>1. heap'[tbl[j]] = mid[tbl[j]]
    BY <1>0, <1>5, HeldEntries, ReclaimKeeps
  <2>2. CASE j = ch
    BY <2>1, <2>2, <1>2, <1>3, <1>4, <1>5, <1>6
  <2>3. CASE j # ch
    <3>1. table[j] \in Refs /\ table[j] # new
      BY <1>1, HeldEntries DEF EpochInv, Shape
    <3>2. heap'[tbl[j]] = heap[table[j]]
      BY <2>1, <2>3, <1>5, <1>6, <3>1
    <3>. QED BY <3>2 DEF MemoryExact, WellHeld
  <2>. QED BY <2>2, <2>3
<1>8. WellHeld(table)'
  BY <1>0, <1>5, <1>7 DEF WellHeld
<1>9. ASSUME NEW r \in roots PROVE WellHeld(r.table)'
  <2>1. ASSUME NEW j \in Chunks PROVE heap'[r.table[j]] = heap[r.table[j]]
    <3>1. r.table[j] \in Refs
      BY DEF EpochInv, RootEpochs
    <3>2. r.table[j] # new
      BY <1>1, HeldEntries
    <3>3. heap'[r.table[j]] = mid[r.table[j]]
      BY <1>0, <3>1, HeldEntries, ReclaimKeeps
    <3>. QED BY <3>1, <3>2, <3>3, <1>6
  <2>2. WellHeld(r.table)
    BY DEF MemoryExact
  <2>. QED BY <1>0, <2>1, <2>2 DEF WellHeld
<1>10. \A i, j \in Chunks : tbl[i] = tbl[j] => i = j
  <2>1. \A j \in Chunks : table[j] # new
    BY <1>1, HeldEntries
  <2>. QED BY <1>5, <2>1 DEF MemoryExact
<1>11. ASSUME NEW ref \in Refs PROVE heap'[ref] # NoChunk <=> ref \in Held(tbl, roots)
  <2>1. CASE ref \notin Held(tbl, roots)
    <3>1. heap'[ref] = NoChunk
      BY <1>0, <2>1, ReclaimFrees
    <3>. QED BY <2>1, <3>1
  <2>2. CASE ref \in Held(tbl, roots)
    <3>1. heap'[ref] = mid[ref]
      BY <1>0, <2>2, ReclaimKeeps
    <3>2. CASE ref = new
      BY <1>2, <1>4, <1>6, <2>2, <3>1, <3>2, BornIsChunk
    <3>3. CASE ref # new
      <4>1. ref \in Held(table, roots)
        BY <1>5, <2>2, <3>3 DEF Held
      <4>. QED BY <1>6, <2>2, <3>1, <3>3, <4>1 DEF MemoryExact
    <3>. QED BY <3>2, <3>3
  <2>. QED BY <2>1, <2>2
<1>12. Held(table, roots)' = Held(tbl, roots)
  BY <1>0 DEF Held
<1>. QED BY <1>0, <1>8, <1>9, <1>10, <1>11, <1>12 DEF MemoryExact

\* capture() holds the book's own chunks once more.
LEMMA CaptureMemory ==
    ASSUME EpochInv, MemoryExact, Capture PROVE MemoryExact'
<1>0. /\ heap' = heap /\ table' = table /\ gen' = gen + 1
      /\ roots' = roots \cup {RootOf(gen)} /\ RootOf(gen).table = table
  BY DEF Capture, RootOf
<1>1. gen \in Nat
  BY DEF EpochInv, Shape
<1>2. ASSUME NEW tbl, WellHeld(tbl) PROVE WellHeld(tbl)'
  BY <1>0, <1>1, <1>2, WellHeldKept
<1>3. WellHeld(table)' /\ \A r \in roots' : WellHeld(r.table)'
  <2>1. WellHeld(table)'
    BY <1>0, <1>1 DEF MemoryExact, WellHeld
  <2>2. ASSUME NEW r \in roots' PROVE WellHeld(r.table)'
    <3>1. WellHeld(r.table)
      BY <1>0 DEF MemoryExact
    <3>. QED BY <1>0, <1>1, <3>1 DEF WellHeld
  <2>. QED BY <2>1, <2>2
<1>4. Held(table, roots)' = Held(table, roots)
  BY <1>0 DEF Held
<1>. QED BY <1>0, <1>3, <1>4 DEF MemoryExact

\* A Root dropped frees exactly what only it held.
LEMMA DropRootMemory ==
    ASSUME EpochInv, MemoryExact, NEW r \in roots, DropRoot(r) PROVE MemoryExact'
<1>0. /\ table' = table /\ gen' = gen /\ roots' = roots \ {r}
      /\ heap' = Reclaim(heap, table, roots')
  BY DEF DropRoot
<1>1. gen \in Nat /\ \A j \in Chunks : table[j] \in Refs
  BY DEF EpochInv, Shape
<1>2. WellHeld(table)'
  <2>1. \A j \in Chunks : heap'[table[j]] = heap[table[j]]
    BY <1>0, <1>1, HeldEntries, ReclaimKeeps
  <2>. QED BY <1>0, <2>1 DEF MemoryExact, WellHeld
<1>3. ASSUME NEW q \in roots' PROVE WellHeld(q.table)'
  <2>1. q \in roots /\ \A j \in Chunks : q.table[j] \in Refs
    BY <1>0 DEF EpochInv, RootEpochs
  <2>2. ASSUME NEW j \in Chunks PROVE heap'[q.table[j]] = heap[q.table[j]]
    <3>1. q.table[j] \in Held(table, roots')
      BY HeldEntries
    <3>. QED BY <1>0, <2>1, <3>1, ReclaimKeeps
  <2>3. WellHeld(q.table)
    BY <2>1 DEF MemoryExact
  <2>. QED BY <1>0, <2>2, <2>3 DEF WellHeld
<1>4. ASSUME NEW ref \in Refs PROVE heap'[ref] # NoChunk <=> ref \in Held(table, roots')
  <2>1. CASE ref \notin Held(table, roots')
    <3>1. heap'[ref] = NoChunk
      BY <1>0, <2>1, ReclaimFrees
    <3>. QED BY <2>1, <3>1
  <2>2. CASE ref \in Held(table, roots')
    <3>1. heap'[ref] = heap[ref]
      BY <1>0, <2>2, ReclaimKeeps
    <3>2. ref \in Held(table, roots)
      BY <1>0, <2>2 DEF Held
    <3>. QED BY <2>2, <3>1, <3>2 DEF MemoryExact
  <2>. QED BY <2>1, <2>2
<1>5. Held(table, roots)' = Held(table, roots')
  BY <1>0 DEF Held
<1>. QED BY <1>0, <1>2, <1>3, <1>4, <1>5 DEF MemoryExact

\* Every step of the book keeps its memory exact.
LEMMA NextMemory ==
    ASSUME EpochInv, MemoryExact, gen >= 1, [Next]_cowVars PROVE MemoryExact' /\ gen' >= 1
<1>1. ASSUME NEW t \in Ticks, NEW qty \in Quantities, NEW side \in Sides,
             BeginInsert(t, qty, side)
      PROVE  MemoryExact' /\ gen' >= 1
  BY <1>1, StutterMemory DEF BeginInsert, Start
<1>2. ASSUME NEW id \in DOMAIN scalars.idmap, NEW fillQty \in FillQuantities,
             BeginUpdate(id, fillQty)
      PROVE  MemoryExact' /\ gen' >= 1
  BY <1>2, StutterMemory DEF BeginUpdate, Start
<1>3. ASSUME NEW id \in DOMAIN scalars.idmap, BeginCancel(id) PROVE MemoryExact' /\ gen' >= 1
  BY <1>3, StutterMemory DEF BeginCancel, Start
<1>4. ASSUME NEW id \in DOMAIN scalars.idmap, BeginFill(id) PROVE MemoryExact' /\ gen' >= 1
  BY <1>4, StutterMemory DEF BeginFill, Start
<1>5. ASSUME NEW r \in roots, DropRoot(r) PROVE MemoryExact' /\ gen' >= 1
  <2>1. gen' = gen
    BY <1>5 DEF DropRoot
  <2>. QED BY <1>5, <2>1, DropRootMemory
<1>6. CASE UNCHANGED cowVars
  BY <1>6, StutterMemory DEF cowVars
<1>7. CASE WriteCell
  <2>. DEFINE w == Head(todo)
              ch == ChunkOf(w.cell)
  <2>0. ch \in Chunks /\ gen' = gen /\ roots' = roots
    BY <1>7, ChunkOfCell DEF WriteCell
  <2>1. CASE NeedsCopy(ch)
    <3>1. CopyThenWrite(ch, w)
      BY <1>7, <2>1 DEF WriteCell
    <3>. HIDE DEF w, ch
    <3>. QED BY <2>0, <3>1, CopyThenWriteMemory
  <2>2. CASE ~NeedsCopy(ch)
    <3>1. WriteInPlace(ch, w)
      BY <1>7, <2>2 DEF WriteCell
    <3>. HIDE DEF w, ch
    <3>. QED BY <2>0, <2>2, <3>1, WriteInPlaceMemory
  <2>. QED BY <2>1, <2>2
<1>8. CASE Capture
  <2>1. gen' = gen + 1 /\ gen \in Nat
    BY <1>8 DEF Capture, EpochInv, Shape
  <2>. QED BY <1>8, <2>1, CaptureMemory
<1>. QED
  BY <1>1, <1>2, <1>3, <1>4, <1>5, <1>6, <1>7, <1>8 DEF Next

-----------------------------------------------------------------------------

\* The epoch invariant holds in every state of the copy-on-write book.
THEOREM SpecEpoch == Spec => []EpochInv
<1>1. Init => EpochInv
  BY InitEpoch
<1>2. EpochInv /\ [Next]_cowVars => EpochInv'
  BY NextEpoch
<1>. QED BY <1>1, <1>2, PTL DEF Spec

\* "a frozen Root is never mutated" (cowbook.rs): every cell of every Root
\* reads, at every step of every operation, as it did at the capture.
THEOREM SpecRootsFrozen == Spec => []RootsFrozen
<1>1. EpochInv => RootsFrozen
  BY DEF EpochInv
<1>. QED BY <1>1, SpecEpoch, PTL

\* "current-gen chunk must be unshared": the debug_assert of order_mut and
\* level_mut can never fail, so the write through Arc::as_ptr is exclusive.
THEOREM SpecCurrentGenUnshared == Spec => []CurrentGenUnshared
<1>1. EpochInv => CurrentGenUnshared
  <2>. SUFFICES ASSUME EpochInv, NEW ch \in Chunks, ~NeedsCopy(ch),
                       NEW r \in roots, NEW j \in Chunks
                PROVE  r.table[j] # table[ch]
    BY DEF CurrentGenUnshared
  <2>1. gen \in Nat
    BY DEF EpochInv, Shape
  <2>2. heap[table[ch]].born = gen
    BY <2>1 DEF EpochInv, BookEpochs, NeedsCopy
  <2>3. heap[r.table[j]].born < gen
    BY DEF EpochInv, RootEpochs
  <2>. QED BY <2>1, <2>2, <2>3
<1>. QED BY <1>1, SpecEpoch, PTL

\* The Arcs of the book: no table ever leads to a freed chunk, each chunk of a
\* table has the cells of its number, and a chunk is freed as soon as neither
\* the book nor a Root holds it.
THEOREM SpecMemoryExact == Spec => []MemoryExact
<1>1. Init => MemoryExact /\ gen >= 1
  BY InitMemory DEF Init
<1>2. EpochInv /\ MemoryExact /\ gen >= 1 /\ [Next]_cowVars => (MemoryExact /\ gen >= 1)'
  BY NextMemory
<1>. QED BY <1>1, <1>2, SpecEpoch, PTL DEF Spec

-----------------------------------------------------------------------------
(* What an operation writes is what it changes.                            *)

\* What a cell can hold, and a write.
Contents == Orders \cup PriceLevels
CellWrites == [cell : Cells, val : Contents]

\* The cells are the orders of the slots and the levels of the two ladders.
LEMMA CellsAre ==
    /\ \A s \in Slots : /\ OrderCell(s) \in Cells
                        /\ \A b : CellOf(b, OrderCell(s)) = b.pool[s]
    /\ \A side \in Sides, t \in Ticks : /\ LevelCell(side, t) \in Cells
                                        /\ \A b : CellOf(b, LevelCell(side, t)) = b.lane[side][t]
    /\ \A c \in Cells : \/ \E s \in Slots : c = OrderCell(s)
                        \/ \E side \in Sides, t \in Ticks : c = LevelCell(side, t)
<1>1. \A s \in Slots : OrderCell(s) \in Cells /\ \A b : CellOf(b, OrderCell(s)) = b.pool[s]
  BY DEF OrderCell, Cells, CellOf
<1>2. LaneOf(BID) = "bids" /\ LaneOf(ASK) = "asks" /\ Sides = {BID, ASK} /\ BID # ASK
  BY DEF LaneOf, Sides, BID, ASK
<1>3. ASSUME NEW side \in Sides, NEW t \in Ticks
      PROVE  LevelCell(side, t) \in Cells /\ \A b : CellOf(b, LevelCell(side, t)) = b.lane[side][t]
  <2>1. CASE side = BID
    BY <1>2, <2>1 DEF LevelCell, Cells, CellOf
  <2>2. CASE side = ASK
    BY <1>2, <2>2 DEF LevelCell, Cells, CellOf
  <2>. QED BY <1>2, <2>1, <2>2
<1>4. ASSUME NEW c \in Cells
      PROVE  \/ \E s \in Slots : c = OrderCell(s)
             \/ \E side \in Sides, t \in Ticks : c = LevelCell(side, t)
  <2>1. CASE c \in {"orders"} \X Slots
    BY <2>1 DEF OrderCell
  <2>2. CASE c \in {"bids", "asks"} \X Ticks
    <3>1. PICK lane \in {"bids", "asks"}, t \in Ticks : c = <<lane, t>>
      BY <2>2
    <3>2. PICK side \in Sides : LaneOf(side) = lane
      BY <1>2
    <3>. QED BY <3>1, <3>2 DEF LevelCell
  <2>. QED BY <2>1, <2>2 DEF Cells
<1>. QED BY <1>1, <1>3, <1>4

\* A cell of a typed book has contents.
LEMMA CellTyped ==
    ASSUME NEW b \in Books, NEW c \in Cells
    PROVE  CellOf(b, c) \in Contents
<1>1. ASSUME NEW s \in Slots, c = OrderCell(s) PROVE CellOf(b, c) \in Contents
  <2>1. b.pool[s] \in Orders
    BY DEF Books, Pools
  <2>. QED BY <1>1, <2>1, CellsAre DEF Contents
<1>2. ASSUME NEW side \in Sides, NEW t \in Ticks, c = LevelCell(side, t) PROVE CellOf(b, c) \in Contents
  <2>1. b.lane[side][t] \in PriceLevels
    BY DEF Books, Lanes
  <2>. QED BY <1>2, <2>1, CellsAre DEF Contents
<1>. QED BY <1>1, <1>2, CellsAre

\* The cell c is on the list.
Listed(c, cells) == \E i \in 1..Len(cells) : cells[i] = c

\* Two lists of cells, one after the other.
LEMMA ListedTwice ==
    ASSUME NEW s \in Seq(Cells), NEW v \in Seq(Cells)
    PROVE  /\ s \o v \in Seq(Cells) /\ Len(s \o v) = Len(s) + Len(v)
           /\ \A c : Listed(c, s) \/ Listed(c, v) => Listed(c, s \o v)
           /\ Len(v) # 0 => (s \o v)[Len(s \o v)] = v[Len(v)]
<1>. DEFINE w == s \o v
<1>1. w \in Seq(Cells) /\ Len(w) = Len(s) + Len(v) /\ Len(s) \in Nat /\ Len(v) \in Nat
  OBVIOUS
<1>2. \A i \in 1..(Len(s) + Len(v)) : w[i] = IF i <= Len(s) THEN s[i] ELSE v[i - Len(s)]
  OBVIOUS
<1>. HIDE DEF w
<1>3. ASSUME NEW c, NEW i \in 1..Len(s), s[i] = c PROVE Listed(c, w)
  <2>1. i \in 1..Len(w) /\ w[i] = c
    BY <1>1, <1>2, <1>3
  <2>. QED BY <2>1 DEF Listed
<1>4. ASSUME NEW i \in 1..Len(v) PROVE Len(s) + i \in 1..Len(w) /\ w[Len(s) + i] = v[i]
  <2>1. Len(s) + i \in 1..Len(w) /\ ~(Len(s) + i <= Len(s)) /\ (Len(s) + i) - Len(s) = i
    BY <1>1
  <2>. QED BY <1>1, <1>2, <2>1
<1>5. ASSUME NEW c, NEW i \in 1..Len(v), v[i] = c PROVE Listed(c, w)
  BY <1>4, <1>5 DEF Listed
<1>6. Len(v) # 0 => w[Len(w)] = v[Len(v)]
  <2>1. Len(v) # 0 => Len(v) \in 1..Len(v)
    BY <1>1
  <2>. QED BY <1>1, <1>4, <2>1
<1>. QED BY <1>1, <1>3, <1>5, <1>6 DEF w, Listed

\* A neighbour, if there is one.
LEMMA NeighbourListed ==
    ASSUME NEW s \in Slots \cup {NIL}
    PROVE  OrderCellIf(s) \in Seq(Cells) /\ (s # NIL => Listed(OrderCell(s), OrderCellIf(s)))
<1>1. CASE s = NIL
  BY <1>1 DEF OrderCellIf
<1>2. CASE s # NIL
  <2>1. OrderCell(s) \in Cells /\ OrderCellIf(s) = <<OrderCell(s)>>
    BY <1>2, CellsAre DEF OrderCellIf
  <2>2. Len(OrderCellIf(s)) = 1 /\ OrderCellIf(s)[1] = OrderCell(s)
    BY <2>1
  <2>. QED BY <2>1, <2>2 DEF Listed
<1>. QED BY <1>1, <1>2

\* An order and a level, in either order.
LEMMA PairListed ==
    ASSUME NEW c \in Cells, NEW d \in Cells
    PROVE  LET l == <<c, d>>
           IN  l \in Seq(Cells) /\ Len(l) = 2 /\ l[2] = d /\ Listed(c, l) /\ Listed(d, l)
<1>. DEFINE l == <<c, d>>
<1>1. l \in Seq(Cells) /\ Len(l) = 2 /\ l[1] = c /\ l[2] = d
  OBVIOUS
<1>. HIDE DEF l
<1>2. Listed(c, l) /\ Listed(d, l)
  BY <1>1 DEF Listed
<1>. QED BY <1>1, <1>2 DEF l

\* The book n differs from b in these cells only.
DiffersIn(b, n, cells) ==
    cells \in Seq(Cells) /\ \A c \in Cells : ~Listed(c, cells) => CellOf(n, c) = CellOf(b, c)

\* It differs in these slots and this level only.
DiffersAt(b, n, slots, side, t) ==
    /\ \A x \in Slots \ slots : n.pool[x] = b.pool[x]
    /\ \A d \in Sides, j \in Ticks : d # side \/ j # t => n.lane[d][j] = b.lane[d][j]

\* Then it is enough that these are on the list.
LEMMA DiffersInCells ==
    ASSUME NEW b, NEW n, NEW slots, NEW side, NEW t, DiffersAt(b, n, slots, side, t),
           NEW cells \in Seq(Cells),
           \A x \in Slots \cap slots : Listed(OrderCell(x), cells),
           Listed(LevelCell(side, t), cells)
    PROVE  DiffersIn(b, n, cells)
<1>. SUFFICES ASSUME NEW c \in Cells, ~Listed(c, cells)
              PROVE  CellOf(n, c) = CellOf(b, c)
  BY DEF DiffersIn
<1>1. ASSUME NEW x \in Slots, c = OrderCell(x) PROVE CellOf(n, c) = CellOf(b, c)
  <2>1. n.pool[x] = b.pool[x]
    BY <1>1 DEF DiffersAt
  <2>. QED BY <1>1, <2>1, CellsAre
<1>2. ASSUME NEW d \in Sides, NEW j \in Ticks, c = LevelCell(d, j) PROVE CellOf(n, c) = CellOf(b, c)
  <2>1. n.lane[d][j] = b.lane[d][j]
    BY <1>2 DEF DiffersAt
  <2>. QED BY <1>2, <2>1, CellsAre
<1>. QED BY <1>1, <1>2, CellsAre

\* insert writes the new order, its level and the order it is linked to.
LEMMA InsertDiffers ==
    ASSUME NEW b, Intact(b), ~Exhausted(b),
           NEW id \in Nat \ {0}, NEW t \in Ticks, NEW qty \in Nat, NEW side \in Sides
    PROVE  LET n == Insert(b, id, PriceOf(t), qty, side)
               s == NextSlot(b)
           IN  DiffersIn(b, n, <<OrderCell(s), LevelCell(side, t)>> \o OrderCellIf(n.pool[s].prev))
<1>. DEFINE p == PriceOf(t)
            n == Insert(b, id, p, qty, side)
            s == NextSlot(b)
            o == NewOrder(b, id, p, qty, side)
            tail == b.lane[side][t].tail
<1>1. PICK q, f : Holds(b, q, f)
  BY DEF Intact
<1>2. p \in Int /\ TickOf(p) = t
  BY TickOfPrice
<1>. HIDE DEF p
<1>3. s \in Slots /\ s # tail
  BY <1>1, NextSlotIsFree
<1>4. Inserted(b, n, s, t, o) /\ b \in Books
  BY <1>1, <1>2, InsertEffect DEF Holds
<1>5. o.side = side /\ o.prev = tail
  BY <1>2 DEF NewOrder
<1>6. tail \in Slots \cup {NIL}
  <2>1. b.lane[side][t] \in PriceLevels
    BY <1>4 DEF Books, Lanes
  <2>. QED BY <2>1 DEF PriceLevels, SlotOrNil
<1>. HIDE DEF n, s, o, tail
<1>7. n \in Books /\ n.pool[s].prev = tail
  BY <1>3, <1>4, <1>5 DEF Inserted, tail
<1>8. \A x \in Slots : x # s /\ x # tail => n.pool[x] = b.pool[x]
  <2>1. \A x \in Slots \ {s} : /\ SameOrder(n, b, x) /\ n.pool[x].prev = b.pool[x].prev
                               /\ x # tail => n.pool[x].next = b.pool[x].next
    BY <1>3, <1>4, <1>5 DEF Inserted, tail
  <2>. QED BY <1>4, <1>7, <2>1, SameSlot
<1>9. DiffersAt(b, n, {s, tail}, side, t)
  <2>1. \A d \in Sides, j \in Ticks : d # side \/ j # t => n.lane[d][j] = b.lane[d][j]
    BY <1>4, <1>5 DEF Inserted
  <2>. QED BY <1>8, <2>1 DEF DiffersAt
<1>. DEFINE pair  == <<OrderCell(s), LevelCell(side, t)>>
            cells == pair \o OrderCellIf(tail)
<1>10. pair \in Seq(Cells) /\ Listed(OrderCell(s), pair) /\ Listed(LevelCell(side, t), pair)
  BY <1>3, CellsAre, PairListed
<1>11. OrderCellIf(tail) \in Seq(Cells) /\ (tail # NIL => Listed(OrderCell(tail), OrderCellIf(tail)))
  BY <1>6, NeighbourListed
<1>. HIDE DEF pair
<1>12. /\ cells \in Seq(Cells) /\ Listed(OrderCell(s), cells) /\ Listed(LevelCell(side, t), cells)
       /\ tail # NIL => Listed(OrderCell(tail), cells)
  BY <1>10, <1>11, ListedTwice
<1>. HIDE DEF cells
<1>13. \A x \in Slots \cap {s, tail} : Listed(OrderCell(x), cells)
  <2>1. NIL \notin Slots
    BY BookConfig DEF NIL, Slots
  <2>. QED BY <1>12, <2>1
<1>14. DiffersIn(b, n, cells)
  BY <1>9, <1>12, <1>13, DiffersInCells
<1>. QED BY <1>7, <1>14 DEF cells, pair, n, s, p

\* A partial fill writes the order and its level.
LEMMA UpdateDiffers ==
    ASSUME NEW b, Intact(b), NEW id \in DOMAIN b.idmap, NEW fillQty \in Nat
    PROVE  LET n == Update(b, id, fillQty)
               s == b.idmap[id]
           IN  DiffersIn(b, n, <<OrderCell(s), LevelCell(n.pool[s].side, TickOf(n.pool[s].price))>>)
<1>. DEFINE n   == Update(b, id, fillQty)
            s   == b.idmap[id]
            o   == b.pool[s]
            t   == TickOf(o.price)
            add == IF fillQty < Open(o) THEN fillQty ELSE Open(o)
<1>1. PICK q, f : Holds(b, q, f)
  BY DEF Intact
<1>2. s \in Slots /\ t \in Ticks /\ o \in Orders /\ o.side \in Sides /\ b \in Books /\ o.filled <= o.qty
  <2>1. b \in Books /\ SlotsHold(b)
    BY <1>1 DEF Holds
  <2>. QED BY <1>1, <2>1, OrderIsListed DEF SlotsHold
<1>3. Updated(b, n, s, add)
  BY <1>2, UpdateEffect
<1>. HIDE DEF n, s, add
<1>4. n.pool[s].side = o.side /\ n.pool[s].price = o.price
  BY <1>2, <1>3 DEF Updated, Orders
<1>5. DiffersAt(b, n, {s}, o.side, t)
  BY <1>3 DEF Updated, DiffersAt
<1>. DEFINE cells == <<OrderCell(s), LevelCell(o.side, t)>>
<1>6. cells \in Seq(Cells) /\ Listed(OrderCell(s), cells) /\ Listed(LevelCell(o.side, t), cells)
  BY <1>2, CellsAre, PairListed
<1>. HIDE DEF cells, o, t
<1>7. DiffersIn(b, n, cells)
  BY <1>5, <1>6, DiffersInCells
<1>. QED BY <1>4, <1>7 DEF cells, n, s, t

\* The cells unlink and free_slot write when the order with this id leaves b.
CellsLeft(b, id) ==
    LET o == b.pool[b.idmap[id]]
    IN  OrderCellIf(o.prev) \o OrderCellIf(o.next)
        \o <<LevelCell(o.side, TickOf(o.price)), OrderCell(b.idmap[id])>>

\* cancel and fill write the neighbours of the order, its level and its slot,
\* which is the last.
LEMMA LeftDiffers ==
    ASSUME NEW b, Intact(b), NEW id \in DOMAIN b.idmap, NEW n,
           n \in {Fill(b, id), Cancel(b, id)}
    PROVE  LET cells == CellsLeft(b, id)
           IN  /\ DiffersIn(b, n, cells)
               /\ Len(cells) # 0 /\ cells[Len(cells)] = OrderCell(b.idmap[id])
<1>. DEFINE s == b.idmap[id]
            o == b.pool[s]
            t == TickOf(o.price)
<1>1. PICK q, f : Holds(b, q, f)
  BY DEF Intact
<1>2. Left(b, n, id)
  BY <1>1, FillLeaves, CancelLeaves
<1>3. s \in Slots /\ t \in Ticks /\ o \in Orders /\ o.side \in Sides /\ b \in Books
  BY <1>1, OrderIsListed DEF Holds
<1>4. o.prev \in Slots \cup {NIL} /\ o.next \in Slots \cup {NIL}
  <2>. HIDE DEF o
  <2>. QED BY <1>3 DEF Orders, SlotOrNil
<1>. HIDE DEF s, o, t
<1>5. n \in Books /\ Shrunk(b, n, o.side, t, s)
      /\ \A d \in Sides, j \in Ticks : d # o.side \/ j # t => n.lane[d][j] = b.lane[d][j]
  BY <1>2 DEF Left, s, o, t
<1>6. DiffersAt(b, n, {s, o.prev, o.next}, o.side, t)
  <2>1. \A x \in Slots \ {s} :
           /\ SameOrder(n, b, x)
           /\ x # o.prev => n.pool[x].next = b.pool[x].next
           /\ x # o.next => n.pool[x].prev = b.pool[x].prev
    BY <1>5 DEF Shrunk, o
  <2>2. \A x \in Slots \ {s, o.prev, o.next} : n.pool[x] = b.pool[x]
    BY <1>3, <1>5, <2>1, SameSlot
  <2>. QED BY <1>5, <2>2 DEF DiffersAt
<1>. DEFINE before == OrderCellIf(o.prev) \o OrderCellIf(o.next)
            pair   == <<LevelCell(o.side, t), OrderCell(s)>>
            cells  == before \o pair
<1>7. /\ pair \in Seq(Cells) /\ Len(pair) = 2 /\ pair[2] = OrderCell(s)
      /\ Listed(OrderCell(s), pair) /\ Listed(LevelCell(o.side, t), pair)
  BY <1>3, CellsAre, PairListed
<1>8. /\ before \in Seq(Cells)
      /\ o.prev # NIL => Listed(OrderCell(o.prev), before)
      /\ o.next # NIL => Listed(OrderCell(o.next), before)
  BY <1>4, NeighbourListed, ListedTwice
<1>9. CellsLeft(b, id) = cells
  BY DEF CellsLeft, s, o, t
<1>. HIDE DEF before, pair
<1>10. /\ cells \in Seq(Cells) /\ Len(cells) # 0 /\ cells[Len(cells)] = OrderCell(s)
       /\ Listed(OrderCell(s), cells) /\ Listed(LevelCell(o.side, t), cells)
       /\ o.prev # NIL => Listed(OrderCell(o.prev), cells)
       /\ o.next # NIL => Listed(OrderCell(o.next), cells)
  <2>1. Len(before) \in Nat
    BY <1>8
  <2>2. /\ cells \in Seq(Cells) /\ Len(cells) = Len(before) + Len(pair)
        /\ \A c : Listed(c, before) \/ Listed(c, pair) => Listed(c, cells)
        /\ Len(pair) # 0 => cells[Len(cells)] = pair[Len(pair)]
    BY <1>7, <1>8, ListedTwice
  <2>. HIDE DEF cells
  <2>3. Len(cells) # 0
    BY <1>7, <2>1, <2>2
  <2>. QED BY <1>7, <1>8, <2>2, <2>3
<1>. HIDE DEF cells
<1>11. \A x \in Slots \cap {s, o.prev, o.next} : Listed(OrderCell(x), cells)
  <2>1. NIL \notin Slots
    BY BookConfig DEF NIL, Slots
  <2>. QED BY <1>10, <2>1
<1>12. DiffersIn(b, n, cells)
  BY <1>6, <1>10, <1>11, DiffersInCells
<1>. QED BY <1>9, <1>10, <1>12 DEF s

-----------------------------------------------------------------------------
(* The writes bring the cells to the book's state.                         *)

\* The writes w leave v in the cell c, which holds x now: each write of it is
\* of v or is followed by another, and there is one unless x is v.
Lands(w, c, x, v) ==
    /\ x = v \/ \E i \in 1..Len(w) : w[i].cell = c
    /\ \A i \in 1..Len(w) :
          w[i].cell = c /\ w[i].val # v => \E j \in 1..Len(w) : j > i /\ w[j].cell = c

\* It stays so when the first write has been performed.
LEMMA LandsTail ==
    ASSUME NEW w \in Seq(CellWrites), w # <<>>, NEW c, NEW x, NEW v, Lands(w, c, x, v)
    PROVE  Lands(Tail(w), c, IF c = Head(w).cell THEN Head(w).val ELSE x, v)
<1>. DEFINE u == Tail(w)
            n == Len(w)
<1>1. n \in Nat \ {0} /\ Head(w) = w[1] /\ Len(u) = n - 1 /\ \A i \in 1..(n - 1) : u[i] = w[i + 1]
  OBVIOUS
<1>. HIDE DEF u, n
<1>2. ASSUME NEW i \in 1..n, i > 1 PROVE i - 1 \in 1..(n - 1) /\ u[i - 1] = w[i]
  <2>1. i - 1 \in 1..(n - 1) /\ (i - 1) + 1 = i
    BY <1>1, <1>2
  <2>. QED BY <1>1, <2>1
<1>3. ASSUME NEW i \in 1..n, w[i].cell = c, i > 1 PROVE \E j \in 1..(n - 1) : u[j].cell = c
  BY <1>2, <1>3
<1>4. 1 \in 1..n
  BY <1>1
<1>5. ASSUME NEW i \in 1..(n - 1), u[i].cell = c, u[i].val # v
      PROVE  \E j \in 1..(n - 1) : j > i /\ u[j].cell = c
  <2>1. i + 1 \in 1..n /\ w[i + 1] = u[i]
    BY <1>1
  <2>2. PICK j \in 1..n : j > i + 1 /\ w[j].cell = c
    BY <1>5, <2>1 DEF Lands, n
  <2>3. j - 1 \in 1..(n - 1) /\ u[j - 1] = w[j] /\ j - 1 > i
    BY <1>1, <1>2, <2>2
  <2>. QED BY <2>2, <2>3
<1>6. CASE c = w[1].cell
  <2>1. w[1].val = v \/ \E j \in 1..n : j > 1 /\ w[j].cell = c
    BY <1>4, <1>6 DEF Lands, n
  <2>2. w[1].val = v \/ \E j \in 1..(n - 1) : u[j].cell = c
    BY <1>3, <2>1
  <2>. QED BY <1>1, <1>5, <1>6, <2>2 DEF Lands, u
<1>7. CASE c # w[1].cell
  <2>1. x = v \/ \E i \in 1..n : w[i].cell = c /\ i > 1
    <3>1. x = v \/ \E i \in 1..n : w[i].cell = c
      BY DEF Lands, n
    <3>. QED BY <1>1, <1>7, <3>1
  <2>2. x = v \/ \E j \in 1..(n - 1) : u[j].cell = c
    BY <1>3, <2>1
  <2>. QED BY <1>1, <1>5, <1>7, <2>2 DEF Lands, u
<1>. QED BY <1>6, <1>7

\* Without writes the value has arrived.
LEMMA Landed == ASSUME NEW c, NEW x, NEW v, Lands(<<>>, c, x, v) PROVE x = v
<1>1. 1..Len(<<>>) = {}
  OBVIOUS
<1>. QED BY <1>1 DEF Lands

\* The writes of an operation are typed.
LEMMA WritesTyped ==
    ASSUME NEW n \in Books, NEW cells \in Seq(Cells)
    PROVE  /\ WritesOf(n, cells) \in Seq(CellWrites) /\ Len(WritesOf(n, cells)) = Len(cells)
           /\ \A i \in 1..Len(cells) : WritesOf(n, cells)[i] = [cell |-> cells[i], val |-> CellOf(n, cells[i])]
<1>1. Len(cells) \in Nat /\ \A i \in 1..Len(cells) : cells[i] \in Cells
  OBVIOUS
<1>2. \A i \in 1..Len(cells) : [cell |-> cells[i], val |-> CellOf(n, cells[i])] \in CellWrites
  BY <1>1, CellTyped DEF CellWrites
<1>. QED BY <1>1, <1>2 DEF WritesOf

\* They bring every cell to what it is in the new book.
LEMMA WritesLand ==
    ASSUME NEW b, NEW n \in Books, NEW cells, DiffersIn(b, n, cells), NEW c \in Cells
    PROVE  Lands(WritesOf(n, cells), c, CellOf(b, c), CellOf(n, c))
<1>. DEFINE w == WritesOf(n, cells)
<1>1. cells \in Seq(Cells) /\ (~Listed(c, cells) => CellOf(n, c) = CellOf(b, c))
  BY DEF DiffersIn
<1>2. /\ Len(w) = Len(cells)
      /\ \A i \in 1..Len(cells) : w[i] = [cell |-> cells[i], val |-> CellOf(n, cells[i])]
  BY <1>1, WritesTyped
<1>. HIDE DEF w
<1>3. \A i \in 1..Len(cells) : w[i].cell = cells[i] /\ w[i].val = CellOf(n, cells[i])
  <2>. TAKE i \in 1..Len(cells)
  <2>. DEFINE y == CellOf(n, cells[i])
  <2>1. w[i] = [cell |-> cells[i], val |-> y]
    BY <1>2
  <2>. HIDE DEF y
  <2>2. w[i].cell = cells[i] /\ w[i].val = y
    BY <2>1
  <2>. QED BY <2>2 DEF y
<1>. QED BY <1>1, <1>2, <1>3 DEF Lands, Listed, w

\* So they do after a write to a cell that is on their list.
LEMMA FirstLands ==
    ASSUME NEW w \in Seq(CellWrites), NEW first \in CellWrites, NEW c, NEW x, NEW v,
           Lands(w, c, x, v), c = first.cell => \E i \in 1..Len(w) : w[i].cell = c
    PROVE  Lands(<<first>> \o w, c, x, v)
<1>. DEFINE n == Len(w)
            u == <<first>> \o w
<1>1. n \in Nat /\ Len(u) = n + 1 /\ u[1] = first /\ \A i \in 1..n : u[i + 1] = w[i]
  OBVIOUS
<1>. HIDE DEF u, n
<1>2. ASSUME NEW i \in 1..n PROVE i + 1 \in 1..(n + 1) /\ u[i + 1] = w[i]
  BY <1>1
<1>3. \A i \in 1..(n + 1) : i = 1 \/ (i - 1 \in 1..n /\ u[i] = w[i - 1])
  <2>. TAKE i \in 1..(n + 1)
  <2>1. i = 1 \/ (i - 1 \in 1..n /\ (i - 1) + 1 = i)
    BY <1>1
  <2>. QED BY <1>2, <2>1
<1>4. x = v \/ \E i \in 1..(n + 1) : u[i].cell = c
  <2>1. x = v \/ \E i \in 1..n : w[i].cell = c
    BY DEF Lands, n
  <2>. QED BY <1>2, <2>1
<1>5. ASSUME NEW i \in 1..(n + 1), u[i].cell = c, u[i].val # v
      PROVE  \E j \in 1..(n + 1) : j > i /\ u[j].cell = c
  <2>1. CASE i = 1
    <3>1. PICK j \in 1..n : w[j].cell = c
      BY <1>1, <1>5, <2>1 DEF n
    <3>2. j + 1 > i
      BY <1>1, <2>1
    <3>. QED BY <1>2, <3>1, <3>2
  <2>2. CASE i # 1
    <3>1. i - 1 \in 1..n /\ u[i] = w[i - 1]
      BY <1>3, <2>2
    <3>2. PICK j \in 1..n : j > i - 1 /\ w[j].cell = c
      BY <1>5, <3>1 DEF Lands, n
    <3>3. j + 1 > i
      BY <1>1, <3>2
    <3>. QED BY <1>2, <3>2, <3>3
  <2>. QED BY <2>1, <2>2
<1>. QED BY <1>1, <1>4, <1>5 DEF Lands, u

\* A write changes what the book reads in its cell, and in no other: not in
\* the same chunk, and not in another one (no two are at one reference).
LEMMA WriteReads ==
    ASSUME EpochInv, MemoryExact, WriteCell, NEW c \in Cells
    PROVE  ReadVia(table, c)' = IF c = Head(todo).cell THEN Head(todo).val ELSE ReadVia(table, c)
<1>. DEFINE w  == Head(todo)
            ch == ChunkOf(w.cell)
            k2 == ChunkOf(c)
            d  == [heap[table[ch]].data EXCEPT ![w.cell] = w.val]
<1>1. w.cell \in Cells /\ ch \in Chunks /\ k2 \in Chunks /\ roots' = roots
  BY ChunkOfCell DEF WriteCell
<1>2. d[c] = (IF c = w.cell THEN w.val ELSE heap[table[ch]].data[c]) \/ k2 # ch
  <2>1. CASE k2 = ch
    <3>1. DOMAIN heap[table[ch]].data = CellsOf(ch)
      BY <1>1 DEF MemoryExact, WellHeld
    <3>2. c \in CellsOf(ch)
      BY <2>1 DEF CellsOf
    <3>. QED BY <3>1, <3>2
  <2>. QED BY <2>1
<1>3. k2 # ch => c # w.cell
  OBVIOUS
<1>4. table[k2] \in Refs /\ table[ch] \in Refs /\ (k2 # ch => table[k2] # table[ch])
  BY <1>1 DEF EpochInv, Shape, MemoryExact
<1>5. ASSUME NeedsCopy(ch)
      PROVE  heap'[table'[k2]] = IF k2 = ch THEN [born |-> gen, data |-> d] ELSE heap[table[k2]]
  <2>. DEFINE new  == CHOOSE r \in Refs : r \notin Held(table, roots)
              copy == [born |-> gen, data |-> d]
              tbl  == [table EXCEPT ![ch] = new]
              mid  == [heap EXCEPT ![new] = copy]
  <2>0. CopyThenWrite(ch, w)
    BY <1>5 DEF WriteCell
  <2>1. table' = tbl /\ heap' = Reclaim(mid, tbl, roots) /\ Refs \ Held(table, roots) # {}
    BY <2>0 DEF CopyThenWrite
  <2>2. new \in Refs /\ new \notin Held(table, roots)
    BY <2>1
  <2>. HIDE DEF new, copy, w, ch, k2
  <2>3. tbl[ch] = new /\ (k2 # ch => tbl[k2] = table[k2]) /\ tbl[k2] \in Refs
    BY <1>1, <1>4, <2>2 DEF EpochInv, Shape
  <2>4. mid[new] = copy /\ \A ref \in Refs : ref # new => mid[ref] = heap[ref]
    BY <2>2 DEF EpochInv, Shape
  <2>. HIDE DEF tbl, mid
  <2>5. heap'[tbl[k2]] = mid[tbl[k2]]
    BY <1>1, <2>1, <2>3, HeldEntries, ReclaimKeeps
  <2>6. table[k2] # new
    BY <1>1, <2>2, HeldEntries
  <2>. QED BY <1>4, <2>1, <2>3, <2>4, <2>5, <2>6 DEF copy
<1>6. ASSUME ~NeedsCopy(ch)
      PROVE  table' = table /\ heap'[table[k2]] = IF k2 = ch THEN [heap[table[ch]] EXCEPT !.data = d]
                                                             ELSE heap[table[k2]]
  <2>1. WriteInPlace(ch, w)
    BY <1>6 DEF WriteCell
  <2>2. table' = table /\ heap' = [heap EXCEPT ![table[ch]] = [heap[table[ch]] EXCEPT !.data = d]]
    BY <2>1 DEF WriteInPlace
  <2>. HIDE DEF d, w, ch, k2
  <2>3. /\ heap'[table[ch]] = [heap[table[ch]] EXCEPT !.data = d]
        /\ \A ref \in Refs : ref # table[ch] => heap'[ref] = heap[ref]
    BY <1>4, <2>2 DEF EpochInv, Shape
  <2>. QED BY <1>4, <2>2, <2>3
<1>7. IsChunk(heap[table[ch]])
  BY <1>1 DEF EpochInv, Shape
<1>8. heap'[table'[k2]].data = IF k2 = ch THEN d ELSE heap[table[k2]].data
  <2>1. CASE NeedsCopy(ch)
    BY <1>5, <2>1
  <2>2. CASE ~NeedsCopy(ch)
    <3>1. [heap[table[ch]] EXCEPT !.data = d].data = d
      BY <1>7 DEF IsChunk
    <3>. QED BY <1>6, <2>2, <3>1
  <2>. QED BY <2>1, <2>2
<1>. HIDE DEF d
<1>9. ReadVia(table, c)' = heap'[table'[k2]].data[c] /\ ReadVia(table, c) = heap[table[k2]].data[c]
  BY DEF ReadVia
<1>10. CASE k2 = ch
  BY <1>2, <1>8, <1>9, <1>10
<1>11. CASE k2 # ch
  BY <1>3, <1>8, <1>9, <1>11
<1>. QED BY <1>10, <1>11

\* A dropped Root takes nothing of the book with it.
LEMMA DropReads ==
    ASSUME EpochInv, NEW r, DropRoot(r), NEW c \in Cells
    PROVE  ReadVia(table, c)' = ReadVia(table, c)
<1>1. table' = table /\ heap' = Reclaim(heap, table, roots')
  BY DEF DropRoot
<1>2. ChunkOf(c) \in Chunks /\ table[ChunkOf(c)] \in Refs
  BY ChunkOfCell DEF EpochInv, Shape
<1>3. heap'[table[ChunkOf(c)]] = heap[table[ChunkOf(c)]]
  BY <1>1, <1>2, HeldEntries, ReclaimKeeps
<1>. QED BY <1>1, <1>3 DEF ReadVia

-----------------------------------------------------------------------------
(* The book and the flat book.                                             *)

\* The cells, once the queued writes have landed, are those of the flat book.
CellsFollow == \A c \in Cells : Lands(todo, c, ReadVia(table, c), CellOf(flat, c))

\* The ids are those of the inserts so far, the flat book keeps its lists, and
\* the book is on its way to the flat book.
LockInv ==
    /\ gen \in 1..MaxGen /\ lastId \in 0..MaxId
    /\ todo \in Seq(CellWrites)
    /\ scalars = ScalarsOf(flat)
    /\ Intact(flat) /\ DOMAIN flat.idmap \subseteq 1..lastId
    /\ CellsFollow

\* A flat book is its cells and its scalars.
LEMMA ViewIs ==
    ASSUME LockInv, todo = <<>> PROVE View = flat
<1>1. flat \in Books /\ scalars = ScalarsOf(flat)
  BY IntactBooks DEF LockInv
<1>2. \A c \in Cells : ReadVia(table, c) = CellOf(flat, c)
  BY Landed DEF LockInv, CellsFollow
<1>3. [s \in Slots |-> ReadVia(table, OrderCell(s))] = flat.pool
  <2>1. \A s \in Slots : ReadVia(table, OrderCell(s)) = flat.pool[s]
    BY <1>2, CellsAre
  <2>2. flat.pool = [s \in Slots |-> flat.pool[s]]
    BY <1>1 DEF Books, Pools
  <2>. QED BY <2>1, <2>2
<1>4. [side \in Sides |-> [t \in Ticks |-> ReadVia(table, LevelCell(side, t))]] = flat.lane
  <2>1. \A side \in Sides, t \in Ticks : ReadVia(table, LevelCell(side, t)) = flat.lane[side][t]
    BY <1>2, CellsAre
  <2>2. flat.lane = [side \in Sides |-> [t \in Ticks |-> flat.lane[side][t]]]
    <3>1. flat.lane \in [Sides -> [Ticks -> PriceLevels]]
      BY <1>1 DEF Books, Lanes
    <3>. QED BY <3>1
  <2>. QED BY <2>1, <2>2
<1>5. flat = [pool |-> flat.pool, lane |-> flat.lane, hwm |-> flat.hwm, best |-> flat.best,
              freeHead |-> flat.freeHead, idmap |-> flat.idmap]
  BY <1>1 DEF Books
<1>6. /\ scalars.hwm = flat.hwm /\ scalars.best = flat.best
      /\ scalars.freeHead = flat.freeHead /\ scalars.idmap = flat.idmap
  BY <1>1 DEF ScalarsOf
<1>. QED BY <1>3, <1>4, <1>5, <1>6 DEF View

\* CowBook::new.
LEMMA InitLock == Init => LockInv
<1>. SUFFICES ASSUME Init PROVE LockInv
  OBVIOUS
<1>1. /\ gen = 1 /\ lastId = 0 /\ todo = <<>> /\ flat = NewBook /\ scalars = ScalarsOf(NewBook)
      /\ table = FirstTable
  BY DEF Init
<1>2. Intact(NewBook) /\ DOMAIN NewBook.idmap = {}
  <2>1. NewBook.hwm = 0 /\ DOMAIN NewBook.idmap = {} /\ \A s \in Slots : NewBook.pool[s] = ZeroOrder
    BY DEF NewBook
  <2>. QED BY <2>1, NewBookHolds DEF Intact
<1>3. ASSUME NEW c \in Cells PROVE ReadVia(table, c) = CellOf(NewBook, c)
  <2>. DEFINE ch == ChunkOf(c)
              k2 == CHOOSE j \in Chunks : FirstTable[j] = FirstTable[ch]
  <2>1. ch \in Chunks /\ FirstTable[ch] \in Refs
    BY ChunkOfCell, HeapAssumption DEF FirstTable
  <2>2. \A i, j \in Chunks : FirstTable[i] = FirstTable[j] => i = j
    BY HeapAssumption DEF FirstTable
  <2>3. k2 = ch
    BY <2>1, <2>2
  <2>4. heap[FirstTable[ch]] = [born |-> 1, data |-> [x \in CellsOf(k2) |-> CellOf(NewBook, x)]]
    BY <2>1 DEF Init
  <2>. HIDE DEF k2
  <2>5. c \in CellsOf(k2)
    BY <2>3 DEF CellsOf
  <2>. DEFINE d == [x \in CellsOf(k2) |-> CellOf(NewBook, x)]
  <2>6. d[c] = CellOf(NewBook, c)
    BY <2>5
  <2>. HIDE DEF d
  <2>7. heap[FirstTable[ch]].data = d
    BY <2>4 DEF d
  <2>. QED BY <1>1, <2>6, <2>7 DEF ReadVia
<1>4. CellsFollow
  <2>1. 1..Len(<<>>) = {}
    OBVIOUS
  <2>. QED BY <1>1, <1>3, <2>1 DEF CellsFollow, Lands
<1>5. todo \in Seq(CellWrites)
  BY <1>1
<1>6. gen \in 1..MaxGen /\ lastId \in 0..MaxId
  BY <1>1, CowWorkload
<1>. QED BY <1>1, <1>2, <1>4, <1>5, <1>6 DEF LockInv

\* An operation starts: what the book differs in from the flat book of now is
\* queued.
LEMMA StartLock ==
    ASSUME LockInv, todo = <<>>, NEW n, Intact(n), NEW cells, DiffersIn(flat, n, cells),
           Start(n, WritesOf(n, cells)), flat' = n, lastId' \in 0..MaxId,
           DOMAIN n.idmap \subseteq 1..lastId'
    PROVE  LockInv'
<1>1. /\ todo' = WritesOf(n, cells) /\ scalars' = ScalarsOf(n)
      /\ heap' = heap /\ table' = table /\ gen' = gen
  BY DEF Start
<1>2. n \in Books /\ cells \in Seq(Cells)
  BY IntactBooks DEF DiffersIn
<1>3. todo' \in Seq(CellWrites)
  BY <1>1, <1>2, WritesTyped
<1>4. \A c \in Cells : ReadVia(table, c) = CellOf(flat, c)
  BY Landed DEF LockInv, CellsFollow
<1>5. \A c \in Cells : Lands(todo', c, CellOf(flat, c), CellOf(n, c))
  BY <1>1, <1>2, WritesLand
<1>6. \A c \in Cells : ReadVia(table, c)' = ReadVia(table, c)
  BY <1>1 DEF ReadVia
<1>7. CellsFollow'
  BY <1>4, <1>5, <1>6 DEF CellsFollow
<1>. QED BY <1>1, <1>3, <1>7 DEF LockInv

\* insert.
LEMMA InsertLock ==
    ASSUME LockInv, NEW t \in Ticks, NEW qty \in Quantities, NEW side \in Sides,
           BeginInsert(t, qty, side)
    PROVE  LockInv' /\ flat' = Insert(flat, lastId + 1, PriceOf(t), qty, side) /\ ~Exhausted(flat)
           /\ lastId + 1 \in Nat \ {0} /\ lastId + 1 \notin DOMAIN flat.idmap
<1>. DEFINE n == Insert(flat, lastId + 1, PriceOf(t), qty, side)
            s == NextSlot(flat)
            cells == <<OrderCell(s), LevelCell(side, t)>> \o OrderCellIf(n.pool[s].prev)
<1>1. View = flat /\ todo = <<>>
  BY ViewIs DEF BeginInsert
<1>2. /\ ~Exhausted(flat) /\ lastId < MaxId /\ lastId' = lastId + 1 /\ flat' = n
      /\ Start(n, WritesOf(n, cells))
  BY <1>1 DEF BeginInsert
<1>3. Intact(flat) /\ DOMAIN flat.idmap \subseteq 1..lastId /\ lastId \in Nat /\ MaxId \in Nat /\ qty \in Nat
  BY CowWorkload DEF LockInv
<1>4. lastId + 1 \in Nat \ {0} /\ lastId + 1 \notin DOMAIN flat.idmap /\ lastId' \in 0..MaxId
  BY <1>2, <1>3
<1>5. Intact(n) /\ DOMAIN n.idmap = DOMAIN flat.idmap \cup {lastId + 1}
  BY <1>2, <1>3, <1>4, InsertIntact
<1>6. DiffersIn(flat, n, cells)
  BY <1>2, <1>3, <1>4, InsertDiffers
<1>. HIDE DEF n, cells
<1>7. DOMAIN n.idmap \subseteq 1..lastId'
  BY <1>2, <1>3, <1>5
<1>8. LockInv'
  BY <1>1, <1>2, <1>4, <1>5, <1>6, <1>7, StartLock
<1>. QED BY <1>2, <1>4, <1>8 DEF n

\* update.
LEMMA UpdateLock ==
    ASSUME LockInv, NEW id \in DOMAIN scalars.idmap, NEW fillQty \in FillQuantities,
           BeginUpdate(id, fillQty)
    PROVE  LockInv' /\ flat' = Update(flat, id, fillQty) /\ id \in DOMAIN flat.idmap
<1>. DEFINE n == Update(flat, id, fillQty)
            s == flat.idmap[id]
            cells == <<OrderCell(s), LevelCell(n.pool[s].side, TickOf(n.pool[s].price))>>
<1>1. View = flat /\ todo = <<>>
  BY ViewIs DEF BeginUpdate
<1>2. scalars.idmap = flat.idmap
  BY DEF LockInv, ScalarsOf
<1>3. flat' = n /\ lastId' = lastId /\ Start(n, WritesOf(n, cells))
  BY <1>1, <1>2 DEF BeginUpdate
<1>4. Intact(flat) /\ DOMAIN flat.idmap \subseteq 1..lastId /\ lastId \in 0..MaxId /\ fillQty \in Nat
      /\ id \in DOMAIN flat.idmap
  BY <1>2, CowWorkload DEF LockInv
<1>5. Intact(n) /\ n.idmap = flat.idmap
  BY <1>4, UpdateIntact
<1>6. DiffersIn(flat, n, cells)
  BY <1>4, UpdateDiffers
<1>. HIDE DEF n, cells
<1>7. LockInv'
  BY <1>1, <1>3, <1>4, <1>5, <1>6, StartLock
<1>. QED BY <1>3, <1>4, <1>7 DEF n

\* cancel.
LEMMA CancelLock ==
    ASSUME LockInv, NEW id \in DOMAIN scalars.idmap, BeginCancel(id)
    PROVE  LockInv' /\ flat' = Cancel(flat, id) /\ id \in DOMAIN flat.idmap
<1>. DEFINE n == Cancel(flat, id)
            cells == CellsLeft(flat, id)
<1>1. View = flat /\ todo = <<>>
  BY ViewIs DEF BeginCancel
<1>2. scalars.idmap = flat.idmap /\ flat' = n /\ lastId' = lastId
  BY DEF LockInv, ScalarsOf, BeginCancel
<1>3. Intact(flat) /\ DOMAIN flat.idmap \subseteq 1..lastId /\ lastId \in 0..MaxId /\ id \in DOMAIN flat.idmap
  BY <1>2 DEF LockInv
<1>4. RemovalCells(id) = cells
  <2>1. flat.idmap[id] \in Slots
    BY <1>3, IntactBooks, IdMapTyped
  <2>2. ReadVia(table, OrderCell(flat.idmap[id])) = flat.pool[flat.idmap[id]]
    <3>1. OrderCell(flat.idmap[id]) \in Cells
      BY <2>1, CellsAre
    <3>2. ReadVia(table, OrderCell(flat.idmap[id])) = CellOf(flat, OrderCell(flat.idmap[id]))
      BY <1>1, <3>1, Landed DEF LockInv, CellsFollow
    <3>. QED BY <2>1, <3>2, CellsAre
  <2>. QED BY <1>2, <2>2 DEF RemovalCells, CellsLeft
<1>5. Start(n, WritesOf(n, cells))
  BY <1>1, <1>4 DEF BeginCancel
<1>6. Intact(n) /\ DOMAIN n.idmap = DOMAIN flat.idmap \ {id}
  BY <1>3, LeftIntact
<1>7. DiffersIn(flat, n, cells)
  BY <1>3, LeftDiffers
<1>. HIDE DEF n, cells
<1>8. DOMAIN n.idmap \subseteq 1..lastId'
  BY <1>2, <1>3, <1>6
<1>9. LockInv'
  BY <1>1, <1>2, <1>3, <1>5, <1>6, <1>7, <1>8, StartLock
<1>. QED BY <1>2, <1>3, <1>9 DEF n

\* fill: the order's cell is written twice.
LEMMA FillLock ==
    ASSUME LockInv, NEW id \in DOMAIN scalars.idmap, BeginFill(id)
    PROVE  LockInv' /\ flat' = Fill(flat, id) /\ id \in DOMAIN flat.idmap
<1>. DEFINE n == Fill(flat, id)
            cells == CellsLeft(flat, id)
            s == flat.idmap[id]
            o == flat.pool[s]
            first == [cell |-> OrderCell(s), val |-> [o EXCEPT !.filled = o.qty]]
<1>1. View = flat /\ todo = <<>>
  BY ViewIs DEF BeginFill
<1>2. scalars.idmap = flat.idmap /\ flat' = n /\ lastId' = lastId
  BY DEF LockInv, ScalarsOf, BeginFill
<1>3. Intact(flat) /\ DOMAIN flat.idmap \subseteq 1..lastId /\ lastId \in 0..MaxId /\ id \in DOMAIN flat.idmap
  BY <1>2 DEF LockInv
<1>4. s \in Slots /\ flat \in Books
  BY <1>3, IntactBooks, IdMapTyped
<1>5. \A c \in Cells : ReadVia(table, c) = CellOf(flat, c)
  BY <1>1, Landed DEF LockInv, CellsFollow
<1>6. OrderCell(s) \in Cells /\ ReadVia(table, OrderCell(s)) = o
  BY <1>4, <1>5, CellsAre
<1>7. RemovalCells(id) = cells
  BY <1>2, <1>6 DEF RemovalCells, CellsLeft
<1>8. first \in CellWrites
  <2>1. o \in Orders
    BY <1>4 DEF Books, Pools
  <2>. HIDE DEF o
  <2>2. [o EXCEPT !.filled = o.qty] \in Orders
    BY <2>1 DEF Orders
  <2>. QED BY <1>6, <2>2 DEF CellWrites, Contents
<1>9. Start(n, <<first>> \o WritesOf(n, cells))
  BY <1>1, <1>2, <1>6, <1>7 DEF BeginFill
<1>10. Intact(n) /\ DOMAIN n.idmap = DOMAIN flat.idmap \ {id}
  BY <1>3, LeftIntact
<1>11. DiffersIn(flat, n, cells) /\ Len(cells) # 0 /\ cells[Len(cells)] = OrderCell(s)
  BY <1>3, LeftDiffers
<1>. DEFINE w == WritesOf(n, cells)
<1>. HIDE DEF n, cells, o, s
<1>12. n \in Books /\ cells \in Seq(Cells)
  BY <1>10, <1>11, IntactBooks DEF DiffersIn
<1>13. /\ w \in Seq(CellWrites) /\ Len(w) = Len(cells)
       /\ \A i \in 1..Len(cells) : w[i] = [cell |-> cells[i], val |-> CellOf(n, cells[i])]
  BY <1>12, WritesTyped
<1>14. \E i \in 1..Len(w) : w[i].cell = first.cell
  <2>. DEFINE i == Len(cells)
  <2>1. i \in 1..Len(w)
    BY <1>11, <1>12, <1>13
  <2>2. w[i] = [cell |-> cells[i], val |-> CellOf(n, cells[i])]
    BY <1>13, <2>1
  <2>. DEFINE y == CellOf(n, cells[i])
  <2>. HIDE DEF w, y
  <2>3. w[i].cell = cells[i]
    BY <2>2 DEF y
  <2>4. first.cell = OrderCell(s)
    OBVIOUS
  <2>. QED BY <1>11, <2>1, <2>3, <2>4
<1>15. \A c \in Cells : Lands(w, c, CellOf(flat, c), CellOf(n, c))
  BY <1>11, <1>12, WritesLand
<1>. HIDE DEF w, first
<1>16. /\ todo' = <<first>> \o w /\ scalars' = ScalarsOf(n)
       /\ heap' = heap /\ table' = table /\ gen' = gen
  BY <1>9 DEF Start, w
<1>17. todo' \in Seq(CellWrites)
  BY <1>8, <1>13, <1>16
<1>18. \A c \in Cells : Lands(todo', c, CellOf(flat, c), CellOf(n, c))
  BY <1>8, <1>13, <1>14, <1>15, <1>16, FirstLands
<1>19. \A c \in Cells : ReadVia(table, c)' = ReadVia(table, c)
  BY <1>16 DEF ReadVia
<1>20. CellsFollow'
  BY <1>2, <1>5, <1>18, <1>19 DEF CellsFollow
<1>21. DOMAIN n.idmap \subseteq 1..lastId'
  BY <1>2, <1>3, <1>10
<1>22. LockInv'
  BY <1>2, <1>3, <1>10, <1>16, <1>17, <1>20, <1>21 DEF LockInv
<1>. QED BY <1>2, <1>3, <1>22 DEF n

\* One write of the operation.
LEMMA WriteLock ==
    ASSUME EpochInv, MemoryExact, LockInv, WriteCell PROVE LockInv'
<1>1. /\ todo # <<>> /\ todo' = Tail(todo) /\ todo \in Seq(CellWrites)
      /\ UNCHANGED <<gen, scalars, flat, lastId>>
  BY DEF WriteCell, LockInv
<1>2. todo' \in Seq(CellWrites)
  BY <1>1
<1>3. ASSUME NEW c \in Cells
      PROVE  Lands(todo', c, ReadVia(table, c)', CellOf(flat, c))
  <2>1. ReadVia(table, c)' = IF c = Head(todo).cell THEN Head(todo).val ELSE ReadVia(table, c)
    BY WriteReads
  <2>2. Lands(todo, c, ReadVia(table, c), CellOf(flat, c))
    BY DEF LockInv, CellsFollow
  <2>. QED BY <1>1, <2>1, <2>2, LandsTail
<1>4. CellsFollow'
  BY <1>1, <1>3 DEF CellsFollow
<1>. QED BY <1>1, <1>2, <1>4 DEF LockInv

\* Every step of the copy-on-write book.
LEMMA NextLock ==
    ASSUME EpochInv, MemoryExact, LockInv, [Next]_cowVars PROVE LockInv'
<1>1. ASSUME NEW t \in Ticks, NEW qty \in Quantities, NEW side \in Sides,
             BeginInsert(t, qty, side)
      PROVE  LockInv'
  BY <1>1, InsertLock
<1>2. ASSUME NEW id \in DOMAIN scalars.idmap, NEW fillQty \in FillQuantities,
             BeginUpdate(id, fillQty)
      PROVE  LockInv'
  BY <1>2, UpdateLock
<1>3. ASSUME NEW id \in DOMAIN scalars.idmap, BeginCancel(id) PROVE LockInv'
  BY <1>3, CancelLock
<1>4. ASSUME NEW id \in DOMAIN scalars.idmap, BeginFill(id) PROVE LockInv'
  BY <1>4, FillLock
<1>5. CASE WriteCell
  BY <1>5, WriteLock
<1>6. CASE Capture
  <2>1. gen < MaxGen /\ gen' = gen + 1 /\ UNCHANGED <<heap, table, scalars, todo, flat, lastId>>
    BY <1>6 DEF Capture
  <2>2. gen' \in 1..MaxGen
    BY <2>1, CowWorkload DEF LockInv
  <2>3. CellsFollow'
    BY <2>1 DEF LockInv, CellsFollow, ReadVia
  <2>. QED BY <2>1, <2>2, <2>3 DEF LockInv
<1>7. ASSUME NEW r \in roots, DropRoot(r) PROVE LockInv'
  <2>1. UNCHANGED <<gen, scalars, todo, flat, lastId>>
    BY <1>7 DEF DropRoot
  <2>2. \A c \in Cells : ReadVia(table, c)' = ReadVia(table, c)
    BY <1>7, DropReads
  <2>3. CellsFollow'
    BY <2>1, <2>2 DEF LockInv, CellsFollow
  <2>. QED BY <2>1, <2>3 DEF LockInv
<1>8. CASE UNCHANGED cowVars
  BY <1>8 DEF cowVars, LockInv, CellsFollow, ReadVia
<1>. QED BY <1>1, <1>2, <1>3, <1>4, <1>5, <1>6, <1>7, <1>8 DEF Next

\* The lockstep invariant with what it rests on.
THEOREM SpecLock == Spec => []LockInv
<1>1. Init => LockInv
  BY InitLock
<1>2. EpochInv /\ MemoryExact /\ LockInv /\ [Next]_cowVars => LockInv'
  BY NextLock
<1>. QED BY <1>1, <1>2, SpecEpoch, SpecMemoryExact, PTL DEF Spec

\* Then the book between two operations is the flat book.
LEMMA LockIsLockstep == LockInv => Lockstep
<1>. SUFFICES ASSUME LockInv PROVE Lockstep
  OBVIOUS
<1>1. \A i \in DOMAIN todo : todo[i].cell \in Cells
  <2>1. todo \in Seq(CellWrites)
    BY DEF LockInv
  <2>2. \A i \in DOMAIN todo : todo[i] \in CellWrites
    BY <2>1
  <2>. QED BY <2>2 DEF CellWrites
<1>. QED BY <1>1, ViewIs DEF LockInv, Lockstep, TypeOK

\* "Same op semantics as Book" (cowbook.rs): between two operations the cells
\* reached through the chunk tables are those of a flat book with the same
\* history, however many captures and drops of Roots came in between, and no
\* operation indexes a chunk out of bounds.
THEOREM SpecLockstep == Spec => []Lockstep
BY LockIsLockstep, SpecLock, PTL

-----------------------------------------------------------------------------
(* A step of the program is a step of the book, or leaves it alone.        *)

\* The operation of an iteration is an operation of the book that only
\* queues its writes.
LEMMA StreamOpIsNext ==
    ASSUME StreamOp PROVE Next /\ UNCHANGED <<heap, table, gen, roots>>
BY DEF StreamOp, Next, BeginInsert, BeginUpdate, BeginCancel, BeginFill, Start

\* The serializer drops only a Root that is alive, and the writer calls the
\* book's operations between operations only.
LEMMA LiveNextIsNext ==
    ASSUME FlightInv, [LiveNext]_vars PROVE [Next]_cowVars
<1>1. CASE WriterStep
  <2>1. ASSUME NEW t \in Ticks, NEW qty \in Quantities, NEW side \in Sides,
               Prebuild(t, qty, side)
        PROVE  Next
    BY <2>1 DEF Prebuild, Next
  <2>2. CASE WarmupOp \/ BeginOp
    BY <2>2, StreamOpIsNext DEF WarmupOp, BeginOp
  <2>3. CASE StartHandshake \/ TakeTrigger
    BY <2>3 DEF StartHandshake, TakeTrigger, Next
  <2>4. CASE Write
    BY <2>4 DEF Write, Next
  <2>5. CASE \/ AwaitHandshake \/ NoTrigger \/ SkipTrigger \/ Send
             \/ EndIteration \/ CloseChannel \/ Join
    BY <2>5 DEF AwaitHandshake, NoTrigger, SkipTrigger, Send, EndIteration, CloseChannel, Join
  <2>. QED BY <1>1, <2>1, <2>2, <2>3, <2>4, <2>5 DEF WriterStep
<1>2. CASE SerializerStep
  <2>1. CASE DropCurrent
    BY <2>1 DEF DropCurrent, FlightInv, Next
  <2>2. CASE Recv \/ ReadCell \/ RecordDuration \/ ClearBusy \/ ExitLoop
    BY <2>2 DEF Recv, ReadCell, RecordDuration, ClearBusy, ExitLoop
  <2>. QED BY <1>2, <2>1, <2>2 DEF SerializerStep
<1>3. CASE Finished \/ UNCHANGED vars
  BY <1>3 DEF Finished, vars
<1>. QED BY <1>1, <1>2, <1>3 DEF LiveNext

-----------------------------------------------------------------------------
(* The handover.                                                           *)

\* CowBook::new and two idle threads.
LEMMA InitFlight == LiveInit => FlightInv
BY DEF LiveInit, Init, FlightInv, WithWriter, InChannel, WithSerializer

\* A step that leaves the Roots and the handover alone, except that the
\* writer moves between places where it holds no Root.
LEMMA StutterFlight ==
    ASSUME FlightInv, UNCHANGED <<gen, roots, spc, cur, chan, closed, busy, pending>>,
           wpc' = wpc \/ (wpc \in {"await", "trigger", "op", "writes"}
                          /\ wpc' \in {"trigger", "op", "writes"})
    PROVE  FlightInv'
BY DEF FlightInv, WithWriter, InChannel, WithSerializer

\* A capture with the flag down: the new Root is the only one on its way.
LEMMA CaptureFlight ==
    ASSUME FlightInv, gen \in Nat, Capture, wpc \in {"prebuild", "trigger"}, ~busy,
           busy' = TRUE, pending'.root = RootOf(gen), wpc' = "send",
           UNCHANGED <<spc, cur, chan, closed>>
    PROVE  FlightInv'
<1>0. gen' = gen + 1 /\ roots' = roots \cup {RootOf(gen)}
  BY DEF Capture
<1>1. RootOf(gen).gen = gen
  BY DEF RootOf
<1>2. \A r \in roots' : r.gen \in Nat /\ r.gen < gen'
  BY <1>0, <1>1 DEF FlightInv
<1>3. RootOf(gen) \notin roots
  BY <1>1 DEF FlightInv
<1>4. chan = <<>> /\ spc \in {"recv", "drop"} /\ ~closed
  BY DEF FlightInv
<1>5. roots = WithSerializer /\ (spc = "drop" => cur.root \in roots)
  BY <1>4 DEF FlightInv, WithWriter, InChannel
<1>6. WithWriter' = {RootOf(gen)} /\ InChannel' = {} /\ WithSerializer' = WithSerializer
  BY <1>4 DEF WithWriter, InChannel, WithSerializer
<1>. QED BY <1>0, <1>2, <1>3, <1>4, <1>5, <1>6 DEF FlightInv

\* send: the Root moves into the channel.
LEMMA SendFlight ==
    ASSUME FlightInv, Send PROVE FlightInv'
<1>0. /\ wpc = "send" /\ chan' = <<pending>> /\ wpc' \in {"await", "op"}
      /\ gen' = gen /\ roots' = roots /\ spc' = spc /\ cur' = cur
      /\ busy' = busy /\ closed' = closed
  BY DEF Send, Goto, cowVars, serVars
<1>1. Head(<<pending>>) = pending /\ Tail(<<pending>>) = <<>> /\ <<pending>> # <<>>
  OBVIOUS
<1>2. WithWriter' = {} /\ InChannel' = WithWriter /\ WithSerializer' = WithSerializer
  BY <1>0, <1>1 DEF WithWriter, InChannel, WithSerializer
<1>3. InChannel = {}
  BY <1>0 DEF FlightInv, InChannel
<1>. QED BY <1>0, <1>1, <1>2, <1>3 DEF FlightInv

\* The iterator takes the message out of the channel.
LEMMA RecvFlight ==
    ASSUME FlightInv, Recv PROVE FlightInv'
<1>0. /\ spc = "recv" /\ chan # <<>> /\ cur' = Head(chan) /\ chan' = Tail(chan)
      /\ spc' = "read" /\ gen' = gen /\ roots' = roots /\ wpc' = wpc
      /\ pending' = pending /\ busy' = busy /\ closed' = closed
  BY DEF Recv, cowVars, writerVars
<1>1. busy /\ chan' = <<>> /\ cur'.root \in roots /\ wpc # "send"
  BY <1>0 DEF FlightInv
<1>2. WithWriter = {} /\ WithWriter' = {} /\ InChannel' = {} /\ WithSerializer = {}
      /\ WithSerializer' = InChannel
  BY <1>0, <1>1 DEF WithWriter, InChannel, WithSerializer
<1>. QED BY <1>0, <1>1, <1>2 DEF FlightInv

\* The flag goes down while the Root is still held.
LEMMA ClearBusyFlight ==
    ASSUME FlightInv, ClearBusy PROVE FlightInv'
<1>0. /\ spc = "clear" /\ spc' = "drop" /\ busy' = FALSE
      /\ chan' = chan /\ cur' = cur /\ gen' = gen /\ roots' = roots /\ wpc' = wpc
      /\ pending' = pending /\ closed' = closed
  BY DEF ClearBusy, cowVars, writerVars
<1>1. chan = <<>> /\ wpc # "send" /\ wpc # "prebuild" /\ cur.root \in roots
  BY <1>0 DEF FlightInv
<1>2. WithWriter' = {} /\ InChannel' = {} /\ WithWriter = {} /\ InChannel = {}
      /\ WithSerializer' = WithSerializer
  BY <1>0, <1>1 DEF WithWriter, InChannel, WithSerializer
<1>. QED BY <1>0, <1>1, <1>2 DEF FlightInv

\* The Root is dropped; the one the writer may have sent meanwhile stays.
LEMMA DropCurrentFlight ==
    ASSUME FlightInv, DropCurrent PROVE FlightInv'
<1>0. /\ spc = "drop" /\ spc' = "recv" /\ roots' = roots \ {cur.root}
      /\ chan' = chan /\ gen' = gen /\ wpc' = wpc
      /\ pending' = pending /\ busy' = busy /\ closed' = closed
  BY DEF DropCurrent, DropRoot, writerVars
<1>1. /\ WithWriter' = WithWriter /\ InChannel' = InChannel
      /\ WithSerializer' = {} /\ WithSerializer = {cur.root}
  BY <1>0 DEF WithWriter, InChannel, WithSerializer
<1>2. roots' = WithWriter \cup InChannel
  BY <1>0, <1>1 DEF FlightInv
<1>3. /\ wpc = "send" => pending.root \in roots'
      /\ chan # <<>> => Head(chan).root \in roots'
  BY <1>2 DEF WithWriter, InChannel
<1>. QED BY <1>0, <1>1, <1>2, <1>3 DEF FlightInv

\* Every step of the program keeps the handover protocol.
LEMMA LiveNextFlight ==
    ASSUME FlightInv, gen \in Nat, [LiveNext]_vars PROVE FlightInv'
<1>1. CASE WriterStep
  <2>1. ASSUME NEW t \in Ticks, NEW qty \in Quantities, NEW side \in Sides,
               Prebuild(t, qty, side)
        PROVE  FlightInv'
    BY <2>1, StutterFlight DEF Prebuild, BeginInsert, Start, writerVars, serVars
  <2>2. CASE WarmupOp
    BY <2>2, StreamOpIsNext, StutterFlight DEF WarmupOp, serVars
  <2>3. CASE BeginOp
    BY <2>3, StreamOpIsNext, StutterFlight DEF BeginOp, Goto, serVars
  <2>4. CASE StartHandshake
    <3>1. wpc = "prebuild" /\ ~busy
      BY <2>4 DEF StartHandshake, FlightInv
    <3>. QED BY <2>4, <3>1, CaptureFlight DEF StartHandshake, Goto, serVars
  <2>5. CASE TakeTrigger
    BY <2>5, CaptureFlight DEF TakeTrigger, Goto, serVars
  <2>6. CASE Write
    BY <2>6, StutterFlight DEF Write, WriteCell, writerVars, serVars
  <2>7. CASE AwaitHandshake \/ NoTrigger \/ SkipTrigger \/ EndIteration
    BY <2>7, StutterFlight
    DEF AwaitHandshake, NoTrigger, SkipTrigger, EndIteration, Goto, cowVars, serVars
  <2>8. CASE Send
    BY <2>8, SendFlight
  <2>9. CASE CloseChannel
    BY <2>9 DEF CloseChannel, Goto, cowVars, serVars,
                FlightInv, WithWriter, InChannel, WithSerializer
  <2>10. CASE Join
    BY <2>10 DEF Join, Goto, cowVars, FlightInv, WithWriter, InChannel, WithSerializer
  <2>. QED BY <1>1, <2>1, <2>2, <2>3, <2>4, <2>5, <2>6, <2>7, <2>8, <2>9, <2>10
           DEF WriterStep
<1>2. CASE SerializerStep
  <2>1. CASE Recv
    BY <2>1, RecvFlight
  <2>2. CASE ReadCell
    BY <2>2, StutterFlight DEF ReadCell, cowVars, writerVars
  <2>3. CASE RecordDuration
    BY <2>3 DEF RecordDuration, cowVars, writerVars,
                FlightInv, WithWriter, InChannel, WithSerializer
  <2>4. CASE ClearBusy
    BY <2>4, ClearBusyFlight
  <2>5. CASE DropCurrent
    BY <2>5, DropCurrentFlight
  <2>6. CASE ExitLoop
    BY <2>6 DEF ExitLoop, cowVars, writerVars,
                FlightInv, WithWriter, InChannel, WithSerializer
  <2>. QED BY <1>2, <2>1, <2>2, <2>3, <2>4, <2>5, <2>6 DEF SerializerStep
<1>3. CASE Finished \/ UNCHANGED vars
  BY <1>3, StutterFlight DEF Finished, vars, cowVars, writerVars, serVars
<1>. QED BY <1>1, <1>2, <1>3 DEF LiveNext

-----------------------------------------------------------------------------
(* The reads of the serializer.                                            *)

\* A sequence is one over its own values; so it stays when it grows.
LEMMA AppendOwnRange ==
    ASSUME NEW s, s \in Seq(Range(s)), NEW x
    PROVE  Append(s, x) \in Seq(Range(Append(s, x)))
<1>. DEFINE S == Range(s) \cup {x}
<1>1. s \in Seq(S) /\ x \in S
  BY DEF Range
<1>2. Append(s, x) \in Seq(S)
  BY <1>1
<1>. QED BY <1>2, SeqOfRange

\* Each read of the serializer agrees with the capture, because its Root is
\* alive (FlightInv) and frozen (EpochInv).
LEMMA LiveNextReads ==
    ASSUME EpochInv, FlightInv, ReadsFrozen, [LiveNext]_vars PROVE ReadsFrozen'
<1>1. CASE UNCHANGED <<spc, cur, got>>
  BY <1>1 DEF ReadsFrozen
<1>2. CASE Recv
  BY <1>2 DEF Recv, ReadsFrozen
<1>3. CASE ReadCell
  <2>. DEFINE c == Plan(cur.root)[Len(got) + 1]
              v == ReadVia(cur.root.table, c)
  <2>1. spc = "read" /\ got' = Append(got, v) /\ c \in Cells /\ cur' = cur /\ spc' = spc
    BY <1>3 DEF ReadCell
  <2>2. cur.root \in roots
    BY <2>1 DEF FlightInv
  <2>3. v = cur.root.frozen[c]
    BY <2>1, <2>2 DEF EpochInv, RootsFrozen
  <2>4. got \in Seq(Range(got)) /\ \A i \in 1..Len(got) : got[i] = cur.root.frozen[Plan(cur.root)[i]]
    BY <2>1 DEF ReadsFrozen
  <2>. HIDE DEF v
  <2>5. got' \in Seq(Range(got'))
    BY <2>1, <2>4, AppendOwnRange
  <2>6. ASSUME NEW i \in 1..Len(got')
        PROVE  got'[i] = cur.root.frozen[Plan(cur.root)[i]]
    <3>1. Len(got) \in Nat /\ Len(got') = Len(got) + 1
      BY <2>1, <2>4
    <3>2. CASE i = Len(got) + 1
      BY <3>2, <2>1, <2>3, <2>4
    <3>3. CASE i \in 1..Len(got)
      <4>1. got'[i] = got[i]
        BY <3>3, <2>1, <2>4
      <4>. QED BY <4>1, <3>3, <2>4
    <3>. QED BY <3>1, <3>2, <3>3
  <2>. QED BY <2>1, <2>5, <2>6 DEF ReadsFrozen
<1>4. CASE RecordDuration
  BY <1>4 DEF RecordDuration, ReadsFrozen
<1>5. CASE ClearBusy \/ DropCurrent \/ ExitLoop
  BY <1>5 DEF ClearBusy, DropCurrent, ExitLoop, ReadsFrozen
<1>6. CASE WriterStep
  <2>1. UNCHANGED <<spc, cur, got>>
    BY <1>6 DEF WriterStep, Prebuild, WarmupOp, StartHandshake, AwaitHandshake, NoTrigger,
                SkipTrigger, TakeTrigger, Send, BeginOp, Write, EndIteration,
                CloseChannel, Join, serVars
  <2>. QED BY <2>1, <1>1
<1>7. CASE Finished \/ UNCHANGED vars
  BY <1>7, <1>1 DEF Finished, vars, serVars
<1>. QED BY <1>2, <1>3, <1>4, <1>5, <1>6, <1>7 DEF LiveNext, SerializerStep

-----------------------------------------------------------------------------

\* The three invariants together are inductive for the program.
LEMMA LiveInductive == LiveSpec => [](EpochInv /\ FlightInv /\ ReadsFrozen)
<1>. DEFINE LiveInv == EpochInv /\ FlightInv /\ ReadsFrozen
<1>1. LiveInit => LiveInv
  BY InitEpoch, InitFlight DEF LiveInit, ReadsFrozen
<1>2. LiveInv /\ [LiveNext]_vars => LiveInv'
  <2>. SUFFICES ASSUME LiveInv, [LiveNext]_vars PROVE LiveInv'
    OBVIOUS
  <2>1. EpochInv'
    BY LiveNextIsNext, NextEpoch
  <2>2. FlightInv'
    BY LiveNextFlight DEF EpochInv, Shape
  <2>3. ReadsFrozen'
    BY LiveNextReads
  <2>. QED BY <2>1, <2>2, <2>3
<1>. QED BY <1>1, <1>2, PTL DEF LiveSpec

\* The live programs are users of the copy-on-write book: every behaviour of
\* theirs is one of CowBook, so what holds of the book holds under them.
THEOREM LiveImplementsCowBook == LiveSpec => Spec
<1>1. LiveInit => Init
  BY DEF LiveInit
<1>2. FlightInv /\ [LiveNext]_vars => [Next]_cowVars
  BY LiveNextIsNext
<1>. QED BY <1>1, <1>2, LiveInductive, PTL DEF LiveSpec, Spec

\* encode_root never reads a cell the writer has changed since the capture.
THEOREM LiveReadsFrozen == LiveSpec => []ReadsFrozen
BY LiveInductive, PTL

\* The busy flag keeps the one-place channel free for the writer: tx.send
\* never waits inside a timed iteration.
THEOREM LiveSendNeverBlocks == LiveSpec => []SendNeverBlocks
<1>1. FlightInv => SendNeverBlocks
  BY DEF FlightInv, SendNeverBlocks
<1>. QED BY <1>1, LiveInductive, PTL

-----------------------------------------------------------------------------
(* The memory of the versions.                                             *)

\* There are finitely many chunks.
LEMMA ChunksFinite == IsFiniteSet(Chunks)
<1>1. IsFiniteSet(Slots) /\ IsFiniteSet(Ticks)
  BY BookConfig, FS_Interval DEF Slots, Ticks
<1>2. IsFiniteSet({"orders"}) /\ IsFiniteSet({"bids", "asks"})
  <2>1. IsFiniteSet({}) /\ {} \cup {"bids"} = {"bids"} /\ {"bids"} \cup {"asks"} = {"bids", "asks"}
    BY FS_EmptySet
  <2>2. IsFiniteSet({"bids"}) /\ IsFiniteSet({"orders"})
    BY FS_Singleton
  <2>3. IsFiniteSet({"bids"} \cup {"asks"})
    BY <2>2, FS_AddElement
  <2>. QED BY <2>1, <2>2, <2>3
<1>3. IsFiniteSet({"orders"} \X Slots) /\ IsFiniteSet({"bids", "asks"} \X Ticks)
  BY <1>1, <1>2, FS_Product
<1>4. IsFiniteSet(Cells)
  BY <1>3, FS_Union DEF Cells
<1>. DEFINE f == [c \in Cells |-> ChunkOf(c)]
<1>5. f \in Surjection(Cells, Chunks)
  BY DEF Chunks, Surjection
<1>. QED BY <1>4, <1>5, FS_Surjection

\* A table leads to no more references than it has chunks.
LEMMA TableSize ==
    ASSUME NEW tbl
    PROVE  /\ IsFiniteSet({tbl[j] : j \in Chunks})
           /\ Cardinality({tbl[j] : j \in Chunks}) <= Cardinality(Chunks)
<1>. DEFINE f == [j \in Chunks |-> tbl[j]]
            T == {tbl[j] : j \in Chunks}
<1>1. f \in Surjection(Chunks, T)
  BY DEF Surjection
<1>. HIDE DEF f, T
<1>2. IsFiniteSet(T) /\ Cardinality(T) <= Cardinality(Chunks)
  BY <1>1, ChunksFinite, FS_Surjection
<1>. QED BY <1>2 DEF T

\* Two at most are alive: the one on its way from the writer to the encoder,
\* and the one being dropped.
LEMMA TwoRoots == FlightInv => \E a, b : roots \subseteq {a, b}
<1>. SUFFICES ASSUME FlightInv PROVE \E a, b : roots \subseteq {a, b}
  OBVIOUS
<1>1. roots = WithWriter \cup InChannel \cup WithSerializer /\ (wpc = "send" => chan = <<>>)
  BY DEF FlightInv
<1>2. PICK a : WithWriter \cup InChannel \subseteq {a}
  <2>1. WithWriter \cup InChannel \subseteq {IF wpc = "send" THEN pending.root ELSE Head(chan).root}
    BY <1>1 DEF WithWriter, InChannel
  <2>. QED BY <2>1
<1>3. WithSerializer \subseteq {cur.root}
  BY DEF WithSerializer
<1>4. roots \subseteq {a, cur.root}
  BY <1>1, <1>2, <1>3
<1>. QED BY <1>4

\* The union of the tables of the book and of two Roots.
LEMMA ThreeVersions ==
    ASSUME NEW a, NEW b, roots \subseteq {a, b}
    PROVE  /\ Cardinality(roots) <= 2
           /\ Cardinality(Held(table, roots)) <= 3 * Cardinality(Chunks)
<1>. DEFINE A == {table[j] : j \in Chunks}
            B == {a.table[j] : j \in Chunks}
            C == {b.table[j] : j \in Chunks}
            n == Cardinality(Chunks)
<1>1. /\ IsFiniteSet(A) /\ Cardinality(A) <= n /\ IsFiniteSet(B) /\ Cardinality(B) <= n
      /\ IsFiniteSet(C) /\ Cardinality(C) <= n
  BY TableSize
<1>2. Held(table, roots) \subseteq A \cup B \cup C
  BY DEF Held
<1>3. n \in Nat
  BY ChunksFinite, FS_CardinalityType
<1>. HIDE DEF A, B, C, n
<1>4. Cardinality(A) \in Nat /\ Cardinality(B) \in Nat /\ Cardinality(C) \in Nat
  BY <1>1, FS_CardinalityType
<1>5. ASSUME NEW S, NEW T, IsFiniteSet(S), IsFiniteSet(T)
      PROVE  IsFiniteSet(S \cup T) /\ Cardinality(S \cup T) \in Nat
             /\ Cardinality(S \cup T) <= Cardinality(S) + Cardinality(T)
  <2>1. /\ IsFiniteSet(S \cup T) /\ IsFiniteSet(S \cap T)
        /\ Cardinality(S \cup T) = Cardinality(S) + Cardinality(T) - Cardinality(S \cap T)
    <3>1. IsFiniteSet(S \cap T)
      BY <1>5, FS_Intersection
    <3>2. IsFiniteSet(S \cup T) /\ Cardinality(S \cup T) = Cardinality(S) + Cardinality(T) - Cardinality(S \cap T)
      BY <1>5, FS_Union
    <3>. QED BY <3>1, <3>2
  <2>2. Cardinality(S) \in Nat /\ Cardinality(T) \in Nat /\ Cardinality(S \cap T) \in Nat
        /\ Cardinality(S \cup T) \in Nat
    BY <1>5, <2>1, FS_CardinalityType
  <2>. QED BY <2>1, <2>2
<1>6. IsFiniteSet(A \cup B) /\ Cardinality(A \cup B) \in Nat /\ Cardinality(A \cup B) <= n + n
  <2>1. IsFiniteSet(A \cup B) /\ Cardinality(A \cup B) \in Nat
        /\ Cardinality(A \cup B) <= Cardinality(A) + Cardinality(B)
    BY <1>1, <1>5
  <2>. QED BY <1>1, <1>3, <1>4, <2>1
<1>7. IsFiniteSet(A \cup B \cup C) /\ Cardinality(A \cup B \cup C) \in Nat
      /\ Cardinality(A \cup B \cup C) <= n + n + n
  <2>1. IsFiniteSet((A \cup B) \cup C) /\ Cardinality((A \cup B) \cup C) \in Nat
        /\ Cardinality((A \cup B) \cup C) <= Cardinality(A \cup B) + Cardinality(C)
    BY <1>1, <1>5, <1>6
  <2>. QED BY <1>1, <1>3, <1>4, <1>6, <2>1
<1>8. Cardinality(Held(table, roots)) <= 3 * n
  <2>1. IsFiniteSet(Held(table, roots)) /\ Cardinality(Held(table, roots)) <= Cardinality(A \cup B \cup C)
    BY <1>2, <1>7, FS_Subset
  <2>2. Cardinality(Held(table, roots)) \in Nat
    BY <2>1, FS_CardinalityType
  <2>. QED BY <1>3, <1>7, <2>1, <2>2
<1>9. Cardinality(roots) <= 2
  <2>1. IsFiniteSet({a}) /\ Cardinality({a}) = 1
    BY FS_Singleton
  <2>2. IsFiniteSet({a} \cup {b}) /\ Cardinality({a} \cup {b}) <= 2
    BY <2>1, FS_AddElement
  <2>3. roots \in SUBSET ({a} \cup {b})
    OBVIOUS
  <2>4. IsFiniteSet(roots) /\ Cardinality(roots) <= Cardinality({a} \cup {b})
    BY <2>2, <2>3, FS_Subset
  <2>5. Cardinality(roots) \in Nat /\ Cardinality({a} \cup {b}) \in Nat
    BY <2>2, <2>4, FS_CardinalityType
  <2>. QED BY <2>2, <2>4, <2>5
<1>. QED BY <1>8, <1>9 DEF n

\* A snapshot costs at most two further versions of every chunk: the Arcs are
\* exact, and the flag that is cleared before the Root is dropped lets a second
\* Root live, but never a third.
THEOREM LiveAtMostThreeVersions == LiveSpec => []AtMostThreeVersions
<1>1. MemoryExact /\ FlightInv => AtMostThreeVersions
  BY TwoRoots, ThreeVersions DEF AtMostThreeVersions
<1>. QED BY <1>1, LiveInductive, LiveImplementsCowBook, SpecMemoryExact, PTL

-----------------------------------------------------------------------------
(* The images.                                                             *)

\* The most orders that rest at once, and how many rest when n operations of
\* the stream and of prebuild have begun.
Most == Steady + 1 - (Steady % 2)

RestAfter(n) ==
    IF program = "live_mvcc" THEN Steady
    ELSE IF n % 2 = 1 THEN Most ELSE Most - 1

OpsBegun == Steady + Warmup + k + (IF wpc = "writes" THEN 1 ELSE 0)
Resting == Cardinality(DOMAIN flat.idmap)

\* The book reaches no further into the pool than that.
CountInv ==
    /\ program \in {"live_mvcc", "live_mvcc_churn"} /\ k \in Int
    /\ lastId < Steady => wpc = "prebuild" /\ k = -Warmup /\ Resting = lastId
    /\ lastId >= Steady => Resting = RestAfter(OpsBegun)
    /\ flat.hwm <= Most

\* What the Roots were taken from keeps its lists; a Root is encoded when all
\* of it was read.
RootsIntact == \A r \in roots : Intact(BookAt(r)) /\ r.scalars.hwm <= Most
ReadWhole == spc = "clear" => Len(got) = Len(Plan(cur.root))

\* The largest group the code's counter takes (65535) is odd and the largest
\* `steady` it accepts: one order more than an even `steady` still fits.
CountersSuffice == Steady <= GroupMax /\ GroupMax % 2 = 1

\* The numbers.
LEMMA MostIs ==
    /\ Steady \in Nat /\ Steady > 0 /\ Warmup \in Nat /\ Most \in Nat
    /\ Steady <= Most /\ Most <= Steady + 1 /\ Most % 2 = 1
    /\ Steady % 2 = 1 => Most = Steady
    /\ Steady % 2 = 0 => Most = Steady + 1
    /\ CountersSuffice => Most <= GroupMax
<1>1. Steady \in Nat /\ Steady > 0 /\ Warmup \in Nat
  BY LiveAssumption, BookConfig
<1>2. Steady % 2 \in {0, 1}
  BY <1>1
<1>3. CASE Steady % 2 = 1
  BY <1>1, <1>3 DEF Most, CountersSuffice
<1>4. CASE Steady % 2 = 0
  <2>1. Most = Steady + 1 /\ Most % 2 = 1
    BY <1>1, <1>4 DEF Most
  <2>2. CountersSuffice => Steady < GroupMax
    BY <1>1, <1>4, GroupMaxAssumption DEF CountersSuffice
  <2>. QED BY <1>1, <1>4, <2>1, <2>2, GroupMaxAssumption
<1>. QED BY <1>1, <1>2, <1>3, <1>4

\* The orders are finitely many.
LEMMA RestingTyped ==
    ASSUME LockInv PROVE Resting \in Nat /\ IsFiniteSet(DOMAIN flat.idmap) /\ flat.hwm \in Nat
<1>1. IsFiniteSet(DOMAIN flat.idmap) /\ flat.hwm \in Nat
  BY IntactBooks, IdsFinite DEF LockInv
<1>. QED BY <1>1, FS_CardinalityType DEF Resting

\* An insert finds a freed slot, or an unused one below the bound.
LEMMA InsertCounts ==
    ASSUME LockInv, flat.hwm <= Most, Resting < Most,
           NEW t \in Ticks, NEW qty \in Quantities, NEW side \in Sides, BeginInsert(t, qty, side)
    PROVE  Resting' = Resting + 1 /\ flat'.hwm <= Most /\ lastId' = lastId + 1
<1>1. /\ flat' = Insert(flat, lastId + 1, PriceOf(t), qty, side) /\ ~Exhausted(flat)
      /\ lastId + 1 \in Nat \ {0} /\ lastId + 1 \notin DOMAIN flat.idmap
  BY InsertLock
<1>2. Intact(flat) /\ qty \in Nat /\ lastId' = lastId + 1
  BY CowWorkload DEF LockInv, BeginInsert
<1>3. /\ DOMAIN flat'.idmap = DOMAIN flat.idmap \cup {lastId + 1}
      /\ flat'.hwm = IF flat.freeHead = NIL THEN flat.hwm + 1 ELSE flat.hwm
  BY <1>1, <1>2, InsertIntact
<1>4. Resting \in Nat /\ IsFiniteSet(DOMAIN flat.idmap) /\ flat.hwm \in Nat
  BY RestingTyped
<1>5. Resting' = Resting + 1
  BY <1>1, <1>3, <1>4, FS_AddElement DEF Resting
<1>6. flat.freeHead = NIL => flat.hwm <= Resting
  BY <1>2, FullBook DEF Resting
<1>. QED BY <1>2, <1>3, <1>4, <1>5, <1>6, MostIs

\* An order leaves.
LEMMA DepartCounts ==
    ASSUME LockInv, NEW id \in DOMAIN scalars.idmap, BeginCancel(id) \/ BeginFill(id)
    PROVE  Resting' = Resting - 1 /\ flat'.hwm = flat.hwm /\ lastId' = lastId
<1>1. flat' \in {Fill(flat, id), Cancel(flat, id)} /\ id \in DOMAIN flat.idmap /\ lastId' = lastId
  BY CancelLock, FillLock DEF BeginCancel, BeginFill
<1>2. DOMAIN flat'.idmap = DOMAIN flat.idmap \ {id} /\ flat'.hwm = flat.hwm
  BY <1>1, LeftIntact DEF LockInv
<1>3. Cardinality(DOMAIN flat.idmap \ {id}) = Cardinality(DOMAIN flat.idmap) - 1
  BY <1>1, RestingTyped, FS_RemoveElement
<1>. QED BY <1>1, <1>2, <1>3 DEF Resting

\* One operation of the stream.
LEMMA StreamOpCounts ==
    ASSUME LockInv, CountInv, lastId >= Steady, wpc # "writes", StreamOp
    PROVE  /\ Resting' = RestAfter(OpsBegun + 1) /\ flat'.hwm <= Most
           /\ lastId' \in Nat /\ lastId' >= Steady
<1>. DEFINE n == Steady + Warmup + k
<1>1. OpsBegun = n /\ n \in Int /\ Resting = RestAfter(n) /\ Resting \in Nat /\ flat.hwm <= Most
      /\ lastId \in Nat /\ Most \in Nat /\ Steady \in Nat
  <2>1. Resting \in Nat /\ lastId \in Nat
    BY RestingTyped, CowWorkload DEF LockInv
  <2>2. k \in Int /\ Resting = RestAfter(OpsBegun) /\ flat.hwm <= Most
    BY DEF CountInv
  <2>. QED BY <2>1, <2>2, MostIs DEF OpsBegun
<1>. HIDE DEF n
<1>2. CASE program = "live_mvcc"
  <2>1. PICK id \in DOMAIN scalars.idmap, fillQty \in FillQuantities : BeginUpdate(id, fillQty)
    BY <1>2 DEF StreamOp
  <2>2. flat' = Update(flat, id, fillQty) /\ id \in DOMAIN flat.idmap /\ lastId' = lastId
    BY <2>1, UpdateLock DEF BeginUpdate
  <2>3. flat'.idmap = flat.idmap /\ flat'.hwm = flat.hwm
    BY <2>2, UpdateIntact, CowWorkload DEF LockInv
  <2>4. Resting' = Resting
    BY <2>3 DEF Resting
  <2>. QED BY <1>1, <1>2, <2>2, <2>3, <2>4 DEF RestAfter
<1>3. CASE program # "live_mvcc"
  <2>0. Resting = IF n % 2 = 1 THEN Most ELSE Most - 1
    BY <1>1, <1>3 DEF RestAfter
  <2>00. RestAfter(n + 1) = IF (n + 1) % 2 = 1 THEN Most ELSE Most - 1
    BY <1>3 DEF RestAfter
  <2>1. CASE ChurnInsertDue
    <3>1. n % 2 # 1
      <4>1. CASE DOMAIN scalars.idmap = {}
        <5>1. Resting = 0
          BY <4>1, FS_EmptySet DEF Resting, LockInv, ScalarsOf
        <5>. QED BY <1>1, <2>0, <5>1, MostIs
      <4>2. CASE n % 2 = 0
        BY <4>2
      <4>. QED BY <2>1, <4>1, <4>2 DEF ChurnInsertDue, n
    <3>2. (n + 1) % 2 = 1 /\ Resting = Most - 1
      BY <1>1, <2>0, <3>1
    <3>3. PICK t \in Ticks, qty \in Quantities, side \in Sides : BeginInsert(t, qty, side)
      BY <1>3, <2>1 DEF StreamOp
    <3>4. Resting' = Resting + 1 /\ flat'.hwm <= Most /\ lastId' = lastId + 1
      BY <1>1, <3>2, <3>3, InsertCounts
    <3>. QED BY <1>1, <2>00, <3>2, <3>4
  <2>2. CASE ~ChurnInsertDue
    <3>1. n % 2 = 1 /\ (n + 1) % 2 # 1
      BY <1>1, <2>2 DEF ChurnInsertDue, n
    <3>2. PICK id \in DOMAIN scalars.idmap : BeginCancel(id) \/ BeginFill(id)
      BY <1>3, <2>2 DEF StreamOp
    <3>3. Resting' = Resting - 1 /\ flat'.hwm = flat.hwm /\ lastId' = lastId
      BY <3>2, DepartCounts
    <3>. QED BY <1>1, <2>0, <2>00, <3>1, <3>3
  <2>. QED BY <2>1, <2>2
<1>. QED BY <1>2, <1>3

\* What the counts are of.
LEMMA StutterCounts ==
    ASSUME CountInv, UNCHANGED <<flat, lastId, program>>, k' \in Int,
           lastId < Steady => wpc' = wpc /\ k' = k, OpsBegun' = OpsBegun
    PROVE  CountInv'
<1>1. Resting' = Resting /\ RestAfter(OpsBegun)' = RestAfter(OpsBegun) /\ Most' = Most
  BY DEF Resting, RestAfter, Most
<1>. QED BY <1>1 DEF CountInv

\* Every step of the program keeps the counts.
LEMMA CountStep ==
    ASSUME LockInv, CountInv, [LiveNext]_vars PROVE CountInv'
<1>1. k \in Int /\ Steady \in Nat /\ Warmup \in Nat /\ lastId \in Nat /\ Most' = Most
  BY MostIs, CowWorkload DEF CountInv, LockInv, Most
<1>2. ASSUME StreamOp, wpc # "writes", lastId >= Steady, program' = program, k' \in Int,
             OpsBegun' = OpsBegun + 1
      PROVE  CountInv'
  <2>1. /\ Resting' = RestAfter(OpsBegun + 1) /\ flat'.hwm <= Most
        /\ lastId' \in Nat /\ lastId' >= Steady
    BY <1>2, StreamOpCounts
  <2>2. RestAfter(OpsBegun)' = RestAfter(OpsBegun + 1)
    BY <1>2 DEF RestAfter, Most
  <2>3. program' \in {"live_mvcc", "live_mvcc_churn"} /\ ~(lastId' < Steady)
    BY <1>1, <1>2, <2>1 DEF CountInv
  <2>. QED BY <1>1, <1>2, <2>1, <2>2, <2>3 DEF CountInv
<1>3. CASE WriterStep
  <2>0. program' = program
    BY <1>3 DEF WriterStep
  <2>1. ASSUME NEW t \in Ticks, NEW qty \in Quantities, NEW side \in Sides,
               Prebuild(t, qty, side)
        PROVE  CountInv'
    <3>1. /\ wpc = "prebuild" /\ wpc' = wpc /\ k' = k /\ lastId < Steady /\ BeginInsert(t, qty, side)
      BY <2>1 DEF Prebuild, writerVars
    <3>2. Resting = lastId /\ k = -Warmup /\ flat.hwm <= Most
      BY <3>1 DEF CountInv
    <3>3. Resting' = lastId + 1 /\ flat'.hwm <= Most /\ lastId' = lastId + 1
      BY <1>1, <3>1, <3>2, MostIs, InsertCounts
    <3>4. OpsBegun' = Steady
      BY <1>1, <3>1, <3>2 DEF OpsBegun
    <3>5. lastId' >= Steady => lastId' = Steady
      BY <1>1, <3>1, <3>3
    <3>6. RestAfter(OpsBegun)' = Steady
      <4>1. RestAfter(OpsBegun)' = IF program = "live_mvcc" THEN Steady
                                   ELSE IF Steady % 2 = 1 THEN Most ELSE Most - 1
        BY <2>0, <3>4 DEF RestAfter, Most
      <4>2. Steady % 2 = 1 \/ Steady % 2 = 0
        BY <1>1
      <4>. QED BY <1>1, <4>1, <4>2, MostIs
    <3>7. program' \in {"live_mvcc", "live_mvcc_churn"}
      BY <2>0 DEF CountInv
    <3>. QED BY <1>1, <2>0, <3>1, <3>2, <3>3, <3>5, <3>6, <3>7 DEF CountInv
  <2>2. CASE WarmupOp
    <3>1. StreamOp /\ wpc = "prebuild" /\ wpc' = wpc /\ lastId >= Steady /\ k' = k + 1
      BY <2>2 DEF WarmupOp
    <3>2. OpsBegun' = OpsBegun + 1 /\ k' \in Int
      BY <1>1, <3>1 DEF OpsBegun
    <3>. QED BY <1>2, <2>0, <3>1, <3>2
  <2>3. CASE BeginOp
    <3>1. StreamOp /\ wpc = "op" /\ wpc' = "writes" /\ k' = k
      BY <2>3 DEF BeginOp, Goto
    <3>2. lastId >= Steady
      BY <1>1, <3>1 DEF CountInv
    <3>3. OpsBegun' = OpsBegun + 1 /\ k' \in Int
      BY <1>1, <3>1 DEF OpsBegun
    <3>. QED BY <1>2, <2>0, <3>1, <3>2, <3>3
  <2>4. CASE StartHandshake
    <3>1. /\ wpc = "prebuild" /\ wpc' = "send" /\ k' = k /\ lastId >= Steady
          /\ UNCHANGED <<flat, lastId>>
      BY <2>4 DEF StartHandshake, Goto, Capture
    <3>2. OpsBegun' = OpsBegun
      BY <3>1 DEF OpsBegun
    <3>. QED BY <1>1, <2>0, <3>1, <3>2, StutterCounts
  <2>5. CASE Write
    <3>1. wpc' = wpc /\ k' = k /\ UNCHANGED <<flat, lastId>>
      BY <2>5 DEF Write, writerVars, WriteCell
    <3>2. OpsBegun' = OpsBegun
      BY <3>1 DEF OpsBegun
    <3>. QED BY <1>1, <2>0, <3>1, <3>2, StutterCounts
  <2>6. CASE EndIteration
    <3>1. wpc = "writes" /\ wpc' = "trigger" /\ k' = k + 1 /\ UNCHANGED <<flat, lastId>>
      BY <2>6 DEF EndIteration, Goto, cowVars
    <3>2. OpsBegun' = OpsBegun /\ k' \in Int
      BY <1>1, <3>1 DEF OpsBegun
    <3>3. ~(lastId < Steady)
      BY <3>1 DEF CountInv
    <3>. QED BY <2>0, <3>1, <3>2, <3>3, StutterCounts
  <2>7. CASE \/ AwaitHandshake \/ NoTrigger \/ SkipTrigger \/ TakeTrigger \/ Send
             \/ CloseChannel \/ Join
    <3>1. /\ wpc \in {"await", "trigger", "send", "join"}
          /\ wpc' \in {"await", "trigger", "op", "send", "join", "done"}
          /\ k' = k /\ UNCHANGED <<flat, lastId>>
      BY <2>7 DEF AwaitHandshake, NoTrigger, SkipTrigger, TakeTrigger, Send, CloseChannel, Join,
                  Goto, cowVars, Capture
    <3>2. OpsBegun' = OpsBegun
      BY <3>1 DEF OpsBegun
    <3>3. ~(lastId < Steady)
      BY <3>1 DEF CountInv
    <3>. QED BY <1>1, <2>0, <3>1, <3>2, <3>3, StutterCounts
  <2>. QED BY <1>3, <2>1, <2>2, <2>3, <2>4, <2>5, <2>6, <2>7 DEF WriterStep
<1>4. CASE SerializerStep \/ Finished \/ UNCHANGED vars
  <2>1. wpc' = wpc /\ k' = k /\ UNCHANGED <<flat, lastId, program>>
    BY <1>4 DEF SerializerStep, Recv, ReadCell, RecordDuration, ClearBusy, DropCurrent, ExitLoop,
                Finished, vars, cowVars, writerVars, DropRoot
  <2>2. OpsBegun' = OpsBegun
    BY <2>1 DEF OpsBegun
  <2>. QED BY <1>1, <2>1, <2>2, StutterCounts
<1>. QED BY <1>3, <1>4 DEF LiveNext

\* Before the first operation.
LEMMA InitCounts == LiveInit => CountInv
<1>. SUFFICES ASSUME LiveInit PROVE CountInv
  OBVIOUS
<1>1. /\ program \in {"live_mvcc", "live_mvcc_churn"} /\ wpc = "prebuild" /\ k = -Warmup
      /\ flat = NewBook /\ lastId = 0
  BY DEF LiveInit, Init
<1>2. DOMAIN NewBook.idmap = {} /\ NewBook.hwm = 0
  BY DEF NewBook
<1>3. Resting = 0
  BY <1>1, <1>2, FS_EmptySet DEF Resting
<1>. QED BY <1>1, <1>2, <1>3, MostIs DEF CountInv

-----------------------------------------------------------------------------
(* The Roots.                                                              *)

\* The book at a capture is the book as it is then.
LEMMA CapturedBook == BookAt(RootOf(gen)) = View
<1>. DEFINE r == RootOf(gen)
<1>1. r.frozen = [c \in Cells |-> ReadVia(table, c)] /\ r.scalars = scalars
  BY DEF RootOf
<1>. HIDE DEF r
<1>2. \A s \in Slots : r.frozen[OrderCell(s)] = ReadVia(table, OrderCell(s))
  BY <1>1, CellsAre
<1>3. \A side \in Sides, t \in Ticks : r.frozen[LevelCell(side, t)] = ReadVia(table, LevelCell(side, t))
  BY <1>1, CellsAre
<1>. QED BY <1>1, <1>2, <1>3 DEF BookAt, View, r

\* Roots are taken between operations, and only dropped.
LEMMA RootsStep ==
    ASSUME LockInv, CountInv, RootsIntact, [Next]_cowVars PROVE RootsIntact'
<1>0. Most' = Most
  BY DEF Most
<1>1. CASE Capture
  <2>1. todo = <<>> /\ roots' = roots \cup {RootOf(gen)}
    BY <1>1 DEF Capture
  <2>2. View = flat /\ Intact(flat) /\ flat.hwm <= Most
    BY <2>1, ViewIs DEF LockInv, CountInv
  <2>3. BookAt(RootOf(gen)).hwm = RootOf(gen).scalars.hwm
    BY DEF BookAt
  <2>4. Intact(BookAt(RootOf(gen))) /\ RootOf(gen).scalars.hwm <= Most
    BY <2>2, <2>3, CapturedBook
  <2>. QED BY <1>0, <2>1, <2>4 DEF RootsIntact
<1>2. CASE roots' \subseteq roots
  BY <1>0, <1>2 DEF RootsIntact
<1>3. Capture \/ roots' \subseteq roots
  BY DEF Next, BeginInsert, BeginUpdate, BeginCancel, BeginFill, Start, WriteCell, DropRoot, cowVars
<1>. QED BY <1>1, <1>2, <1>3

\* The serializer goes on when it has read its Root to the end.
LEMMA ReadWholeStep ==
    ASSUME ReadWhole, [LiveNext]_vars PROVE ReadWhole'
<1>1. CASE UNCHANGED <<spc, cur, got>>
  BY <1>1 DEF ReadWhole, Plan
<1>2. CASE RecordDuration
  BY <1>2 DEF RecordDuration, ReadWhole, Plan
<1>3. CASE spc' # "clear"
  BY <1>3 DEF ReadWhole
<1>4. UNCHANGED <<spc, cur, got>> \/ RecordDuration \/ spc' # "clear"
  <2>1. WriterStep => UNCHANGED <<spc, cur, got>>
    BY DEF WriterStep, Prebuild, WarmupOp, StartHandshake, AwaitHandshake, NoTrigger, SkipTrigger,
           TakeTrigger, Send, BeginOp, Write, EndIteration, CloseChannel, Join, serVars
  <2>2. SerializerStep => UNCHANGED <<spc, cur, got>> \/ RecordDuration \/ spc' # "clear"
    BY DEF SerializerStep, Recv, ReadCell, ClearBusy, DropCurrent, ExitLoop
  <2>3. Finished \/ UNCHANGED vars => UNCHANGED <<spc, cur, got>>
    BY DEF Finished, vars, serVars
  <2>. QED BY <2>1, <2>2, <2>3 DEF LiveNext
<1>. QED BY <1>1, <1>2, <1>3, <1>4

-----------------------------------------------------------------------------
(* What was read, and the image of it.                                     *)

\* An image is made of the ladders, the slots below the high-water mark and
\* the scalars.
LEMMA ImageOfParts ==
    ASSUME NEW a, NEW b, b.hwm \in Nat, a.hwm = b.hwm, a.best = b.best, a.freeHead = b.freeHead,
           a.lane = b.lane, \A s \in 0..(b.hwm - 1) : a.pool[s] = b.pool[s]
    PROVE  Encode(a) = Encode(b) /\ LevelElems(a) = LevelElems(b)
<1>1. OrderElems(a) = OrderElems(b)
  <2>1. \A i \in 1..b.hwm : i - 1 \in 0..(b.hwm - 1)
    OBVIOUS
  <2>. QED BY <2>1 DEF OrderElems
<1>2. \A p : LevelAt(a, p) = LevelAt(b, p)
  BY DEF LevelAt
<1>3. LevelElems(a) = LevelElems(b)
  <2>1. Places(a) = Places(b)
    BY <1>2 DEF Places
  <2>2. /\ LevelElems(a) = [i \in 1..Cardinality(Places(a)) |-> LevelAt(a, Nth(Places(a), i))]
        /\ LevelElems(b) = [i \in 1..Cardinality(Places(b)) |-> LevelAt(b, Nth(Places(b), i))]
    BY LevelElemsAre
  <2>. QED BY <1>2, <2>1, <2>2
<1>. QED BY <1>1, <1>3 DEF Encode

\* Where the plan of encode_root reads what.
LEMMA PlanIs ==
    ASSUME NEW root, root.scalars.hwm \in Nat
    PROVE  /\ Len(Plan(root)) = 4 * Levels + root.scalars.hwm
           /\ \A p \in 1..(2 * Levels) :
                 /\ Plan(root)[p] = LevelCells[p] /\ Plan(root)[2 * Levels + p] = LevelCells[p]
           /\ \A s \in 0..(root.scalars.hwm - 1) : Plan(root)[4 * Levels + s + 1] = OrderCell(s)
<1>. DEFINE n == 2 * Levels
            h == root.scalars.hwm
            lc == LevelCells
            oc == [i \in 1..h |-> OrderCell(i - 1)]
            S  == {lc[i] : i \in 1..n} \cup {oc[i] : i \in 1..h}
<1>0. n \in Nat /\ h \in Nat
  BY BookConfig
<1>1. lc = [i \in 1..n |-> lc[i]]
  BY DEF LevelCells
<1>2. \A i \in 1..h : oc[i] = OrderCell(i - 1)
  OBVIOUS
<1>3. oc = [i \in 1..h |-> oc[i]]
  OBVIOUS
<1>4. Plan(root) = (lc \o lc) \o oc
  BY DEF Plan
<1>5. 4 * Levels = 2 * n
  BY BookConfig
<1>. HIDE DEF n, h, lc, oc
<1>6. lc \in Seq(S) /\ oc \in Seq(S) /\ Len(lc) = n /\ Len(oc) = h
  <2>1. [i \in 1..n |-> lc[i]] \in Seq(S) /\ Len([i \in 1..n |-> lc[i]]) = n
    BY <1>0
  <2>2. [i \in 1..h |-> oc[i]] \in Seq(S) /\ Len([i \in 1..h |-> oc[i]]) = h
    BY <1>0
  <2>. QED BY <1>1, <1>3, <2>1, <2>2
<1>7. /\ lc \o lc \in Seq(S) /\ Len(lc \o lc) = 2 * n
      /\ \A p \in 1..n : (lc \o lc)[p] = lc[p] /\ (lc \o lc)[n + p] = lc[p]
  BY <1>0, <1>6
<1>. DEFINE ll == lc \o lc
            w  == ll \o oc
<1>. HIDE DEF ll, S
<1>8. /\ Len(w) = 2 * n + h
      /\ \A p \in 1..(2 * n) : w[p] = ll[p]
      /\ \A i \in 1..h : w[2 * n + i] = oc[i]
  <2>. DEFINE m == 2 * n
  <2>1. m \in Nat /\ ll \in Seq(S) /\ Len(ll) = m
    BY <1>0, <1>7 DEF ll
  <2>. HIDE DEF m
  <2>2. Len(w) = m + h /\ \A p \in 1..(m + h) : w[p] = IF p <= m THEN ll[p] ELSE oc[p - m]
    BY <1>0, <1>6, <2>1, SMTT(30)
  <2>3. \A p \in 1..m : w[p] = ll[p]
    BY <1>0, <2>1, <2>2
  <2>4. \A i \in 1..h : w[m + i] = oc[i]
    <3>. TAKE i \in 1..h
    <3>1. m + i \in 1..(m + h) /\ ~(m + i <= m) /\ (m + i) - m = i
      BY <1>0, <2>1
    <3>. HIDE DEF w
    <3>. QED BY <2>2, <3>1
  <2>. QED BY <2>2, <2>3, <2>4 DEF m
<1>. HIDE DEF w
<1>9. \A p \in 1..n : w[p] = lc[p] /\ w[n + p] = lc[p]
  <2>. TAKE p \in 1..n
  <2>1. p \in 1..(2 * n) /\ n + p \in 1..(2 * n)
    BY <1>0
  <2>. QED BY <1>7, <1>8, <2>1 DEF ll
<1>10. \A s \in 0..(h - 1) : w[2 * n + s + 1] = OrderCell(s)
  <2>. TAKE s \in 0..(h - 1)
  <2>1. s + 1 \in 1..h /\ 2 * n + (s + 1) = 2 * n + s + 1 /\ (s + 1) - 1 = s
    BY <1>0
  <2>. QED BY <1>2, <1>8, <2>1
<1>11. Plan(root) = w
  BY <1>4 DEF w, ll
<1>. QED BY <1>5, <1>8, <1>9, <1>10, <1>11 DEF n, h, lc

\* The cell at a place of a ladder walk.
LEMMA LevelCellsAre ==
    \A p \in 1..(2 * Levels) :
        \A b : LevelCells[p] = LevelCell(LevelAt(b, p).side, LevelAt(b, p).tick)
BY DEF LevelCells, LevelAt

\* What was read of a ladder, at any place of it, is what the Root was taken
\* from.
LEMMA ReadLevels ==
    ASSUME NEW root, root.scalars.hwm \in Nat, NEW reads,
           \A i \in 1..(4 * Levels + root.scalars.hwm) : reads[i] = root.frozen[Plan(root)[i]],
           NEW p \in 1..(2 * Levels)
    PROVE  /\ reads[p] = LevelAt(BookAt(root), p).level
           /\ reads[2 * Levels + p] = LevelAt(BookAt(root), p).level
<1>. DEFINE b    == BookAt(root)
            side == LevelAt(b, p).side
            t    == LevelAt(b, p).tick
            h    == root.scalars.hwm
<1>1. p \in 1..(4 * Levels + h) /\ 2 * Levels + p \in 1..(4 * Levels + h)
  <2>1. h \in Nat /\ Levels \in Nat /\ p \in Nat
    BY BookConfig
  <2>. HIDE DEF h
  <2>. QED BY <2>1
<1>2. Plan(root)[p] = LevelCells[p] /\ Plan(root)[2 * Levels + p] = LevelCells[p]
  BY PlanIs
<1>3. side \in Sides /\ t \in Ticks /\ p = LevelPlace(side, t)
  BY LevelAtPlace
<1>4. LevelAt(b, p) = [side |-> side, tick |-> t, level |-> b.lane[side][t]]
  <2>1. \A s \in Sides, u \in Ticks :
           LevelAt(b, LevelPlace(s, u)) = [side |-> s, tick |-> u, level |-> b.lane[s][u]]
    BY LevelAtPlace
  <2>. HIDE DEF b, side, t
  <2>. QED BY <1>3, <2>1
<1>5. LevelCells[p] = LevelCell(side, t)
  BY LevelCellsAre
<1>. HIDE DEF side, t
<1>6. LevelAt(b, p).level = b.lane[side][t]
  BY <1>4
<1>7. b.lane[side][t] = root.frozen[LevelCell(side, t)]
  BY <1>3 DEF BookAt
<1>. QED BY <1>1, <1>2, <1>5, <1>6, <1>7

\* The book encode_root makes the image of is the one at the capture.
LEMMA ReadBookIs ==
    ASSUME NEW root, Intact(BookAt(root)), NEW reads,
           \A i \in 1..(4 * Levels + root.scalars.hwm) : reads[i] = root.frozen[Plan(root)[i]]
    PROVE  LET a == ReadBook(root, reads)
               b == BookAt(root)
           IN  /\ b.hwm = root.scalars.hwm /\ b.hwm \in Nat
               /\ a.hwm = b.hwm /\ a.best = b.best /\ a.freeHead = b.freeHead
               /\ a.lane = b.lane
               /\ \A s \in 0..(b.hwm - 1) : a.pool[s] = b.pool[s]
<1>. DEFINE a == ReadBook(root, reads)
            b == BookAt(root)
            h == root.scalars.hwm
<1>1. b.hwm = h /\ h \in 0..Cap /\ Cap \in Nat /\ Levels \in Nat
  <2>1. b.hwm = h
    BY DEF BookAt
  <2>2. b.hwm \in 0..Cap
    BY IntactBooks
  <2>. HIDE DEF b, h
  <2>. QED BY <2>1, <2>2, BookConfig
<1>2. a.hwm = b.hwm /\ a.best = b.best /\ a.freeHead = b.freeHead
  BY DEF ReadBook, BookAt
<1>3. ASSUME NEW side \in Sides, NEW t \in Ticks
      PROVE  reads[2 * Levels + LevelPlace(side, t)] = b.lane[side][t]
  <2>1. LevelPlace(side, t) \in 1..(2 * Levels)
    BY LevelAtPlace
  <2>2. LevelAt(b, LevelPlace(side, t)) = [side |-> side, tick |-> t, level |-> b.lane[side][t]]
    BY LevelAtPlace
  <2>3. h \in Nat
    BY <1>1
  <2>4. reads[2 * Levels + LevelPlace(side, t)] = LevelAt(b, LevelPlace(side, t)).level
    BY <2>1, <2>3, ReadLevels
  <2>. HIDE DEF b
  <2>. QED BY <2>2, <2>4
<1>4. a.lane = [side \in Sides |-> [t \in Ticks |-> reads[2 * Levels + LevelPlace(side, t)]]]
  BY DEF ReadBook, LevelPlace
<1>5. b.lane = [side \in Sides |-> [t \in Ticks |-> b.lane[side][t]]]
  <2>1. b \in Books
    BY IntactBooks
  <2>. HIDE DEF b
  <2>2. b.lane \in [Sides -> [Ticks -> PriceLevels]]
    BY <2>1 DEF Books, Lanes
  <2>. QED BY <2>2
<1>6. a.lane = b.lane
  <2>. HIDE DEF a, b
  <2>1. [side \in Sides |-> [t \in Ticks |-> reads[2 * Levels + LevelPlace(side, t)]]]
          = [side \in Sides |-> [t \in Ticks |-> b.lane[side][t]]]
    BY <1>3
  <2>. QED BY <1>4, <1>5, <2>1
<1>7. ASSUME NEW s \in 0..(h - 1) PROVE a.pool[s] = b.pool[s]
  <2>1. a.pool[s] = reads[2 * (2 * Levels) + s + 1]
    BY DEF ReadBook
  <2>2. s \in Slots /\ s \in Nat /\ h \in Nat
    <3>. HIDE DEF h
    <3>. QED BY <1>1 DEF Slots
  <2>3. 2 * (2 * Levels) + s + 1 = 4 * Levels + s + 1 /\ 4 * Levels + s + 1 \in 1..(4 * Levels + h)
    <3>. HIDE DEF h
    <3>. QED BY <1>1, <1>7, <2>2
  <2>4. Plan(root)[4 * Levels + s + 1] = OrderCell(s)
    BY <2>2, PlanIs
  <2>5. reads[4 * Levels + s + 1] = root.frozen[OrderCell(s)]
    BY <2>3, <2>4
  <2>6. b.pool[s] = root.frozen[OrderCell(s)]
    BY <2>2 DEF BookAt
  <2>. QED BY <2>1, <2>3, <2>5, <2>6
<1>. HIDE DEF a, b, h
<1>8. h \in Nat
  BY <1>1
<1>9. \A s \in 0..(b.hwm - 1) : a.pool[s] = b.pool[s]
  BY <1>1, <1>7
<1>. QED BY <1>1, <1>2, <1>6, <1>8, <1>9 DEF a, b, h

\* The image is that of the book at the capture, and restores it.
LEMMA ImageIsOfCapture ==
    ASSUME CountersSuffice, RootsIntact, ReadWhole, ReadsFrozen, FlightInv, spc = "clear"
    PROVE  /\ Cardinality({i \in 1..(2 * Levels) : got[i].head # NIL})
                = Len(ImageOf(cur.root, got).levels)
           /\ Restore(ImageOf(cur.root, got)) = BookAt(cur.root)
<1>. DEFINE root == cur.root
            b == BookAt(root)
            a == ReadBook(root, got)
<1>1. root \in roots /\ Len(got) = Len(Plan(root))
  BY DEF FlightInv, ReadWhole
<1>2. Intact(b) /\ root.scalars.hwm <= Most
  BY <1>1 DEF RootsIntact
<1>3. b.hwm = root.scalars.hwm /\ b.hwm \in Nat
  <2>1. b.hwm = root.scalars.hwm
    BY DEF BookAt
  <2>2. b.hwm \in Nat
    BY <1>2, IntactBooks
  <2>. QED BY <2>1, <2>2
<1>4. \A i \in 1..(4 * Levels + root.scalars.hwm) : got[i] = root.frozen[Plan(root)[i]]
  <2>1. Len(got) = 4 * Levels + root.scalars.hwm
    BY <1>1, <1>3, PlanIs
  <2>. QED BY <2>1 DEF ReadsFrozen
<1>5. Encode(a) = Encode(b)
  BY <1>2, <1>4, ReadBookIs, ImageOfParts
<1>6. \A p \in 1..(2 * Levels) : got[p] = LevelAt(b, p).level
  BY <1>3, <1>4, ReadLevels
<1>7. GroupsFit(b)
  <2>. HIDE DEF b
  <2>1. Len(OrderElems(b)) = b.hwm
    BY <1>3 DEF OrderElems
  <2>2. Len(LevelElems(b)) \in Nat /\ Len(LevelElems(b)) <= b.hwm
    BY <1>2, LevelsFit
  <2>. QED BY <1>2, <1>3, <2>1, <2>2, MostIs, GroupMaxAssumption DEF GroupsFit
<1>8. ImageOf(root, got) = Encode(b)
  BY <1>5 DEF ImageOf
<1>9. {i \in 1..(2 * Levels) : got[i].head # NIL} = Places(b)
  BY <1>6 DEF Places
<1>10. Encode(b).levels = LevelElems(b)
  BY <1>2, <1>7, ImageIs
<1>11. Len(LevelElems(b)) = Cardinality(Places(b))
  BY LevelElemsAre
<1>12. Restore(Encode(b)) = b
  BY <1>2, <1>7, RestoreOfEncode
<1>. QED BY <1>8, <1>9, <1>10, <1>11, <1>12

-----------------------------------------------------------------------------

\* The invariant of the images; it needs the ones above.
PointInv == LockInv /\ CountInv /\ RootsIntact /\ ReadWhole

LEMMA PointInductive == LiveSpec => []PointInv
<1>1. LiveInit => PointInv
  <2>. SUFFICES ASSUME LiveInit PROVE PointInv
    OBVIOUS
  <2>1. LockInv /\ CountInv
    BY InitLock, InitCounts DEF LiveInit
  <2>2. RootsIntact /\ ReadWhole
    BY DEF LiveInit, Init, RootsIntact, ReadWhole
  <2>. QED BY <2>1, <2>2 DEF PointInv
<1>2. EpochInv /\ MemoryExact /\ FlightInv /\ PointInv /\ [LiveNext]_vars => PointInv'
  <2>. SUFFICES ASSUME EpochInv, MemoryExact, FlightInv, PointInv, [LiveNext]_vars PROVE PointInv'
    OBVIOUS
  <2>1. [Next]_cowVars
    BY LiveNextIsNext
  <2>2. LockInv'
    BY <2>1, NextLock DEF PointInv
  <2>3. CountInv'
    BY CountStep DEF PointInv
  <2>4. RootsIntact' /\ ReadWhole'
    BY <2>1, RootsStep, ReadWholeStep DEF PointInv
  <2>. QED BY <2>2, <2>3, <2>4 DEF PointInv
<1>3. LiveSpec => []MemoryExact
  BY LiveImplementsCowBook, SpecMemoryExact
<1>. QED BY <1>1, <1>2, <1>3, LiveInductive, PTL DEF LiveSpec

\* A snapshot taken while the writer runs on is a point in time: with counters
\* that suffice for `steady`, the image of encode_root holds as many levels as
\* its first pass counted, and restores the book as it was at the capture,
\* however the writer's stores fell between the serializer's reads; and that
\* book had applied the operations begun before the capture, no more and no
\* fewer.
THEOREM LiveImageIsPointInTime ==
    ASSUME CountersSuffice PROVE LiveSpec => []ImageIsPointInTime
<1>1. PointInv /\ ReadsFrozen /\ FlightInv => ImageIsPointInTime
  <2>. SUFFICES ASSUME PointInv, ReadsFrozen, FlightInv PROVE ImageIsPointInTime
    OBVIOUS
  <2>1. Lockstep
    BY LockIsLockstep DEF PointInv
  <2>. QED BY <2>1, ImageIsOfCapture DEF PointInv, ImageIsPointInTime
<1>. QED BY <1>1, PointInductive, LiveInductive, PTL
=============================================================================
