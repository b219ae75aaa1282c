--------------------------- MODULE Records_proofs ---------------------------
(***************************************************************************)
(* Proofs about records: how they are encoded and decoded (Sbe), and how   *)
(* they are made durable (DurableAppend).  They hold for every book,       *)
(* every number and size of records, and every configuration.              *)
(*                                                                         *)
(* Sbe: no two fields of a table share a byte (Table), so each accessor    *)
(* reads what its counterpart wrote (FieldHeld).  The invariant says that  *)
(* what the encoder has behind its limit is in the buffer, that each frame *)
(* of the journal holds the message of its number, and that what the       *)
(* decoder has behind its limit is what it has read; End, where a message  *)
(* ends, is computed from the sizes of its groups, and BufLen bytes reach  *)
(* beyond it.                                                              *)
(*                                                                         *)
(* DurableAppend: the invariant says which bytes the file holds as the     *)
(* program sees it, which of them are on disk, and where run_entries is.   *)
(***************************************************************************)
EXTENDS Sbe, DurableAppend, FiniteSetTheorems, SequenceTheorems, TLAPS

-----------------------------------------------------------------------------
(* Fields.                                                                 *)

\* The field f of a table put at `at` is in the buffer b with the value v.
FieldHeld(b, at, f, v) ==
    \A j \in Bytes(f, at) : j \in DOMAIN b /\ b[j] = <<v, j - at - f.at>>

\* The fields of a table lie within `length` bytes, and no two share one.
Table(fields, length) ==
    /\ length \in Nat
    /\ \A f \in DOMAIN fields :
          /\ fields[f].at \in Nat /\ fields[f].size \in Nat \ {0}
          /\ fields[f].at + fields[f].size <= length
    /\ \A f, g \in DOMAIN fields : f # g =>
          \/ fields[f].at + fields[f].size <= fields[g].at
          \/ fields[g].at + fields[g].size <= fields[f].at

\* The tables of the two formats, and the three fixed ones.
LEMMA HeaderTables ==
    Table(HeaderPut, HeaderLength) /\ Table(GroupHeader, GroupHeaderLength) /\ Table(Trailer, 4)
BY DEF Table, HeaderPut, HeaderLength, GroupHeader, GroupHeaderLength, Trailer, F

LEMMA BookTable == Table(BookPut, 40)
BY DEF Table, BookPut, F

LEMMA LevelsTable == Table(LevelsPut, 25)
BY DEF Table, LevelsPut, F

LEMMA OrdersTable == Table(OrdersPut, 45)
BY DEF Table, OrdersPut, F

LEMMA RecordTable == Table(RecordPut, 50)
BY DEF Table, RecordPut, F

LEMMA EntriesTable == Table(EntriesPut, 45)
BY DEF Table, EntriesPut, F

LEMMA LengthTable == Table([length |-> F(0, VarDataLength)], VarDataLength)
BY DEF Table, F, VarDataLength

\* PutFields writes every field of a table, and nothing before or after it.
LEMMA PutHolds ==
    ASSUME NEW b, NEW n \in Nat, DOMAIN b = 0..(n - 1), NEW at \in Nat, NEW length,
           NEW fields, NEW values, Table(fields, length), at + length <= n
    PROVE  LET c == PutFields(b, at, fields, values)
           IN  /\ DOMAIN c = 0..(n - 1)
               /\ \A j \in 0..(n - 1) : j < at \/ at + length <= j => c[j] = b[j]
               /\ \A f \in DOMAIN fields : FieldHeld(c, at, fields[f], values[f])
<1>. DEFINE c == PutFields(b, at, fields, values)
            hit(j) == {f \in DOMAIN fields : j \in Bytes(fields[f], at)}
<1>1. /\ DOMAIN c = 0..(n - 1)
      /\ \A j \in 0..(n - 1) :
            c[j] = IF hit(j) = {} THEN b[j]
                   ELSE LET f == CHOOSE f \in hit(j) : TRUE IN <<values[f], j - at - fields[f].at>>
  BY DEF PutFields
<1>2. \A f \in DOMAIN fields : \A j \in Bytes(fields[f], at) :
         /\ j \in Int /\ at <= j /\ j < at + length /\ j \in 0..(n - 1)
         /\ hit(j) = {f}
  <2>. SUFFICES ASSUME NEW f \in DOMAIN fields, NEW j \in Bytes(fields[f], at)
                PROVE  /\ j \in Int /\ at <= j /\ j < at + length /\ j \in 0..(n - 1)
                       /\ hit(j) = {f}
    OBVIOUS
  <2>1. /\ fields[f].at \in Nat /\ fields[f].size \in Nat /\ fields[f].at + fields[f].size <= length
        /\ length \in Nat
    BY DEF Table
  <2>2. j \in Int /\ at + fields[f].at <= j /\ j < at + fields[f].at + fields[f].size
    BY <2>1 DEF Bytes
  <2>3. \A g \in hit(j) : g = f
    <3>. SUFFICES ASSUME NEW g \in DOMAIN fields, j \in Bytes(fields[g], at), g # f PROVE FALSE
      OBVIOUS
    <3>1. fields[g].at \in Nat /\ fields[g].size \in Nat
      BY DEF Table
    <3>2. at + fields[g].at <= j /\ j < at + fields[g].at + fields[g].size
      BY <3>1 DEF Bytes
    <3>3. \/ fields[f].at + fields[f].size <= fields[g].at
          \/ fields[g].at + fields[g].size <= fields[f].at
      BY DEF Table
    <3>. HIDE DEF hit
    <3>. QED BY <2>1, <2>2, <3>1, <3>2, <3>3, SMTT(30)
  <2>. QED BY <2>1, <2>2, <2>3
<1>. HIDE DEF c
<1>3. \A j \in 0..(n - 1) : j < at \/ at + length <= j => c[j] = b[j]
  <2>. SUFFICES ASSUME NEW j \in 0..(n - 1), j < at \/ at + length <= j PROVE c[j] = b[j]
    OBVIOUS
  <2>1. length \in Nat
    BY DEF Table
  <2>2. hit(j) = {}
    BY <1>2, <2>1
  <2>. QED BY <1>1, <2>2
<1>4. ASSUME NEW f \in DOMAIN fields PROVE FieldHeld(c, at, fields[f], values[f])
  <2>. SUFFICES ASSUME NEW j \in Bytes(fields[f], at)
                PROVE  j \in DOMAIN c /\ c[j] = <<values[f], j - at - fields[f].at>>
    BY DEF FieldHeld
  <2>1. j \in 0..(n - 1) /\ hit(j) = {f}
    BY <1>2
  <2>2. (CHOOSE g \in hit(j) : TRUE) = f
    BY <2>1
  <2>. QED BY <1>1, <2>1, <2>2
<1>. QED BY <1>1, <1>3, <1>4 DEF c

\* The accessors read what is held.
LEMMA GetHeld ==
    ASSUME NEW b, NEW at \in Nat, NEW f, NEW v, f.at \in Nat, f.size \in Nat \ {0}, FieldHeld(b, at, f, v)
    PROVE  GetField(b, at, f) = v
<1>1. Bytes(f, at) \subseteq DOMAIN b
  BY DEF FieldHeld
<1>2. ASSUME NEW i \in 0..(f.size - 1) PROVE b[at + f.at + i] = <<v, i>>
  <2>1. at + f.at + i \in Bytes(f, at)
    BY DEF Bytes
  <2>2. at + f.at + i - at - f.at = i
    OBVIOUS
  <2>. QED BY <2>1, <2>2 DEF FieldHeld
<1>3. b[at + f.at] = <<v, 0>>
  <2>1. 0 \in 0..(f.size - 1) /\ at + f.at + 0 = at + f.at
    OBVIOUS
  <2>. QED BY <2>1, <1>2
<1>4. b[at + f.at][1] = v
  BY <1>3
<1>. QED BY <1>1, <1>2, <1>4 DEF GetField

\* A number that is held is read as that number.
LEMMA GetNumHeld ==
    ASSUME NEW b, NEW at \in Nat, NEW f, NEW k, f.at \in Nat, f.size \in Nat \ {0},
           FieldHeld(b, at, f, Num(k))
    PROVE  GetNum(b, at, f) = k
<1>1. GetField(b, at, f) = <<"num", k>>
  BY GetHeld DEF Num
<1>. QED BY <1>1 DEF GetNum

\* A table whose every field is held is read whole.
LEMMA GetTable ==
    ASSUME NEW b, NEW at \in Nat, NEW fields, NEW length, NEW val, Table(fields, length),
           \A f \in DOMAIN fields : FieldHeld(b, at, fields[f], val[f])
    PROVE  GetFields(b, at, fields) = [f \in DOMAIN fields |-> val[f]]
<1>1. ASSUME NEW f \in DOMAIN fields PROVE GetField(b, at, fields[f]) = val[f]
  BY GetHeld DEF Table
<1>. QED BY <1>1 DEF GetFields

\* c has the first n bytes of b.
Agree(b, c, n) == \A j \in 0..(n - 1) : j \in DOMAIN c /\ c[j] = b[j]

\* A field among the bytes two buffers share is held by both.
LEMMA HeldAgrees ==
    ASSUME NEW b, NEW c, NEW n \in Nat, Agree(b, c, n), NEW at \in Nat, NEW f, NEW v,
           f.at \in Nat, f.size \in Nat, at + f.at + f.size <= n, FieldHeld(b, at, f, v)
    PROVE  FieldHeld(c, at, f, v)
<1>1. ASSUME NEW j \in Bytes(f, at) PROVE j \in 0..(n - 1)
  BY DEF Bytes
<1>. QED BY <1>1 DEF FieldHeld, Agree

-----------------------------------------------------------------------------
(* The layout of a message.                                                *)

Groups == Len(Fmt.groups)

Setup ==
    /\ workload \in {"snapshot", "aeron_sbe"}
    /\ sizes \in IF workload = "snapshot" THEN BookSizes ELSE {<<k>> : k \in 0..MaxEntries}
    /\ text \in Nat

\* How far one element of a group is from the next, where a group starts, and
\* where its first i elements end.
Stride(g) == Fmt.groups[g].blockLength + (IF Fmt.groups[g].varData THEN VarDataLength + text ELSE 0)
Span(g) == GroupHeaderLength + sizes[g] * Stride(g)
Start(g) ==
    HeaderLength + Fmt.blockLength + (IF g > 1 THEN Span(1) ELSE 0) + (IF g > 2 THEN Span(2) ELSE 0)
ElemsEnd(g, i) == Start(g) + GroupHeaderLength + i * Stride(g)
End == Start(Groups + 1)

\* Both formats: the decoder has the encoder's tables.
LEMMA Formats ==
    ASSUME Setup
    PROVE  /\ Groups \in {1, 2} /\ Groups \in Nat
           /\ Fmt.get = Fmt.put /\ Table(Fmt.put, Fmt.blockLength)
           /\ \A g \in 1..Groups :
                 /\ Fmt.groups[g].get = Fmt.groups[g].put
                 /\ Table(Fmt.groups[g].put, Fmt.groups[g].blockLength)
                 /\ sizes[g] \in Nat
<1>1. CASE workload = "snapshot"
  <2>1. /\ Fmt.get = BookPut /\ Fmt.put = BookPut /\ Fmt.blockLength = 40 /\ Groups = 2
        /\ Fmt.groups[1].get = LevelsPut /\ Fmt.groups[1].put = LevelsPut /\ Fmt.groups[1].blockLength = 25
        /\ Fmt.groups[2].get = OrdersPut /\ Fmt.groups[2].put = OrdersPut /\ Fmt.groups[2].blockLength = 45
    BY <1>1 DEF Fmt, BookSnapshot, Groups, BookGet, BookPut, LevelsGet, LevelsPut, OrdersGet, OrdersPut
  <2>2. sizes[1] \in Nat /\ sizes[2] \in Nat
    BY <1>1, SbeAssumption DEF Setup, BookSizes
  <2>. QED BY <2>1, <2>2, BookTable, LevelsTable, OrdersTable
<1>2. CASE workload = "aeron_sbe"
  <2>1. /\ Fmt.get = RecordPut /\ Fmt.put = RecordPut /\ Fmt.blockLength = 50 /\ Groups = 1
        /\ Fmt.groups[1].get = EntriesPut /\ Fmt.groups[1].put = EntriesPut /\ Fmt.groups[1].blockLength = 45
    BY <1>2 DEF Fmt, JournalRecord, Groups, RecordGet, RecordPut, EntriesGet, EntriesPut
  <2>2. sizes[1] \in Nat
    BY <1>2, SbeAssumption DEF Setup
  <2>. QED BY <2>1, <2>2, RecordTable, EntriesTable
<1>. QED BY <1>1, <1>2 DEF Setup

\* Where the elements of a group begin and end: one stride apart, up to the
\* next group.
LEMMA Layout ==
    ASSUME Setup, NEW g \in 1..Groups
    PROVE  /\ Fmt.blockLength \in Nat /\ Fmt.groups[g].blockLength \in Nat
           /\ Stride(g) \in Nat /\ Start(g) \in Nat /\ Start(g + 1) \in Nat
           /\ Start(1) = HeaderLength + Fmt.blockLength /\ Start(1) \in Nat
           /\ ElemsEnd(g, 0) = Start(g) + GroupHeaderLength
           /\ ElemsEnd(g, sizes[g]) = Start(g + 1)
           /\ \A i \in Nat : ElemsEnd(g, i) \in Nat /\ ElemsEnd(g, i + 1) = ElemsEnd(g, i) + Stride(g)
           /\ \A i, k \in Nat : i <= k => ElemsEnd(g, i) <= ElemsEnd(g, k)
<1>1. /\ Fmt.blockLength \in Nat /\ text \in Nat /\ Groups \in {1, 2}
      /\ \A h \in 1..Groups : Fmt.groups[h].blockLength \in Nat /\ sizes[h] \in Nat
  BY Formats DEF Table, Setup
<1>2. ASSUME NEW h \in 1..Groups
      PROVE  Stride(h) \in Nat /\ sizes[h] * Stride(h) \in Nat /\ Span(h) \in Nat
  <2>1. Stride(h) \in Nat
    BY <1>1 DEF Stride, VarDataLength
  <2>2. \A x, y \in Nat : x * y \in Nat
    OBVIOUS
  <2>. QED BY <1>1, <2>1, <2>2 DEF Span, GroupHeaderLength
<1>3. /\ Start(1) = HeaderLength + Fmt.blockLength
      /\ Start(g) \in Nat /\ Start(g + 1) = Start(g) + Span(g)
  <2>1. CASE g = 1
    BY <1>1, <1>2, <2>1 DEF Start, HeaderLength
  <2>2. CASE g = 2
    BY <1>1, <1>2, <2>2 DEF Start, HeaderLength
  <2>. QED BY <1>1, <2>1, <2>2
<1>4. ElemsEnd(g, sizes[g]) = Start(g + 1)
  BY <1>1, <1>2, <1>3 DEF ElemsEnd, Span, GroupHeaderLength
<1>5. \A s \in Nat : \A i, k \in Nat :
         i * s \in Nat /\ (i + 1) * s = i * s + s /\ 0 * s = 0 /\ (i <= k => i * s <= k * s)
  <2>1. \A s, x, y \in Nat : (x + y) * s = x * s + y * s /\ x * s \in Nat
    OBVIOUS
  <2>2. ASSUME NEW s \in Nat, NEW i \in Nat, NEW k \in Nat, i <= k PROVE i * s <= k * s
    <3>1. k - i \in Nat /\ i + (k - i) = k
      BY <2>2
    <3>2. k * s = i * s + (k - i) * s /\ (k - i) * s \in Nat /\ i * s \in Nat
      BY <2>1, <3>1
    <3>. QED BY <3>2
  <2>. QED BY <2>1, <2>2
<1>6. ElemsEnd(g, 0) = Start(g) + GroupHeaderLength
  BY <1>2, <1>3, <1>5 DEF ElemsEnd, GroupHeaderLength
<1>7. ASSUME NEW i \in Nat
      PROVE  ElemsEnd(g, i) \in Nat /\ ElemsEnd(g, i + 1) = ElemsEnd(g, i) + Stride(g)
  <2>1. Stride(g) \in Nat /\ i * Stride(g) \in Nat /\ (i + 1) * Stride(g) = i * Stride(g) + Stride(g)
    BY <1>2, <1>5
  <2>. QED BY <1>3, <2>1 DEF ElemsEnd, GroupHeaderLength
<1>8. ASSUME NEW i \in Nat, NEW k \in Nat, i <= k PROVE ElemsEnd(g, i) <= ElemsEnd(g, k)
  <2>1. Stride(g) \in Nat /\ i * Stride(g) \in Nat /\ k * Stride(g) \in Nat /\ i * Stride(g) <= k * Stride(g)
    BY <1>2, <1>5, <1>8
  <2>. QED BY <1>3, <2>1 DEF ElemsEnd, GroupHeaderLength
<1>9. Start(g + 1) \in Nat /\ Start(1) \in Nat
  BY <1>1, <1>2, <1>3 DEF HeaderLength
<1>. QED BY <1>1, <1>2, <1>3, <1>4, <1>6, <1>7, <1>8, <1>9

\* No element of a group ends after the group, and no group before its start.
LEMMA ElemsBefore ==
    ASSUME Setup, NEW g \in 1..Groups, NEW h \in 1..Groups, h < g
    PROVE  Start(h) + GroupHeaderLength <= Start(g) /\ \A k \in 1..sizes[h] : ElemsEnd(h, k) <= Start(g)
<1>1. h = 1 /\ g = 2 /\ sizes[h] \in Nat
  BY Formats
<1>2. /\ ElemsEnd(h, sizes[h]) = Start(g) /\ ElemsEnd(h, 0) = Start(h) + GroupHeaderLength
      /\ \A i, k \in Nat : i <= k => ElemsEnd(h, i) <= ElemsEnd(h, k)
  <2>1. h + 1 = g
    BY <1>1
  <2>. QED BY <2>1, Layout
<1>3. \A k \in 1..sizes[h] : k \in Nat /\ k <= sizes[h]
  BY <1>1
<1>4. 0 \in Nat /\ 0 <= sizes[h]
  BY <1>1
<1>5. ElemsEnd(h, 0) <= ElemsEnd(h, sizes[h])
  BY <1>1, <1>2, <1>4
<1>6. \A k \in 1..sizes[h] : ElemsEnd(h, k) <= ElemsEnd(h, sizes[h])
  BY <1>1, <1>2, <1>3
<1>. QED BY <1>2, <1>5, <1>6

-----------------------------------------------------------------------------
(* What of a message is in a buffer.                                       *)

HeadHeld(b, m) ==
    /\ FieldHeld(b, 0, HeaderPut.blockLength, Num(Fmt.blockLength))
    /\ FieldHeld(b, 0, HeaderPut.version, Num(Fmt.version))
    /\ \A f \in DOMAIN Fmt.put : FieldHeld(b, HeaderLength, Fmt.put[f], BlockValue(m, f))

GroupHeld(b, g) ==
    /\ FieldHeld(b, Start(g), GroupHeader.blockLength, Num(Fmt.groups[g].blockLength))
    /\ FieldHeld(b, Start(g), GroupHeader.numInGroup, Num(sizes[g]))

TextHeld(b, at, m, g, i) ==
    /\ FieldHeld(b, at, F(0, VarDataLength), Num(text))
    /\ \A j \in 1..text :
          /\ at + VarDataLength + j - 1 \in DOMAIN b
          /\ b[at + VarDataLength + j - 1] = << <<"text", m, g, i>>, j - 1 >>

ElemHeld(b, m, g, i) ==
    /\ \A f \in DOMAIN Fmt.groups[g].put :
          FieldHeld(b, ElemsEnd(g, i - 1), Fmt.groups[g].put[f], ElemValue(m, g, i, f))
    /\ Fmt.groups[g].varData =>
          TextHeld(b, ElemsEnd(g, i - 1) + Fmt.groups[g].blockLength, m, g, i)

\* The header, the block and the first g groups; and i elements of the next one.
GroupsHeld(b, m, g) ==
    /\ HeadHeld(b, m)
    /\ \A h \in 1..g : GroupHeld(b, h) /\ \A k \in 1..sizes[h] : ElemHeld(b, m, h, k)

ElemsHeld(b, m, g, i) ==
    /\ GroupsHeld(b, m, g - 1)
    /\ GroupHeld(b, g)
    /\ \A k \in 1..i : ElemHeld(b, m, g, k)

\* A message stays where its bytes stay.
LEMMA HeadAgrees ==
    ASSUME Setup, NEW b, NEW c, NEW n \in Nat, Agree(b, c, n), NEW m, HeadHeld(b, m), Start(1) <= n
    PROVE  HeadHeld(c, m)
<1>1. Start(1) = HeaderLength + Fmt.blockLength /\ Fmt.blockLength \in Nat
  BY Layout, Formats
<1>2. \A f \in DOMAIN HeaderPut :
         /\ HeaderPut[f].at \in Nat /\ HeaderPut[f].size \in Nat
         /\ 0 + HeaderPut[f].at + HeaderPut[f].size <= n
  BY <1>1, HeaderTables DEF Table, HeaderLength
<1>3. /\ HeaderPut.blockLength = HeaderPut["blockLength"] /\ HeaderPut.version = HeaderPut["version"]
      /\ {"blockLength", "version"} \subseteq DOMAIN HeaderPut
  BY DEF HeaderPut
<1>4. ASSUME NEW f \in {"blockLength", "version"}, NEW v, FieldHeld(b, 0, HeaderPut[f], v)
      PROVE  FieldHeld(c, 0, HeaderPut[f], v)
  BY <1>2, <1>3, <1>4, HeldAgrees
<1>5. \A f \in DOMAIN Fmt.put :
         /\ Fmt.put[f].at \in Nat /\ Fmt.put[f].size \in Nat
         /\ HeaderLength + Fmt.put[f].at + Fmt.put[f].size <= n
  BY <1>1, Formats DEF Table, HeaderLength
<1>6. HeaderLength \in Nat
  BY DEF HeaderLength
<1>7. ASSUME NEW f \in DOMAIN Fmt.put
      PROVE  FieldHeld(c, HeaderLength, Fmt.put[f], BlockValue(m, f))
  <2>1. FieldHeld(b, HeaderLength, Fmt.put[f], BlockValue(m, f))
    BY DEF HeadHeld
  <2>. QED BY <1>5, <1>6, <2>1, HeldAgrees
<1>8. /\ FieldHeld(b, 0, HeaderPut.blockLength, Num(Fmt.blockLength))
      /\ FieldHeld(b, 0, HeaderPut.version, Num(Fmt.version))
  BY DEF HeadHeld
<1>9. /\ FieldHeld(c, 0, HeaderPut.blockLength, Num(Fmt.blockLength))
      /\ FieldHeld(c, 0, HeaderPut.version, Num(Fmt.version))
  BY <1>3, <1>4, <1>8
<1>. QED BY <1>7, <1>9 DEF HeadHeld

\* The two fields of a group header.
LEMMA GroupFields ==
    \A f \in {GroupHeader.blockLength, GroupHeader.numInGroup} :
       f.at \in Nat /\ f.size \in Nat \ {0} /\ f.at + f.size <= GroupHeaderLength
BY DEF GroupHeader, GroupHeaderLength, F

\* So does a group header, an element, and so do whole groups and the first
\* elements of one.
LEMMA GroupAgrees ==
    ASSUME Setup, NEW b, NEW c, NEW n \in Nat, Agree(b, c, n), NEW g \in 1..Groups, GroupHeld(b, g),
           Start(g) + GroupHeaderLength <= n
    PROVE  GroupHeld(c, g)
<1>1. Start(g) \in Nat
  BY Layout
<1>2. \A f \in {GroupHeader.blockLength, GroupHeader.numInGroup} :
         f.at \in Nat /\ f.size \in Nat /\ Start(g) + f.at + f.size <= n
  BY <1>1, GroupFields DEF GroupHeaderLength
<1>3. ASSUME NEW f \in {GroupHeader.blockLength, GroupHeader.numInGroup}, NEW v,
             FieldHeld(b, Start(g), f, v)
      PROVE  FieldHeld(c, Start(g), f, v)
  BY <1>1, <1>2, <1>3, HeldAgrees
<1>. QED BY <1>3 DEF GroupHeld

LEMMA ElemAgrees ==
    ASSUME Setup, NEW b, NEW c, NEW n \in Nat, Agree(b, c, n), NEW m, NEW g \in 1..Groups,
           NEW i \in Nat \ {0}, ElemHeld(b, m, g, i), ElemsEnd(g, i) <= n
    PROVE  ElemHeld(c, m, g, i)
<1>. DEFINE at == ElemsEnd(g, i - 1)
            length == Fmt.groups[g].blockLength
<1>1. at \in Nat /\ length \in Nat /\ text \in Nat /\ at + Stride(g) <= n /\ Stride(g) \in Nat
  <2>1. i - 1 \in Nat /\ (i - 1) + 1 = i
    OBVIOUS
  <2>. QED BY <2>1, Layout DEF Setup
<1>2. /\ at + length <= n
      /\ Fmt.groups[g].varData => at + length + VarDataLength + text <= n
  BY <1>1 DEF Stride, VarDataLength
<1>3. \A f \in DOMAIN Fmt.groups[g].put :
         /\ Fmt.groups[g].put[f].at \in Nat /\ Fmt.groups[g].put[f].size \in Nat
         /\ Fmt.groups[g].put[f].at + Fmt.groups[g].put[f].size <= length
  BY Formats DEF Table
<1>. HIDE DEF at, length
<1>4. ASSUME NEW f \in DOMAIN Fmt.groups[g].put
      PROVE  FieldHeld(c, at, Fmt.groups[g].put[f], ElemValue(m, g, i, f))
  <2>1. FieldHeld(b, at, Fmt.groups[g].put[f], ElemValue(m, g, i, f))
    BY DEF ElemHeld, at
  <2>2. at + Fmt.groups[g].put[f].at + Fmt.groups[g].put[f].size <= n
    BY <1>1, <1>2, <1>3
  <2>. QED BY <1>1, <1>3, <2>1, <2>2, HeldAgrees
<1>5. ASSUME Fmt.groups[g].varData PROVE TextHeld(c, at + length, m, g, i)
  <2>1. TextHeld(b, at + length, m, g, i)
    BY <1>5 DEF ElemHeld, at, length
  <2>2. /\ F(0, VarDataLength).at = 0 /\ F(0, VarDataLength).size = VarDataLength
        /\ VarDataLength \in Nat /\ 0 \in Nat
    BY DEF F, VarDataLength
  <2>3. at + length + 0 + VarDataLength <= n /\ at + length \in Nat
    BY <1>1, <1>2, <1>5, <2>2
  <2>4. FieldHeld(b, at + length, F(0, VarDataLength), Num(text))
    BY <2>1 DEF TextHeld
  <2>5. FieldHeld(c, at + length, F(0, VarDataLength), Num(text))
    BY <2>2, <2>3, <2>4, HeldAgrees
  <2>6. ASSUME NEW j \in 1..text
        PROVE  /\ at + length + VarDataLength + j - 1 \in DOMAIN c
               /\ c[at + length + VarDataLength + j - 1] = << <<"text", m, g, i>>, j - 1 >>
    <3>1. at + length + VarDataLength + j - 1 \in 0..(n - 1)
      BY <1>1, <1>2, <1>5, <2>2
    <3>. QED BY <2>1, <3>1 DEF TextHeld, Agree
  <2>. QED BY <2>5, <2>6 DEF TextHeld
<1>. QED BY <1>4, <1>5 DEF ElemHeld, at, length

LEMMA GroupsAgree ==
    ASSUME Setup, NEW b, NEW c, NEW n \in Nat, Agree(b, c, n), NEW m, NEW g \in 0..Groups,
           GroupsHeld(b, m, g), Start(g + 1) <= n
    PROVE  GroupsHeld(c, m, g)
<1>1. /\ Groups \in Nat
      /\ \A h \in 1..g : h \in 1..Groups /\ sizes[h] \in Nat
  BY Formats
<1>2. ASSUME NEW h \in 1..g
      PROVE  Start(h) + GroupHeaderLength <= n /\ \A k \in 1..sizes[h] : k \in Nat \ {0} /\ ElemsEnd(h, k) <= n
  <2>1. CASE h = g
    <3>1. /\ ElemsEnd(g, 0) = Start(g) + GroupHeaderLength /\ ElemsEnd(g, sizes[g]) = Start(g + 1)
          /\ \A i, k \in Nat : i <= k => ElemsEnd(g, i) <= ElemsEnd(g, k)
          /\ \A i \in Nat : ElemsEnd(g, i) \in Nat
      BY <1>1, <2>1, Layout
    <3>2. 0 \in Nat /\ sizes[g] \in Nat /\ 0 <= sizes[g]
      BY <1>1, <2>1
    <3>. QED BY <2>1, <3>1, <3>2
  <2>2. CASE h # g
    <3>1. h < g /\ g \in 1..Groups /\ h \in 1..Groups /\ sizes[h] \in Nat
      BY <1>1, <2>2
    <3>2. Start(h) + GroupHeaderLength <= Start(g) /\ \A k \in 1..sizes[h] : ElemsEnd(h, k) <= Start(g)
      BY <3>1, ElemsBefore
    <3>3. /\ Start(g) + GroupHeaderLength <= Start(g + 1) /\ Start(g) \in Nat /\ Start(g + 1) \in Nat
          /\ Start(h) \in Nat /\ \A k \in Nat : ElemsEnd(h, k) \in Nat
      <4>1. /\ ElemsEnd(g, 0) = Start(g) + GroupHeaderLength /\ ElemsEnd(g, sizes[g]) = Start(g + 1)
            /\ \A i, k \in Nat : i <= k => ElemsEnd(g, i) <= ElemsEnd(g, k)
        BY <3>1, Layout
      <4>2. 0 \in Nat /\ sizes[g] \in Nat /\ 0 <= sizes[g]
        BY <3>1, Formats
      <4>3. Start(g) + GroupHeaderLength <= Start(g + 1)
        BY <4>1, <4>2
      <4>. QED BY <3>1, <4>3, Layout
    <3>. QED BY <3>1, <3>2, <3>3 DEF GroupHeaderLength
  <2>. QED BY <2>1, <2>2
<1>3. Start(1) <= n
  <2>1. CASE g = 0
    BY <2>1
  <2>2. CASE g # 0
    <3>1. 1 \in 1..g /\ 1 \in 1..Groups
      BY <1>1, <2>2
    <3>. QED BY <1>2, <3>1, Layout DEF GroupHeaderLength
  <2>. QED BY <2>1, <2>2
<1>4. HeadHeld(c, m)
  BY <1>3, HeadAgrees DEF GroupsHeld
<1>5. ASSUME NEW h \in 1..g
      PROVE  GroupHeld(c, h) /\ \A k \in 1..sizes[h] : ElemHeld(c, m, h, k)
  <2>1. GroupHeld(b, h) /\ \A k \in 1..sizes[h] : ElemHeld(b, m, h, k)
    BY DEF GroupsHeld
  <2>2. GroupHeld(c, h)
    BY <1>1, <1>2, <2>1, GroupAgrees
  <2>3. ASSUME NEW k \in 1..sizes[h] PROVE ElemHeld(c, m, h, k)
    BY <1>1, <1>2, <2>1, ElemAgrees
  <2>. QED BY <2>2, <2>3
<1>. QED BY <1>4, <1>5 DEF GroupsHeld

LEMMA ElemsAgree ==
    ASSUME Setup, NEW b, NEW c, NEW n \in Nat, Agree(b, c, n), NEW m, NEW g \in 1..Groups,
           NEW i \in 0..sizes[g], ElemsHeld(b, m, g, i), ElemsEnd(g, i) <= n
    PROVE  ElemsHeld(c, m, g, i)
<1>1. sizes[g] \in Nat /\ Groups \in Nat
  BY Formats
<1>2. /\ ElemsEnd(g, 0) = Start(g) + GroupHeaderLength /\ Start(g) \in Nat
      /\ \A j, k \in Nat : j <= k => ElemsEnd(g, j) <= ElemsEnd(g, k)
      /\ \A j \in Nat : ElemsEnd(g, j) \in Nat
  BY Layout
<1>3. 0 \in Nat /\ 0 <= i /\ i \in Nat
  BY <1>1
<1>4. Start(g) + GroupHeaderLength <= n /\ Start(g) <= n
  BY <1>2, <1>3 DEF GroupHeaderLength
<1>5. g - 1 \in 0..Groups /\ (g - 1) + 1 = g
  BY <1>1
<1>6. GroupsHeld(c, m, g - 1)
  BY <1>4, <1>5, GroupsAgree DEF ElemsHeld
<1>7. GroupHeld(c, g)
  BY <1>4, GroupAgrees DEF ElemsHeld
<1>8. ASSUME NEW k \in 1..i PROVE ElemHeld(c, m, g, k)
  <2>1. k \in Nat \ {0} /\ k <= i /\ ElemsEnd(g, k) <= n
    BY <1>2, <1>3
  <2>. QED BY <2>1, ElemAgrees DEF ElemsHeld
<1>. QED BY <1>6, <1>7, <1>8 DEF ElemsHeld

-----------------------------------------------------------------------------
(* What the encoder puts into a buffer of n bytes.                         *)

HeadOf == [blockLength |-> Num(Fmt.blockLength), templateId |-> Num(Fmt.templateId),
           schemaId |-> Num(Fmt.schemaId), version |-> Num(Fmt.version)]
BlockOf(m) == [f \in DOMAIN Fmt.put |-> BlockValue(m, f)]

\* EncodeBlock leaves the header and the block in the buffer,
LEMMA HeadEncoded ==
    ASSUME Setup, NEW b, NEW n \in Nat, DOMAIN b = 0..(n - 1), NEW m, Start(1) <= n
    PROVE  LET c == PutFields(PutFields(b, 0, HeaderPut, HeadOf), HeaderLength, Fmt.put, BlockOf(m))
           IN  DOMAIN c = 0..(n - 1) /\ GroupsHeld(c, m, 0)
<1>. DEFINE d == PutFields(b, 0, HeaderPut, HeadOf)
            c == PutFields(d, HeaderLength, Fmt.put, BlockOf(m))
<1>1. /\ Start(1) = HeaderLength + Fmt.blockLength /\ Fmt.blockLength \in Nat
      /\ HeaderLength \in Nat /\ 0 + HeaderLength <= n /\ 0 \in Nat
  <2>1. 1 \in 1..Groups
    BY Formats
  <2>2. Start(1) = HeaderLength + Fmt.blockLength /\ Fmt.blockLength \in Nat
    BY <2>1, Layout
  <2>. QED BY <2>2 DEF HeaderLength
<1>2. /\ DOMAIN d = 0..(n - 1)
      /\ \A f \in DOMAIN HeaderPut : FieldHeld(d, 0, HeaderPut[f], HeadOf[f])
  BY <1>1, HeaderTables, PutHolds
<1>3. /\ DOMAIN c = 0..(n - 1)
      /\ \A j \in 0..(n - 1) : j < HeaderLength \/ HeaderLength + Fmt.blockLength <= j => c[j] = d[j]
      /\ \A f \in DOMAIN Fmt.put : FieldHeld(c, HeaderLength, Fmt.put[f], BlockOf(m)[f])
  <2>. HIDE DEF d
  <2>. QED BY <1>1, <1>2, Formats, PutHolds
<1>. HIDE DEF c, d
<1>4. Agree(d, c, HeaderLength)
  BY <1>1, <1>3 DEF Agree
<1>5. \A f \in DOMAIN HeaderPut :
         /\ HeaderPut[f].at \in Nat /\ HeaderPut[f].size \in Nat
         /\ 0 + HeaderPut[f].at + HeaderPut[f].size <= HeaderLength
  BY HeaderTables DEF Table
<1>6. ASSUME NEW f \in DOMAIN HeaderPut PROVE FieldHeld(c, 0, HeaderPut[f], HeadOf[f])
  BY <1>1, <1>2, <1>4, <1>5, HeldAgrees
<1>7. /\ HeaderPut.blockLength = HeaderPut["blockLength"] /\ HeaderPut.version = HeaderPut["version"]
      /\ {"blockLength", "version"} \subseteq DOMAIN HeaderPut
      /\ HeadOf["blockLength"] = Num(Fmt.blockLength) /\ HeadOf["version"] = Num(Fmt.version)
  BY DEF HeaderPut, HeadOf
<1>8. ASSUME NEW f \in DOMAIN Fmt.put
      PROVE  FieldHeld(c, HeaderLength, Fmt.put[f], BlockValue(m, f))
  BY <1>3 DEF BlockOf
<1>9. HeadHeld(c, m)
  BY <1>6, <1>7, <1>8 DEF HeadHeld
<1>10. GroupsHeld(c, m, 0)
  BY <1>9 DEF GroupsHeld
<1>. QED BY <1>3, <1>10 DEF c, d

GroupHeadOf(g) == [blockLength |-> Num(Fmt.groups[g].blockLength), numInGroup |-> Num(sizes[g])]

\* EncodeGroup the group header, with what was there before it,
LEMMA GroupEncoded ==
    ASSUME Setup, NEW b, NEW n \in Nat, DOMAIN b = 0..(n - 1), NEW m, NEW g \in 1..Groups,
           GroupsHeld(b, m, g - 1), Start(g) + GroupHeaderLength <= n
    PROVE  LET c == PutFields(b, Start(g), GroupHeader, GroupHeadOf(g))
           IN  DOMAIN c = 0..(n - 1) /\ ElemsHeld(c, m, g, 0)
<1>. DEFINE c == PutFields(b, Start(g), GroupHeader, GroupHeadOf(g))
<1>1. Start(g) \in Nat /\ GroupHeaderLength \in Nat /\ Groups \in Nat
  BY Layout, Formats DEF GroupHeaderLength
<1>2. /\ DOMAIN c = 0..(n - 1)
      /\ \A j \in 0..(n - 1) : j < Start(g) \/ Start(g) + GroupHeaderLength <= j => c[j] = b[j]
      /\ \A f \in DOMAIN GroupHeader : FieldHeld(c, Start(g), GroupHeader[f], GroupHeadOf(g)[f])
  BY <1>1, HeaderTables, PutHolds
<1>. HIDE DEF c
<1>3. Agree(b, c, Start(g))
  BY <1>1, <1>2 DEF Agree, GroupHeaderLength
<1>4. g - 1 \in 0..Groups /\ (g - 1) + 1 = g
  BY <1>1
<1>5. GroupsHeld(c, m, g - 1)
  BY <1>1, <1>3, <1>4, GroupsAgree
<1>6. /\ GroupHeader.blockLength = GroupHeader["blockLength"]
      /\ GroupHeader.numInGroup = GroupHeader["numInGroup"]
      /\ {"blockLength", "numInGroup"} \subseteq DOMAIN GroupHeader
      /\ GroupHeadOf(g)["blockLength"] = Num(Fmt.groups[g].blockLength)
      /\ GroupHeadOf(g)["numInGroup"] = Num(sizes[g])
  BY DEF GroupHeader, GroupHeadOf
<1>7. GroupHeld(c, g)
  BY <1>2, <1>6 DEF GroupHeld
<1>. QED BY <1>2, <1>5, <1>7 DEF ElemsHeld, c

\* The element at `at`, with a text behind its fields where the group has one.
FieldsPut(b, at, m, g, i) ==
    PutFields(b, at, Fmt.groups[g].put, [f \in DOMAIN Fmt.groups[g].put |-> ElemValue(m, g, i, f)])
TextPut(b, at, slice) ==
    PutSlice(PutFields(b, at, [length |-> F(0, VarDataLength)], [length |-> Num(Len(slice))]),
             at + VarDataLength, slice)

\* and EncodeElem the fields of an element,
LEMMA FieldsEncoded ==
    ASSUME Setup, NEW b, NEW n \in Nat, DOMAIN b = 0..(n - 1), NEW m, NEW g \in 1..Groups, NEW i,
           NEW at \in Nat, at + Fmt.groups[g].blockLength <= n
    PROVE  LET c == FieldsPut(b, at, m, g, i)
           IN  /\ DOMAIN c = 0..(n - 1) /\ Agree(b, c, at)
               /\ \A f \in DOMAIN Fmt.groups[g].put :
                     FieldHeld(c, at, Fmt.groups[g].put[f], ElemValue(m, g, i, f))
<1>. DEFINE length == Fmt.groups[g].blockLength
            put == Fmt.groups[g].put
            values == [f \in DOMAIN put |-> ElemValue(m, g, i, f)]
            c == PutFields(b, at, put, values)
<1>1. Table(put, length) /\ length \in Nat
  BY Formats DEF Table
<1>2. /\ DOMAIN c = 0..(n - 1)
      /\ \A j \in 0..(n - 1) : j < at \/ at + length <= j => c[j] = b[j]
      /\ \A f \in DOMAIN put : FieldHeld(c, at, put[f], values[f])
  <2>. HIDE DEF values, put
  <2>. QED BY <1>1, PutHolds
<1>3. Agree(b, c, at)
  <2>. HIDE DEF c
  <2>. QED BY <1>1, <1>2 DEF Agree
<1>4. \A f \in DOMAIN put : values[f] = ElemValue(m, g, i, f)
  OBVIOUS
<1>5. c = FieldsPut(b, at, m, g, i)
  BY DEF FieldsPut
<1>. HIDE DEF c, values
<1>. QED BY <1>2, <1>3, <1>4, <1>5

\* its text,
LEMMA TextEncoded ==
    ASSUME Setup, NEW b, NEW n \in Nat, DOMAIN b = 0..(n - 1), NEW m, NEW g \in 1..Groups, NEW i,
           NEW at \in Nat, at + VarDataLength + text <= n, Fmt.groups[g].varData
    PROVE  LET c == TextPut(b, at, Text(m, g, i))
           IN  DOMAIN c = 0..(n - 1) /\ Agree(b, c, at) /\ TextHeld(c, at, m, g, i)
<1>. DEFINE slice == Text(m, g, i)
            length == [length |-> F(0, VarDataLength)]
            d == PutFields(b, at, length, [length |-> Num(Len(slice))])
            c == PutSlice(d, at + VarDataLength, slice)
<1>1. /\ text \in Nat /\ Len(slice) = text
      /\ \A j \in 1..text : slice[j] = << <<"text", m, g, i>>, j - 1 >>
  BY DEF Text, Setup
<1>2. VarDataLength \in Nat /\ F(0, VarDataLength) = length["length"] /\ DOMAIN length = {"length"}
  BY DEF VarDataLength
<1>. HIDE DEF slice
<1>3. /\ DOMAIN d = 0..(n - 1)
      /\ \A j \in 0..(n - 1) : j < at \/ at + VarDataLength <= j => d[j] = b[j]
      /\ FieldHeld(d, at, F(0, VarDataLength), Num(text))
  <2>1. at + VarDataLength <= n
    BY <1>1, <1>2
  <2>2. /\ DOMAIN d = 0..(n - 1)
        /\ \A j \in 0..(n - 1) : j < at \/ at + VarDataLength <= j => d[j] = b[j]
        /\ \A f \in DOMAIN length : FieldHeld(d, at, length[f], [length |-> Num(Len(slice))][f])
    <3>. DEFINE values == [length |-> Num(Len(slice))]
    <3>. HIDE DEF length, values
    <3>1. Table(length, VarDataLength)
      BY LengthTable DEF length
    <3>2. /\ DOMAIN PutFields(b, at, length, values) = 0..(n - 1)
          /\ \A j \in 0..(n - 1) : j < at \/ at + VarDataLength <= j =>
                PutFields(b, at, length, values)[j] = b[j]
          /\ \A f \in DOMAIN length : FieldHeld(PutFields(b, at, length, values), at, length[f], values[f])
      BY <2>1, <3>1, PutHolds
    <3>. QED BY <3>2 DEF values
  <2>3. [length |-> Num(Len(slice))]["length"] = Num(text)
    BY <1>1
  <2>. HIDE DEF d
  <2>. QED BY <1>2, <2>2, <2>3
<1>. HIDE DEF d
<1>4. /\ DOMAIN c = 0..(n - 1)
      /\ \A j \in 0..(n - 1) : c[j] = IF j \in (at + VarDataLength)..(at + VarDataLength + text - 1)
                                      THEN slice[j - (at + VarDataLength) + 1] ELSE d[j]
  BY <1>1, <1>3 DEF PutSlice
<1>. HIDE DEF c
<1>5. Agree(d, c, at + VarDataLength)
  BY <1>1, <1>2, <1>4 DEF Agree
<1>6. Agree(b, c, at)
  BY <1>1, <1>2, <1>3, <1>4 DEF Agree
<1>7. F(0, VarDataLength).at = 0 /\ F(0, VarDataLength).size = VarDataLength /\ 0 \in Nat
  BY DEF F
<1>8. at + VarDataLength \in Nat /\ at + 0 + VarDataLength <= at + VarDataLength
  BY <1>2
<1>9. FieldHeld(c, at, F(0, VarDataLength), Num(text))
  BY <1>2, <1>3, <1>5, <1>7, <1>8, HeldAgrees
<1>10. ASSUME NEW j \in 1..text
       PROVE  /\ at + VarDataLength + j - 1 \in DOMAIN c
              /\ c[at + VarDataLength + j - 1] = << <<"text", m, g, i>>, j - 1 >>
  <2>. DEFINE p == at + VarDataLength + j - 1
  <2>1. /\ p \in 0..(n - 1) /\ p \in (at + VarDataLength)..(at + VarDataLength + text - 1)
        /\ p - (at + VarDataLength) + 1 = j
    BY <1>1, <1>2, SMTT(30)
  <2>. HIDE DEF p
  <2>2. p \in DOMAIN c /\ c[p] = slice[j]
    BY <1>4, <2>1
  <2>3. slice[j] = << <<"text", m, g, i>>, j - 1 >>
    BY <1>1
  <2>. QED BY <2>2, <2>3 DEF p
<1>11. TextHeld(c, at, m, g, i)
  BY <1>9, <1>10 DEF TextHeld
<1>12. c = TextPut(b, at, Text(m, g, i))
  BY DEF c, d, slice, TextPut
<1>. QED BY <1>4, <1>6, <1>11, <1>12

\* What EncodeElem writes.
ElemPut(b, at, m, g, i) ==
    IF Fmt.groups[g].varData
    THEN TextPut(FieldsPut(b, at, m, g, i), at + Fmt.groups[g].blockLength, Text(m, g, i))
    ELSE FieldsPut(b, at, m, g, i)

\* and so the element, with the elements before it.
LEMMA ElemEncoded ==
    ASSUME Setup, NEW b, NEW n \in Nat, DOMAIN b = 0..(n - 1), NEW m, NEW g \in 1..Groups,
           NEW i \in 1..sizes[g], ElemsHeld(b, m, g, i - 1), ElemsEnd(g, i) <= n
    PROVE  LET c == ElemPut(b, ElemsEnd(g, i - 1), m, g, i)
           IN  DOMAIN c = 0..(n - 1) /\ ElemsHeld(c, m, g, i)
<1>. DEFINE at == ElemsEnd(g, i - 1)
            length == Fmt.groups[g].blockLength
            put == Fmt.groups[g].put
            d == FieldsPut(b, at, m, g, i)
            c == ElemPut(b, at, m, g, i)
<1>1. /\ sizes[g] \in Nat /\ i \in Nat /\ i - 1 \in 0..sizes[g] /\ i - 1 \in Nat /\ (i - 1) + 1 = i
  BY Formats
<1>2. /\ at \in Nat /\ length \in Nat /\ text \in Nat /\ Stride(g) \in Nat
      /\ ElemsEnd(g, i) = at + Stride(g)
  <2>1. ElemsEnd(g, (i - 1) + 1) = at + Stride(g)
    BY <1>1, Layout
  <2>. QED BY <1>1, <2>1, Layout DEF Setup
<1>12. Stride(g) = length + (IF Fmt.groups[g].varData THEN VarDataLength + text ELSE 0)
  BY DEF Stride
<1>13. c = IF Fmt.groups[g].varData THEN TextPut(d, at + length, Text(m, g, i)) ELSE d
  BY DEF ElemPut
<1>4. \A f \in DOMAIN put :
         put[f].at \in Nat /\ put[f].size \in Nat /\ put[f].at + put[f].size <= length
  BY Formats DEF Table
<1>. HIDE DEF at, length
<1>3. /\ at + length <= n /\ at + length \in Nat
      /\ Fmt.groups[g].varData => at + length + VarDataLength + text <= n
  BY <1>2, <1>12, SMTT(30) DEF VarDataLength
<1>5. /\ DOMAIN d = 0..(n - 1) /\ Agree(b, d, at)
      /\ \A f \in DOMAIN put : FieldHeld(d, at, put[f], ElemValue(m, g, i, f))
  BY <1>2, <1>3, FieldsEncoded DEF length
<1>. HIDE DEF c, d
<1>6. /\ DOMAIN c = 0..(n - 1) /\ Agree(d, c, at + length)
      /\ Fmt.groups[g].varData => TextHeld(c, at + length, m, g, i)
  <2>1. CASE Fmt.groups[g].varData
    <3>. QED BY <1>3, <1>5, <1>13, <2>1, TextEncoded
  <2>2. CASE ~Fmt.groups[g].varData
    <3>1. c = d
      BY <1>13, <2>2
    <3>2. Agree(d, d, at + length)
      BY <1>2, <1>3, <1>5 DEF Agree
    <3>. QED BY <1>5, <2>2, <3>1, <3>2
  <2>. QED BY <2>1, <2>2
<1>7. Agree(b, c, at)
  BY <1>2, <1>5, <1>6 DEF Agree
<1>8. ASSUME NEW f \in DOMAIN put PROVE FieldHeld(c, at, put[f], ElemValue(m, g, i, f))
  <2>1. FieldHeld(d, at, put[f], ElemValue(m, g, i, f))
    BY <1>5
  <2>. HIDE DEF put
  <2>2. put[f].at \in Nat /\ put[f].size \in Nat /\ put[f].at + put[f].size <= length
    BY <1>4
  <2>3. at + put[f].at + put[f].size <= at + length
    BY <1>2, <2>2
  <2>. QED BY <1>2, <1>3, <1>4, <1>6, <2>1, <2>2, <2>3, HeldAgrees
<1>9. ElemHeld(c, m, g, i)
  BY <1>6, <1>8 DEF ElemHeld, at, length
<1>10. ElemsHeld(c, m, g, i - 1)
  <2>1. ElemsEnd(g, i - 1) <= at /\ at \in Nat
    BY <1>2 DEF at
  <2>. QED BY <1>1, <1>7, <2>1, ElemsAgree
<1>11. ElemsHeld(c, m, g, i)
  <2>1. \A k \in 1..i : k = i \/ k \in 1..(i - 1)
    BY <1>1
  <2>. QED BY <1>9, <1>10, <2>1 DEF ElemsHeld
<1>. QED BY <1>6, <1>11 DEF c, at

-----------------------------------------------------------------------------
(* What the decoder reads.                                                 *)

\* A header and a block that are held are read as they were encoded.
LEMMA HeadDecoded ==
    ASSUME Setup, NEW b, NEW m, HeadHeld(b, m)
    PROVE  /\ GetNum(b, 0, HeaderGet.blockLength) = Fmt.blockLength
           /\ GetNum(b, 0, HeaderGet.version) = Fmt.version
           /\ GetFields(b, HeaderLength, Fmt.get) = Message(m).block
<1>1. /\ HeaderGet.blockLength = HeaderPut.blockLength /\ HeaderGet.version = HeaderPut.version
      /\ HeaderPut.blockLength.at \in Nat /\ HeaderPut.blockLength.size \in Nat \ {0}
      /\ HeaderPut.version.at \in Nat /\ HeaderPut.version.size \in Nat \ {0}
      /\ HeaderLength \in Nat /\ 0 \in Nat
  BY DEF HeaderPut, HeaderGet, F, HeaderLength
<1>2. /\ GetNum(b, 0, HeaderPut.blockLength) = Fmt.blockLength
      /\ GetNum(b, 0, HeaderPut.version) = Fmt.version
  BY <1>1, GetNumHeld DEF HeadHeld
<1>3. GetFields(b, HeaderLength, Fmt.get) = [f \in DOMAIN Fmt.put |-> BlockValue(m, f)]
  <2>. DEFINE val == [f \in DOMAIN Fmt.put |-> BlockValue(m, f)]
  <2>1. \A f \in DOMAIN Fmt.put : val[f] = BlockValue(m, f)
    OBVIOUS
  <2>2. DOMAIN val = DOMAIN Fmt.put /\ val = [f \in DOMAIN Fmt.put |-> val[f]]
    OBVIOUS
  <2>. HIDE DEF val
  <2>3. \A f \in DOMAIN Fmt.put : FieldHeld(b, HeaderLength, Fmt.put[f], val[f])
    BY <2>1 DEF HeadHeld
  <2>4. GetFields(b, HeaderLength, Fmt.put) = [f \in DOMAIN Fmt.put |-> val[f]]
    <3>1. Table(Fmt.put, Fmt.blockLength)
      BY Formats
    <3>2. HeaderLength \in Nat
      BY <1>1
    <3>. QED BY <2>3, <3>1, <3>2, GetTable, SMTT(30)
  <2>5. Fmt.get = Fmt.put
    BY Formats
  <2>. QED BY <2>2, <2>4, <2>5 DEF val
<1>4. Message(m).block = [f \in DOMAIN Fmt.put |-> BlockValue(m, f)]
  BY DEF Message
<1>. QED BY <1>1, <1>2, <1>3, <1>4

\* A group header that is held gives the length and number of its elements,
LEMMA GroupDecoded ==
    ASSUME Setup, NEW b, NEW g \in 1..Groups, GroupHeld(b, g)
    PROVE  /\ GetNum(b, Start(g), GroupHeader.blockLength) = Fmt.groups[g].blockLength
           /\ GetNum(b, Start(g), GroupHeader.numInGroup) = sizes[g]
<1>1. /\ GroupHeader.blockLength.at \in Nat /\ GroupHeader.blockLength.size \in Nat \ {0}
      /\ GroupHeader.numInGroup.at \in Nat /\ GroupHeader.numInGroup.size \in Nat \ {0}
  BY GroupFields
<1>2. Start(g) \in Nat
  BY Layout
<1>. QED BY <1>1, <1>2, GetNumHeld DEF GroupHeld

\* and an element that is held is read as it was encoded, up to where it ends.
LEMMA ElemDecoded ==
    ASSUME Setup, NEW b, NEW m, NEW g \in 1..Groups, NEW i \in 1..sizes[g], ElemHeld(b, m, g, i)
    PROVE  LET at    == ElemsEnd(g, i - 1)
               limit == at + Fmt.groups[g].blockLength
               size  == IF Fmt.groups[g].varData THEN GetNum(b, limit, F(0, VarDataLength)) ELSE 0
           IN  /\ [fields |-> GetFields(b, at, Fmt.groups[g].get),
                   text   |-> [j \in 1..size |-> b[limit + VarDataLength + j - 1]]]
                  = Message(m).groups[g][i]
               /\ ElemsEnd(g, i) = IF Fmt.groups[g].varData THEN limit + VarDataLength + size ELSE limit
<1>. DEFINE at == ElemsEnd(g, i - 1)
            limit == at + Fmt.groups[g].blockLength
            size == IF Fmt.groups[g].varData THEN GetNum(b, limit, F(0, VarDataLength)) ELSE 0
            put == Fmt.groups[g].put
            val == [f \in DOMAIN put |-> ElemValue(m, g, i, f)]
            read == [j \in 1..size |-> b[limit + VarDataLength + j - 1]]
<1>1. /\ at \in Nat /\ limit \in Nat /\ text \in Nat /\ Fmt.groups[g].blockLength \in Nat
      /\ ElemsEnd(g, i) = at + Stride(g)
  <2>1. sizes[g] \in Nat
    BY Formats
  <2>2. i - 1 \in Nat /\ (i - 1) + 1 = i
    BY <2>1
  <2>3. at \in Nat /\ Fmt.groups[g].blockLength \in Nat /\ ElemsEnd(g, (i - 1) + 1) = at + Stride(g)
    BY <2>2, Layout
  <2>. QED BY <2>2, <2>3 DEF Setup
<1>2. Stride(g) = Fmt.groups[g].blockLength + (IF Fmt.groups[g].varData THEN VarDataLength + text ELSE 0)
  BY DEF Stride
<1>3. /\ \A f \in DOMAIN put : FieldHeld(b, at, put[f], val[f])
      /\ Fmt.groups[g].varData => TextHeld(b, limit, m, g, i)
  BY DEF ElemHeld
<1>4. Fmt.groups[g].get = put /\ Table(put, Fmt.groups[g].blockLength)
  BY Formats
<1>5. DOMAIN val = DOMAIN put /\ val = [f \in DOMAIN put |-> val[f]]
  OBVIOUS
<1>6. Message(m).groups[g][i] = [fields |-> val, text |-> Text(m, g, i)]
  BY DEF Message, Groups
<1>. HIDE DEF at, val, put
<1>7. GetFields(b, at, put) = val
  <2>1. GetFields(b, at, put) = [f \in DOMAIN put |-> GetField(b, at, put[f])]
    BY DEF GetFields
  <2>2. ASSUME NEW f \in DOMAIN put PROVE GetField(b, at, put[f]) = val[f]
    <3>1. put[f].at \in Nat /\ put[f].size \in Nat \ {0} /\ FieldHeld(b, at, put[f], val[f]) /\ at \in Nat
      BY <1>1, <1>3, <1>4 DEF Table
    <3>. QED BY <3>1, GetHeld
  <2>. QED BY <1>5, <2>1, <2>2
<1>8. CASE Fmt.groups[g].varData
  <2>1. /\ F(0, VarDataLength).at \in Nat /\ F(0, VarDataLength).size \in Nat \ {0}
        /\ VarDataLength \in Nat
    BY DEF F, VarDataLength
  <2>2. FieldHeld(b, limit, F(0, VarDataLength), Num(text))
    BY <1>3, <1>8 DEF TextHeld
  <2>3. size = text
    BY <1>1, <1>8, <2>1, <2>2, GetNumHeld
  <2>4. Text(m, g, i) = [j \in 1..text |-> << <<"text", m, g, i>>, j - 1 >>]
    BY <1>8 DEF Text
  <2>5. \A j \in 1..text : b[limit + VarDataLength + j - 1] = << <<"text", m, g, i>>, j - 1 >>
    BY <1>3, <1>8 DEF TextHeld
  <2>. HIDE DEF size, limit
  <2>6. read = Text(m, g, i)
    BY <2>3, <2>4, <2>5
  <2>7. ElemsEnd(g, i) = limit + VarDataLength + size
    BY <1>1, <1>2, <1>8, <2>1, <2>3 DEF limit
  <2>. HIDE DEF read
  <2>8. [fields |-> GetFields(b, at, Fmt.groups[g].get), text |-> read] = Message(m).groups[g][i]
    BY <1>4, <1>6, <1>7, <2>6
  <2>. QED BY <1>8, <2>7, <2>8 DEF read, size, limit, at
<1>9. CASE ~Fmt.groups[g].varData
  <2>1. size = 0
    BY <1>9
  <2>2. Text(m, g, i) = <<>>
    BY <1>9 DEF Text
  <2>. HIDE DEF size, limit
  <2>3. read = <<>>
    BY <2>1
  <2>4. ElemsEnd(g, i) = limit
    BY <1>1, <1>2, <1>9 DEF limit
  <2>. HIDE DEF read
  <2>5. [fields |-> GetFields(b, at, Fmt.groups[g].get), text |-> read] = Message(m).groups[g][i]
    BY <1>4, <1>6, <1>7, <2>2, <2>3
  <2>. QED BY <1>9, <2>4, <2>5 DEF read, size, limit, at
<1>. QED BY <1>8, <1>9

-----------------------------------------------------------------------------
(* The invariant.                                                          *)

Encoding == step \in {"encode block", "encode group", "encode element"}
Decoding == step \in {"decode block", "decode group", "decode element"}

\* Where the loops of a program are.
LoopInv ==
    /\ Setup
    /\ step \in {"next", "panicked"} \/ Encoding \/ Decoding
    /\ workload = "snapshot" => step # "panicked"
    /\ r \in Nat \ {0}
    /\ pass \in {"warmup", "timed", "build", "rewarm", "replay", "done"}
    /\ workload = "snapshot" => pass \in {"warmup", "timed", "done"}
    /\ pass # "done" => r <= PassLength + 1
    /\ step \notin {"next", "panicked"} => pass # "done" /\ r <= PassLength
    /\ workload = "aeron_sbe" /\ Encoding => pass \in {"warmup", "timed", "build"}
    /\ workload = "aeron_sbe" /\ Decoding => pass \in {"rewarm", "replay"}

BufLength == IF workload = "snapshot" THEN BufLen ELSE ScratchLength
BufInv == DOMAIN buf = 0..(BufLength - 1)

\* The frames lie in the journal, and each holds the message of its number.
FrameOf(k) == [j \in 0..(End - 1) |-> journal[frames[k].start + j + 1]]

JournalInv ==
    /\ frames \in Seq([start : Nat, length : {End}])
    /\ \E S : journal \in Seq(S)
    /\ \A k \in 1..Len(frames) :
          frames[k].start + End <= Len(journal) /\ GroupsHeld(FrameOf(k), Warmup + k, Groups)
    /\ pass \in {"warmup", "timed"} => frames = <<>>
    /\ pass = "build" => Len(frames) = r - 1
    /\ pass \in {"rewarm", "replay"} => Len(frames) = Iters

\* What the encoder has put behind it is in the buffer.
EncInv ==
    /\ enc = [limit |-> enc.limit, group |-> enc.group, index |-> enc.index,
              count |-> enc.count, length |-> enc.length, at |-> enc.at]
    /\ step = "encode group" =>
          /\ enc.group \in 0..Groups /\ enc.limit = Start(enc.group + 1)
          /\ GroupsHeld(buf, Number, enc.group)
    /\ step = "encode element" =>
          /\ enc.group \in 1..Groups /\ enc.index \in 0..sizes[enc.group]
          /\ enc.count = sizes[enc.group] /\ enc.length = Fmt.groups[enc.group].blockLength
          /\ enc.limit = ElemsEnd(enc.group, enc.index)
          /\ ElemsHeld(buf, Number, enc.group, enc.index)

TrailInv ==
    workload = "snapshot" /\ Decoding =>
        /\ enc.limit = End + 4 /\ GroupsHeld(buf, Number, Groups)
        /\ FieldHeld(buf, End, Trailer.crc, Crc(End))

\* What the decoder has behind it is read.
GroupsRead(g) == [h \in 1..g |-> Message(Number).groups[h]]
ElemsRead(g, i) ==
    [h \in 1..g |-> IF h = g THEN [k \in 1..i |-> Message(Number).groups[g][k]]
                    ELSE Message(Number).groups[h]]

DecInv ==
    /\ dec = [limit |-> dec.limit, group |-> dec.group, index |-> dec.index, count |-> dec.count,
              length |-> dec.length, at |-> dec.at, block |-> dec.block, groups |-> dec.groups]
    /\ step = "decode group" =>
          /\ dec.group \in 0..Groups /\ dec.limit = Start(dec.group + 1)
          /\ dec.block = Message(Number).block /\ dec.groups = GroupsRead(dec.group)
    /\ step = "decode element" =>
          /\ dec.group \in 1..Groups /\ dec.index \in 0..sizes[dec.group]
          /\ dec.count = sizes[dec.group] /\ dec.length = Fmt.groups[dec.group].blockLength
          /\ dec.limit = ElemsEnd(dec.group, dec.index)
          /\ dec.block = Message(Number).block /\ dec.groups = ElemsRead(dec.group, dec.index)

CodecInv == LoopInv /\ BufInv /\ JournalInv /\ EncInv /\ TrailInv /\ DecInv

-----------------------------------------------------------------------------
(* What stays.                                                             *)

\* The program, its sizes and the length of a text stay, and so does the layout.
LEMMA SetupStays ==
    ASSUME UNCHANGED setup
    PROVE  /\ workload' = workload /\ sizes' = sizes /\ text' = text
           /\ Fmt' = Fmt /\ Groups' = Groups /\ Setup' = Setup /\ End' = End /\ BufLength' = BufLength
           /\ \A g : Stride(g)' = Stride(g) /\ Start(g)' = Start(g)
           /\ \A g, i : ElemsEnd(g, i)' = ElemsEnd(g, i)
           /\ \A m : Message(m)' = Message(m)
           /\ \A b, m, g : GroupsHeld(b, m, g)' = GroupsHeld(b, m, g)
           /\ \A b, m, g, i : ElemsHeld(b, m, g, i)' = ElemsHeld(b, m, g, i)
<1>1. Fmt' = Fmt /\ workload' = workload /\ sizes' = sizes /\ text' = text
  BY DEF setup, Fmt
<1>2. Groups' = Groups /\ Setup' = Setup /\ BufLength' = BufLength
  BY <1>1 DEF Groups, Setup, BufLength
<1>3. ASSUME NEW g PROVE Stride(g)' = Stride(g) /\ Span(g)' = Span(g)
  BY <1>1 DEF Stride, Span
<1>4. ASSUME NEW g PROVE Start(g)' = Start(g)
  BY <1>1, <1>3 DEF Start
<1>5. ASSUME NEW g, NEW i PROVE ElemsEnd(g, i)' = ElemsEnd(g, i)
  BY <1>3, <1>4 DEF ElemsEnd
<1>6. ASSUME NEW b, NEW m PROVE HeadHeld(b, m)' = HeadHeld(b, m)
  BY <1>1 DEF HeadHeld, BlockValue
<1>7. ASSUME NEW b, NEW g PROVE GroupHeld(b, g)' = GroupHeld(b, g)
  BY <1>1, <1>4 DEF GroupHeld
<1>8. ASSUME NEW b, NEW m, NEW g, NEW i PROVE ElemHeld(b, m, g, i)' = ElemHeld(b, m, g, i)
  <2>1. \A at : TextHeld(b, at, m, g, i)' = TextHeld(b, at, m, g, i)
    BY <1>1 DEF TextHeld
  <2>. QED BY <1>1, <1>5, <2>1 DEF ElemHeld, ElemValue
<1>9. ASSUME NEW b, NEW m, NEW g PROVE GroupsHeld(b, m, g)' = GroupsHeld(b, m, g)
  BY <1>1, <1>6, <1>7, <1>8 DEF GroupsHeld
<1>10. ASSUME NEW b, NEW m, NEW g, NEW i PROVE ElemsHeld(b, m, g, i)' = ElemsHeld(b, m, g, i)
  BY <1>7, <1>8, <1>9 DEF ElemsHeld
<1>11. ASSUME NEW m PROVE Message(m)' = Message(m)
  BY <1>1 DEF Message, Text, BlockValue, ElemValue
<1>12. End' = End
  BY <1>2, <1>4 DEF End
<1>. QED BY <1>1, <1>2, <1>3, <1>4, <1>5, <1>9, <1>10, <1>11, <1>12

\* The invariant's parts, each kept by a step that leaves alone what it is about.
LEMMA BufStays == ASSUME BufInv, UNCHANGED <<setup, buf>> PROVE BufInv'
BY SetupStays DEF BufInv

LEMMA JournalStays ==
    ASSUME JournalInv, UNCHANGED <<setup, journal, frames, pass>>, r' = r \/ pass # "build"
    PROVE  JournalInv' /\ PassLength' = PassLength
<1>1. PassLength' = PassLength
  BY DEF PassLength
<1>2. End' = End /\ \A k : FrameOf(k)' = FrameOf(k)
  BY SetupStays DEF FrameOf
<1>3. \A k : GroupsHeld(FrameOf(k), Warmup + k, Groups)' = GroupsHeld(FrameOf(k), Warmup + k, Groups)
  BY <1>2, SetupStays
<1>. QED BY <1>1, <1>2, <1>3 DEF JournalInv

LEMMA NumberStays == ASSUME UNCHANGED <<pass, r>> PROVE Number' = Number
BY DEF Number

LEMMA EncStays ==
    ASSUME EncInv, UNCHANGED <<setup, pass, r, buf, enc>>,
           step' = step \/ step' \notin {"encode group", "encode element"}
    PROVE  EncInv'
<1>1. Number' = Number
  BY NumberStays
<1>. QED BY <1>1, SetupStays DEF EncInv

LEMMA TrailStays ==
    ASSUME TrailInv, UNCHANGED <<setup, pass, r, buf, enc>>, Decoding' => Decoding PROVE TrailInv'
<1>1. Number' = Number /\ End' = End
  BY NumberStays, SetupStays
<1>2. Crc(End)' = Crc(End)
  BY <1>1 DEF Crc
<1>. QED BY <1>1, <1>2, SetupStays DEF TrailInv

LEMMA DecStays ==
    ASSUME DecInv, UNCHANGED <<setup, dec>>, UNCHANGED <<pass, r>> \/ step' = "next",
           step' = step \/ step' \notin {"decode group", "decode element"}
    PROVE  DecInv'
<1>1. CASE UNCHANGED <<pass, r>>
  <2>1. Number' = Number
    BY <1>1, NumberStays
  <2>2. (\A g : GroupsRead(g)' = GroupsRead(g)) /\ \A g, i : ElemsRead(g, i)' = ElemsRead(g, i)
    BY <2>1, SetupStays DEF GroupsRead, ElemsRead
  <2>. QED BY <2>1, <2>2, SetupStays DEF DecInv
<1>2. CASE step' = "next"
  BY <1>2 DEF DecInv
<1>. QED BY <1>1, <1>2

\* The lengths the loops run to.
LEMMA Counts ==
    ASSUME LoopInv, JournalInv
    PROVE  PassLength \in Nat /\ Len(frames) \in Nat /\ Warmup \in Nat /\ Iters \in Nat \ {0}
<1>1. Warmup \in Nat /\ Iters \in Nat \ {0}
  BY SbeAssumption
<1>2. Len(frames) \in Nat
  BY DEF JournalInv
<1>. QED BY <1>1, <1>2 DEF PassLength

-----------------------------------------------------------------------------
(* The loops of the programs.                                              *)

\* Nothing has been written or read yet.
LEMMA InitCodec == CodecInit => CodecInv
<1>. SUFFICES ASSUME CodecInit PROVE CodecInv
  OBVIOUS
<1>1. Warmup \in Nat /\ MaxText \in Nat
  BY SbeAssumption
<1>2. /\ workload \in {"snapshot", "aeron_sbe"} /\ pass = "warmup" /\ r = 1 /\ step = "next"
      /\ sizes \in IF workload = "snapshot" THEN BookSizes ELSE {<<k>> : k \in 0..MaxEntries}
      /\ text \in IF workload = "snapshot" THEN {0} ELSE 0..MaxText
      /\ buf = NewBuf(BufLength) /\ journal = <<>> /\ frames = <<>>
      /\ enc = NewCursor /\ dec = NewDecoder
  BY DEF CodecInit, BufLength
<1>3. Setup
  <2>1. text \in Nat
    BY <1>1, <1>2
  <2>. QED BY <1>2, <2>1 DEF Setup
<1>4. LoopInv
  BY <1>1, <1>2, <1>3 DEF LoopInv, PassLength, Encoding, Decoding
<1>5. BufInv
  BY <1>2 DEF BufInv, NewBuf
<1>6. JournalInv
  BY <1>2 DEF JournalInv
<1>7. EncInv
  BY <1>2 DEF EncInv, NewCursor
<1>8. DecInv
  BY <1>2 DEF DecInv, NewDecoder
<1>9. TrailInv
  BY <1>2 DEF TrailInv, Decoding
<1>. QED BY <1>4, <1>5, <1>6, <1>7, <1>8, <1>9 DEF CodecInv

\* One lemma per action: the loops,
LEMMA NextMessageCodec == ASSUME CodecInv, NextMessage PROVE CodecInv'
<1>. USE DEF CodecInv
<1>1. /\ step = "next" /\ pass # "done" /\ r <= PassLength
      /\ step' = IF pass \in {"rewarm", "replay"} THEN "decode block" ELSE "encode block"
      /\ UNCHANGED <<setup, pass, r, buf, enc, journal, frames, dec>>
  BY DEF NextMessage
<1>2. BufInv' /\ EncInv' /\ DecInv' /\ JournalInv' /\ PassLength' = PassLength
  BY <1>1, BufStays, EncStays, DecStays, JournalStays
<1>3. LoopInv'
  BY <1>1, <1>2, SetupStays DEF LoopInv, Encoding, Decoding
<1>4. TrailInv'
  BY <1>1, SetupStays DEF LoopInv, TrailInv, Decoding
<1>. QED BY <1>2, <1>3, <1>4

LEMMA NextPassCodec == ASSUME CodecInv, NextPass PROVE CodecInv'
<1>. USE DEF CodecInv
<1>1. /\ step = "next" /\ pass # "done" /\ r > PassLength /\ r' = 1
      /\ UNCHANGED <<setup, step, buf, enc, journal, frames, dec>>
  BY DEF NextPass
<1>2. \/ pass = "warmup" /\ pass' = "timed"
      \/ pass = "timed" /\ pass' = IF workload = "snapshot" THEN "done" ELSE "build"
      \/ workload = "aeron_sbe" /\ pass = "build" /\ pass' = "rewarm"
      \/ workload = "aeron_sbe" /\ pass = "rewarm" /\ pass' = "replay"
      \/ workload = "aeron_sbe" /\ pass = "replay" /\ pass' = "done"
  <2>1. PICK i \in 1..(Len(Passes) - 1) : Passes[i] = pass /\ pass' = Passes[i + 1]
    BY DEF NextPass
  <2>2. CASE workload = "snapshot"
    <3>1. Passes = <<"warmup", "timed", "done">>
      BY <2>2 DEF Passes
    <3>2. i \in {1, 2}
      BY <3>1
    <3>. QED BY <2>1, <2>2, <3>1, <3>2
  <2>3. CASE workload = "aeron_sbe"
    <3>1. Passes = <<"warmup", "timed", "build", "rewarm", "replay", "done">>
      BY <2>3 DEF Passes
    <3>2. i \in {1, 2, 3, 4, 5}
      BY <3>1
    <3>. QED BY <2>1, <2>3, <3>1, <3>2
  <2>. QED BY <2>2, <2>3 DEF LoopInv, Setup
<1>3. /\ PassLength \in Nat /\ Len(frames) \in Nat /\ Warmup \in Nat /\ Iters \in Nat \ {0}
      /\ r \in Nat /\ r <= PassLength + 1
  BY <1>1, Counts DEF LoopInv
<1>4. PassLength' \in Nat
  BY <1>1, <1>2, <1>3 DEF PassLength
<1>5. LoopInv'
  <2>1. ~Encoding' /\ ~Decoding'
    BY <1>1 DEF Encoding, Decoding
  <2>2. pass' \in {"warmup", "timed", "build", "rewarm", "replay", "done"}
        /\ (workload = "snapshot" => pass' \in {"warmup", "timed", "done"})
    BY <1>2 DEF LoopInv
  <2>3. r' \in Nat \ {0} /\ r' <= PassLength' + 1
    <3>1. r' = 1
      BY <1>1
    <3>2. PICK p \in Nat : p = PassLength'
      BY <1>4
    <3>3. 1 <= p + 1
      OBVIOUS
    <3>4. r' <= PassLength' + 1
      BY <3>1, <3>2, <3>3, Zenon
    <3>. QED BY <3>1, <3>4
  <2>. QED BY <1>1, <2>1, <2>2, <2>3, SetupStays DEF LoopInv
<1>6. BufInv' /\ EncInv' /\ DecInv'
  <2>1. BufInv' /\ DecInv'
    BY <1>1, BufStays, DecStays
  <2>2. EncInv'
    BY <1>1 DEF EncInv
  <2>. QED BY <2>1, <2>2
<1>7. JournalInv'
  <2>1. \A k : GroupsHeld(FrameOf(k), Warmup + k, Groups)' = GroupsHeld(FrameOf(k), Warmup + k, Groups)
    <3>1. \A k : FrameOf(k)' = FrameOf(k)
      BY <1>1, SetupStays DEF FrameOf
    <3>. QED BY <1>1, <3>1, SetupStays
  <2>2. /\ frames' = frames /\ journal' = journal /\ End' = End
    BY <1>1, SetupStays
  <2>3. /\ pass' \in {"warmup", "timed"} => frames = <<>>
        /\ pass' = "build" => Len(frames) = r' - 1
    BY <1>1, <1>2 DEF JournalInv
  <2>4. pass' \in {"rewarm", "replay"} => Len(frames) = Iters
    <3>1. CASE pass = "build"
      <4>1. PassLength = Iters /\ Len(frames) = r - 1
        BY <3>1 DEF PassLength, JournalInv
      <4>. QED BY <1>1, <1>3, <4>1
    <3>2. CASE pass # "build"
      BY <1>2, <3>2 DEF JournalInv
    <3>. QED BY <3>1, <3>2
  <2>. QED BY <2>1, <2>2, <2>3, <2>4 DEF JournalInv
<1>8. TrailInv'
  BY <1>1 DEF TrailInv, Decoding
<1>. QED BY <1>5, <1>6, <1>7, <1>8

-----------------------------------------------------------------------------
(* The encoder.                                                            *)

\* A snapshot is no longer than its buffer.
LEMMA EndFits == ASSUME Setup, workload = "snapshot" PROVE End + 4 <= BufLength /\ End \in Nat
<1>1. /\ Cap \in Nat /\ Levels \in Nat
      /\ \E s \in (1..(2 * Levels)) \X (1..Cap) : sizes = s
  BY SbeAssumption DEF Setup, BookSizes
<1>2. PICK x \in 1..(2 * Levels), y \in 1..Cap : sizes = <<x, y>>
  BY <1>1
<1>3. /\ Groups = 2 /\ Fmt.blockLength = 40
      /\ Fmt.groups[1].blockLength = 25 /\ Fmt.groups[2].blockLength = 45
      /\ ~Fmt.groups[1].varData /\ ~Fmt.groups[2].varData
  BY DEF Fmt, BookSnapshot, Groups
<1>4. Stride(1) = 25 /\ Stride(2) = 45
  BY <1>3 DEF Stride
<1>5. Span(1) = 4 + x * 25 /\ Span(2) = 4 + y * 45
  BY <1>2, <1>4 DEF Span, GroupHeaderLength
<1>6. End = 56 + x * 25 + y * 45
  BY <1>1, <1>3, <1>5 DEF End, Start, HeaderLength
<1>7. BufLength = 64 + Cap * 64 + Levels * 2 * 32
  BY DEF BufLength, BufLen
<1>. QED BY <1>1, <1>6, <1>7

\* No group and no element reaches beyond the end of the message.
LEMMA WithinEnd ==
    ASSUME Setup, NEW g \in 1..Groups, NEW i \in 0..sizes[g]
    PROVE  /\ Start(1) <= End /\ Start(g) + GroupHeaderLength <= End /\ ElemsEnd(g, i) <= End
           /\ End \in Nat
<1>1. Groups \in {1, 2} /\ \A h \in 1..Groups : sizes[h] \in Nat
  BY Formats
<1>2. ASSUME NEW h \in 1..Groups
      PROVE  /\ Start(h) + GroupHeaderLength <= Start(h + 1)
             /\ \A k \in 0..sizes[h] : ElemsEnd(h, k) <= Start(h + 1)
             /\ Start(h) \in Nat /\ Start(h + 1) \in Nat /\ \A k \in Nat : ElemsEnd(h, k) \in Nat
  <2>1. /\ ElemsEnd(h, 0) = Start(h) + GroupHeaderLength /\ ElemsEnd(h, sizes[h]) = Start(h + 1)
        /\ \A j, k \in Nat : j <= k => ElemsEnd(h, j) <= ElemsEnd(h, k)
    BY Layout
  <2>2. 0 \in Nat /\ sizes[h] \in Nat /\ 0 <= sizes[h] /\ \A k \in 0..sizes[h] : k \in Nat /\ k <= sizes[h]
    BY <1>1
  <2>3. Start(h) + GroupHeaderLength <= Start(h + 1)
    BY <2>1, <2>2
  <2>4. \A k \in 0..sizes[h] : ElemsEnd(h, k) <= Start(h + 1)
    BY <2>1, <2>2
  <2>. QED BY <2>3, <2>4, Layout
<1>3. ASSUME NEW h \in 1..Groups PROVE Start(1) <= Start(h + 1) /\ Start(h + 1) <= End /\ End \in Nat
  <2>1. CASE Groups = 1
    <3>1. h = 1 /\ End = Start(h + 1)
      BY <2>1 DEF End
    <3>. QED BY <1>2, <3>1 DEF GroupHeaderLength
  <2>2. CASE Groups = 2
    <3>1. End = Start(3) /\ h \in {1, 2} /\ 1 \in 1..Groups /\ 2 \in 1..Groups
      BY <2>2 DEF End
    <3>2. /\ Start(1) + GroupHeaderLength <= Start(2) /\ Start(1) \in Nat /\ Start(2) \in Nat
      BY <1>2, <3>1
    <3>3. Start(2) + GroupHeaderLength <= Start(3) /\ Start(3) \in Nat
      BY <1>2, <3>1
    <3>. QED BY <3>1, <3>2, <3>3 DEF GroupHeaderLength
  <2>. QED BY <1>1, <2>1, <2>2
<1>4. ElemsEnd(g, i) \in Nat /\ ElemsEnd(g, i) <= Start(g + 1) /\ Start(g + 1) <= End
      /\ Start(g + 1) \in Nat /\ Start(g) \in Nat /\ End \in Nat
      /\ Start(g) + GroupHeaderLength <= Start(g + 1) /\ Start(1) <= Start(g + 1) /\ Start(1) \in Nat
  <2>1. i \in Nat
    BY <1>1
  <2>2. Start(1) \in Nat
    BY Layout
  <2>. QED BY <1>2, <1>3, <2>1, <2>2
<1>. QED BY <1>4 DEF GroupHeaderLength

\* The bytes of a buffer, counted.
LEMMA BytesCounted == ASSUME NEW n \in Nat PROVE Cardinality(0..(n - 1)) = n
<1>1. 0 \in Int /\ n - 1 \in Int
  OBVIOUS
<1>2. Cardinality(0..(n - 1)) = IF 0 > n - 1 THEN 0 ELSE (n - 1) - 0 + 1
  BY <1>1, FS_Interval, Zenon
<1>. QED BY <1>2

\* A write that ends past the buffer panics, which no write of a snapshot does.
LEMMA WritesIs ==
    ASSUME Setup, BufInv, NEW end \in Nat, NEW b, NEW next, Writes(end, b, next),
           workload = "snapshot" => end <= BufLength
    PROVE  /\ BufLength \in Nat
           /\ \/ end <= BufLength /\ step' = next /\ buf' = b
              \/ workload # "snapshot" /\ step' = "panicked" /\ buf' = buf
<1>1. BufLength \in Nat
  BY SbeAssumption DEF BufLength, BufLen
<1>2. Cardinality(0..(BufLength - 1)) = BufLength
  BY <1>1, BytesCounted, Zenon
<1>. QED BY <1>1, <1>2 DEF Writes, BufInv

\* What a step of the encoder does not touch.
LEMMA EncoderLeaves ==
    ASSUME CodecInv, Encoding, UNCHANGED <<setup, pass, r, journal, frames, dec>>,
           step' \in {"encode block", "encode group", "encode element"}
              \/ (workload = "snapshot" /\ step' = "decode block")
              \/ (workload # "snapshot" /\ step' = "panicked")
    PROVE  LoopInv' /\ JournalInv' /\ DecInv' /\ Number' = Number /\ (step' # "decode block" => TrailInv')
<1>. USE DEF CodecInv
<1>1. JournalInv' /\ PassLength' = PassLength /\ DecInv' /\ Number' = Number
  BY JournalStays, DecStays, NumberStays
<1>2. LoopInv'
  BY <1>1, SetupStays DEF LoopInv, Encoding, Decoding
<1>3. step' # "decode block" => TrailInv'
  BY DEF TrailInv, Decoding
<1>. QED BY <1>1, <1>2, <1>3

\* the encoder,
LEMMA EncodeBlockCodec == ASSUME CodecInv, EncodeBlock PROVE CodecInv'
<1>. DEFINE b == PutFields(PutFields(buf, 0, HeaderPut, HeadOf), HeaderLength, Fmt.put, BlockOf(Number))
<1>1. /\ step = "encode block" /\ enc' = [NewCursor EXCEPT !.limit = HeaderLength + Fmt.blockLength]
      /\ Writes(enc'.limit, b, "encode group")
      /\ UNCHANGED <<setup, pass, r, journal, frames, dec>>
  BY DEF EncodeBlock, HeadOf, BlockOf
<1>. HIDE DEF b
<1>2. LoopInv /\ Setup /\ BufInv
  BY DEF CodecInv, LoopInv
<1>3. Groups \in {1, 2} /\ 1 \in 1..Groups /\ 0 \in 0..sizes[1]
  BY <1>2, Formats
<1>4. /\ enc'.limit = Start(1) /\ Start(1) \in Nat /\ enc'.group = 0
      /\ enc' = [limit |-> enc'.limit, group |-> enc'.group, index |-> enc'.index,
                 count |-> enc'.count, length |-> enc'.length, at |-> enc'.at]
  BY <1>1, <1>2, <1>3, Layout DEF NewCursor
<1>5. workload = "snapshot" => enc'.limit <= BufLength
  <2>1. Start(1) <= End
    BY <1>2, <1>3, WithinEnd
  <2>2. workload = "snapshot" => End + 4 <= BufLength /\ End \in Nat
    BY <1>2, EndFits
  <2>3. BufLength \in Nat
    BY SbeAssumption DEF BufLength, BufLen
  <2>. QED BY <1>4, <2>1, <2>2, <2>3
<1>6. /\ BufLength \in Nat
      /\ \/ enc'.limit <= BufLength /\ step' = "encode group" /\ buf' = b
         \/ workload # "snapshot" /\ step' = "panicked" /\ buf' = buf
  BY <1>1, <1>2, <1>4, <1>5, WritesIs
<1>7. LoopInv' /\ JournalInv' /\ DecInv' /\ Number' = Number /\ TrailInv'
  BY <1>1, <1>6, EncoderLeaves DEF Encoding
<1>8. CASE step' = "encode group"
  <2>1. Start(1) <= BufLength /\ buf' = b
    BY <1>4, <1>6, <1>8
  <2>2. DOMAIN b = 0..(BufLength - 1) /\ GroupsHeld(b, Number, 0)
    BY <1>2, <1>6, <2>1, HeadEncoded DEF b, BufInv
  <2>3. BufInv'
    BY <1>1, <2>1, <2>2, SetupStays DEF BufInv
  <2>4. GroupsHeld(buf, Number, 0)'
    BY <1>1, <1>7, <2>1, <2>2, SetupStays
  <2>5. (enc.group \in 0..Groups /\ enc.limit = Start(enc.group + 1))'
    <3>1. Groups' = Groups /\ Start(1)' = Start(1)
      BY <1>1, SetupStays
    <3>2. enc'.group = 0 /\ enc'.group + 1 = 1 /\ 0 \in 0..Groups
      BY <1>3, <1>4
    <3>. QED BY <1>4, <3>1, <3>2
  <2>6. EncInv'
    <3>1. GroupsHeld(buf, Number, enc.group)'
      BY <1>4, <2>4
    <3>. QED BY <1>4, <1>8, <2>5, <3>1 DEF EncInv
  <2>. QED BY <1>7, <2>3, <2>6 DEF CodecInv
<1>9. CASE step' = "panicked"
  <2>1. BufInv'
    BY <1>1, <1>2, <1>6, <1>9, BufStays
  <2>2. EncInv'
    BY <1>4, <1>9 DEF EncInv
  <2>. QED BY <1>7, <2>1, <2>2 DEF CodecInv
<1>. QED BY <1>6, <1>8, <1>9

LEMMA EncodeGroupCodec == ASSUME CodecInv, EncodeGroup PROVE CodecInv'
<1>. DEFINE g == enc.group + 1
            b == PutFields(buf, enc.limit, GroupHeader, GroupHeadOf(g))
<1>1. /\ step = "encode group" /\ enc.group < Groups
      /\ enc' = [limit |-> enc.limit + GroupHeaderLength, group |-> g, index |-> 0,
                 count |-> sizes[g], length |-> Fmt.groups[g].blockLength, at |-> -1]
      /\ Writes(enc'.limit, b, "encode element")
      /\ UNCHANGED <<setup, pass, r, journal, frames, dec>>
  BY DEF EncodeGroup, GroupHeadOf, GroupWrap, Groups
<1>. HIDE DEF b
<1>2. LoopInv /\ Setup /\ BufInv
  BY DEF CodecInv, LoopInv
<1>3. Groups \in Nat /\ \A h \in 1..Groups : sizes[h] \in Nat
  BY <1>2, Formats
<1>4. /\ g \in 1..Groups /\ g - 1 = enc.group /\ enc.limit = Start(g) /\ GroupsHeld(buf, Number, g - 1)
  <2>1. enc.group \in 0..Groups /\ enc.limit = Start(enc.group + 1) /\ GroupsHeld(buf, Number, enc.group)
    BY <1>1 DEF CodecInv, EncInv
  <2>2. enc.group < Groups
    BY <1>1
  <2>3. \A x \in 0..Groups : x < Groups => x + 1 \in 1..Groups /\ (x + 1) - 1 = x
    BY <1>3
  <2>. QED BY <2>1, <2>2, <2>3
<1>. HIDE DEF g
<1>5. /\ enc'.limit = Start(g) + GroupHeaderLength /\ enc'.limit \in Nat
      /\ ElemsEnd(g, 0) = Start(g) + GroupHeaderLength /\ 0 \in 0..sizes[g]
      /\ enc'.group = g /\ enc'.index = 0 /\ enc'.count = sizes[g]
      /\ enc'.length = Fmt.groups[g].blockLength
      /\ enc' = [limit |-> enc'.limit, group |-> enc'.group, index |-> enc'.index,
                 count |-> enc'.count, length |-> enc'.length, at |-> enc'.at]
  <2>1. Start(g) \in Nat /\ ElemsEnd(g, 0) = Start(g) + GroupHeaderLength
    BY <1>2, <1>4, Layout
  <2>2. enc' = [limit |-> Start(g) + GroupHeaderLength, group |-> g, index |-> 0,
                count |-> sizes[g], length |-> Fmt.groups[g].blockLength, at |-> -1]
    BY <1>1, <1>4
  <2>3. 0 \in 0..sizes[g]
    BY <1>3, <1>4
  <2>4. Start(g) + GroupHeaderLength \in Nat
    BY <2>1 DEF GroupHeaderLength
  <2>. QED BY <2>1, <2>2, <2>3, <2>4
<1>6. workload = "snapshot" => enc'.limit <= BufLength
  <2>1. Start(g) + GroupHeaderLength <= End /\ End \in Nat
    BY <1>2, <1>4, <1>5, WithinEnd
  <2>2. workload = "snapshot" => End + 4 <= BufLength
    BY <1>2, EndFits
  <2>3. BufLength \in Nat
    BY SbeAssumption DEF BufLength, BufLen
  <2>. QED BY <1>5, <2>1, <2>2, <2>3
<1>7. /\ BufLength \in Nat
      /\ \/ enc'.limit <= BufLength /\ step' = "encode element" /\ buf' = b
         \/ workload # "snapshot" /\ step' = "panicked" /\ buf' = buf
  BY <1>1, <1>2, <1>5, <1>6, WritesIs
<1>8. LoopInv' /\ JournalInv' /\ DecInv' /\ Number' = Number /\ TrailInv'
  BY <1>1, <1>7, EncoderLeaves DEF Encoding
<1>9. CASE step' = "encode element"
  <2>1. Start(g) + GroupHeaderLength <= BufLength /\ buf' = b
    BY <1>5, <1>7, <1>9
  <2>2. DOMAIN b = 0..(BufLength - 1) /\ ElemsHeld(b, Number, g, 0)
    <3>1. b = PutFields(buf, Start(g), GroupHeader, GroupHeadOf(g))
      BY <1>4 DEF b
    <3>. QED BY <1>2, <1>4, <1>7, <2>1, <3>1, GroupEncoded DEF BufInv
  <2>3. BufInv'
    BY <1>1, <2>1, <2>2, SetupStays DEF BufInv
  <2>5. /\ sizes' = sizes /\ Groups' = Groups /\ Fmt' = Fmt
        /\ \A h, i : ElemsEnd(h, i)' = ElemsEnd(h, i)
        /\ \A c, m, h, i : ElemsHeld(c, m, h, i)' = ElemsHeld(c, m, h, i)
    BY <1>1, SetupStays
  <2>6. ElemsHeld(buf, Number, enc.group, enc.index)'
    BY <1>5, <1>8, <2>1, <2>2, <2>5
  <2>7. (enc.limit = ElemsEnd(enc.group, enc.index))'
    BY <1>5, <2>5
  <2>8. EncInv'
    BY <1>4, <1>5, <1>9, <2>5, <2>6, <2>7 DEF EncInv
  <2>. QED BY <1>8, <2>3, <2>8 DEF CodecInv
<1>10. CASE step' = "panicked"
  <2>1. BufInv'
    BY <1>1, <1>2, <1>7, <1>10, BufStays
  <2>2. EncInv'
    BY <1>5, <1>10 DEF EncInv
  <2>. QED BY <1>8, <2>1, <2>2 DEF CodecInv
<1>. QED BY <1>7, <1>9, <1>10

LEMMA EncodeElemCodec == ASSUME CodecInv, EncodeElem PROVE CodecInv'
<1>. DEFINE g == enc.group
            i == enc.index + 1
            b == ElemPut(buf, enc.limit, Number, g, i)
<1>1. /\ step = "encode element" /\ enc.index < enc.count
      /\ g \in 1..Groups /\ enc.index \in 0..sizes[g]
      /\ enc.count = sizes[g] /\ enc.length = Fmt.groups[g].blockLength
      /\ enc.limit = ElemsEnd(g, enc.index) /\ ElemsHeld(buf, Number, g, enc.index)
      /\ enc = [limit |-> enc.limit, group |-> enc.group, index |-> enc.index,
                count |-> enc.count, length |-> enc.length, at |-> enc.at]
  BY DEF EncodeElem, CodecInv, EncInv
<1>2. LoopInv /\ Setup /\ BufInv
  BY DEF CodecInv, LoopInv
<1>3. /\ i \in 1..sizes[g] /\ sizes[g] \in Nat /\ i - 1 = enc.index /\ i \in 0..sizes[g]
      /\ enc.index \in Nat /\ i = enc.index + 1
  <2>1. sizes[g] \in Nat
    BY <1>1, <1>2, Formats
  <2>2. enc.index \in 0..sizes[g] /\ enc.index < sizes[g]
    BY <1>1
  <2>3. \A n \in Nat : \A x \in 0..n : x < n =>
           x + 1 \in 1..n /\ (x + 1) - 1 = x /\ x + 1 \in 0..n /\ x \in Nat
    OBVIOUS
  <2>. QED BY <2>1, <2>2, <2>3
<1>4. /\ ElemsEnd(g, i) = enc.limit + Stride(g) /\ ElemsEnd(g, i) \in Nat /\ enc.limit \in Nat
      /\ Fmt.groups[g].blockLength \in Nat /\ text \in Nat
  <2>1. /\ Fmt.groups[g].blockLength \in Nat /\ text \in Nat
        /\ \A k \in Nat : ElemsEnd(g, k) \in Nat /\ ElemsEnd(g, k + 1) = ElemsEnd(g, k) + Stride(g)
    BY <1>1, <1>2, Layout DEF Setup
  <2>2. ElemsEnd(g, enc.index) \in Nat /\ ElemsEnd(g, enc.index + 1) = ElemsEnd(g, enc.index) + Stride(g)
    BY <1>3, <2>1
  <2>3. ElemsEnd(g, i) \in Nat
    BY <1>3, <2>1
  <2>. QED BY <1>1, <2>1, <2>2, <2>3
<1>5. /\ Writes(enc'.limit, b, step)
      /\ UNCHANGED <<setup, pass, r, journal, frames, dec>>
  <2>. HIDE DEF g, i
  <2>1. EncodeElem
    OBVIOUS
  <2>. QED BY <1>1, <2>1 DEF EncodeElem, ElemPut, FieldsPut, TextPut, g, i
<1>6. /\ enc'.limit = ElemsEnd(g, i) /\ enc'.group = g /\ enc'.index = i /\ enc'.count = enc.count
      /\ enc'.length = enc.length
      /\ enc' = [limit |-> enc'.limit, group |-> enc'.group, index |-> enc'.index,
                 count |-> enc'.count, length |-> enc'.length, at |-> enc'.at]
  <2>1. Fmt.groups[g].varData => Len(Text(Number, g, i)) = text
    BY <1>4 DEF Text
  <2>2. /\ enc' = [enc EXCEPT !.index = i, !.at = enc.limit,
                              !.limit = IF Fmt.groups[g].varData
                                        THEN enc.limit + enc.length + VarDataLength + Len(Text(Number, g, i))
                                        ELSE enc.limit + enc.length]
    BY DEF EncodeElem
  <2>3. Stride(g) = Fmt.groups[g].blockLength + (IF Fmt.groups[g].varData THEN VarDataLength + text ELSE 0)
    BY DEF Stride
  <2>4. (IF Fmt.groups[g].varData
         THEN enc.limit + enc.length + VarDataLength + Len(Text(Number, g, i))
         ELSE enc.limit + enc.length) = ElemsEnd(g, i)
    <3>1. enc.length = Fmt.groups[g].blockLength
      BY <1>1
    <3>. HIDE DEF g, i
    <3>2. CASE Fmt.groups[g].varData
      BY <1>4, <2>1, <2>3, <3>1, <3>2 DEF VarDataLength
    <3>3. CASE ~Fmt.groups[g].varData
      BY <1>4, <2>3, <3>1, <3>3
    <3>. QED BY <3>2, <3>3
  <2>. HIDE DEF g, i
  <2>5. enc' = [enc EXCEPT !.index = i, !.at = enc.limit, !.limit = ElemsEnd(g, i)]
    BY <2>2, <2>4
  <2>. QED BY <1>1, <2>5 DEF g
<1>. HIDE DEF b, g, i
<1>7. workload = "snapshot" => enc'.limit <= BufLength
  <2>1. ElemsEnd(g, i) <= End /\ End \in Nat
    BY <1>1, <1>2, <1>3, WithinEnd
  <2>2. workload = "snapshot" => End + 4 <= BufLength
    BY <1>2, EndFits
  <2>3. BufLength \in Nat
    BY SbeAssumption DEF BufLength, BufLen
  <2>. QED BY <1>4, <1>6, <2>1, <2>2, <2>3
<1>8. /\ BufLength \in Nat
      /\ \/ enc'.limit <= BufLength /\ step' = "encode element" /\ buf' = b
         \/ workload # "snapshot" /\ step' = "panicked" /\ buf' = buf
  <2>1. enc'.limit \in Nat /\ Writes(enc'.limit, b, "encode element")
    BY <1>1, <1>4, <1>5, <1>6
  <2>. QED BY <1>2, <1>7, <2>1, WritesIs
<1>9. LoopInv' /\ JournalInv' /\ DecInv' /\ Number' = Number /\ TrailInv'
  BY <1>1, <1>5, <1>8, EncoderLeaves DEF Encoding
<1>10. CASE step' = "encode element"
  <2>1. ElemsEnd(g, i) <= BufLength /\ buf' = b
    BY <1>6, <1>8, <1>10
  <2>2. DOMAIN b = 0..(BufLength - 1) /\ ElemsHeld(b, Number, g, i)
    <3>1. b = ElemPut(buf, ElemsEnd(g, i - 1), Number, g, i) /\ ElemsHeld(buf, Number, g, i - 1)
      BY <1>1, <1>3 DEF b
    <3>2. g \in 1..Groups /\ i \in 1..sizes[g] /\ BufLength \in Nat /\ DOMAIN buf = 0..(BufLength - 1)
      BY <1>1, <1>2, <1>3, <1>8 DEF BufInv, g
    <3>. QED BY <1>2, <2>1, <3>1, <3>2, ElemEncoded
  <2>3. BufInv'
    BY <1>5, <2>1, <2>2, SetupStays DEF BufInv
  <2>5. /\ sizes' = sizes /\ Groups' = Groups /\ Fmt' = Fmt
        /\ \A h, k : ElemsEnd(h, k)' = ElemsEnd(h, k)
        /\ \A c, m, h, k : ElemsHeld(c, m, h, k)' = ElemsHeld(c, m, h, k)
    BY <1>5, SetupStays
  <2>6. ElemsHeld(buf, Number, enc.group, enc.index)'
    BY <1>6, <1>9, <2>1, <2>2, <2>5
  <2>7. (enc.limit = ElemsEnd(enc.group, enc.index))'
    BY <1>6, <2>5
  <2>8. /\ enc'.group \in 1..Groups' /\ enc'.index \in 0..sizes'[enc'.group]
        /\ enc'.count = sizes'[enc'.group] /\ enc'.length = Fmt'.groups[enc'.group].blockLength
    BY <1>1, <1>3, <1>6, <2>5
  <2>9. EncInv'
    BY <1>6, <1>10, <2>6, <2>7, <2>8 DEF EncInv
  <2>. QED BY <1>9, <2>3, <2>9 DEF CodecInv
<1>11. CASE step' = "panicked"
  <2>1. BufInv'
    BY <1>2, <1>5, <1>8, <1>11, BufStays
  <2>2. EncInv'
    BY <1>6, <1>11 DEF EncInv
  <2>. QED BY <1>9, <2>1, <2>2 DEF CodecInv
<1>. QED BY <1>8, <1>10, <1>11

LEMMA EndGroupCodec == ASSUME CodecInv, EndGroup PROVE CodecInv'
<1>1. /\ step = "encode element" /\ enc.index = enc.count /\ step' = "encode group"
      /\ UNCHANGED <<setup, pass, r, buf, enc, journal, frames, dec>>
      /\ LoopInv /\ Setup /\ BufInv
  BY DEF EndGroup, CodecInv, LoopInv
<1>2. LoopInv' /\ JournalInv' /\ DecInv' /\ Number' = Number /\ TrailInv' /\ BufInv'
  BY <1>1, EncoderLeaves, BufStays DEF Encoding
<1>3. /\ enc.group \in 1..Groups /\ enc.index = sizes[enc.group]
      /\ enc.limit = ElemsEnd(enc.group, enc.index)
      /\ ElemsHeld(buf, Number, enc.group, enc.index) /\ Groups \in Nat
      /\ enc = [limit |-> enc.limit, group |-> enc.group, index |-> enc.index,
                count |-> enc.count, length |-> enc.length, at |-> enc.at]
  BY <1>1, Formats DEF CodecInv, EncInv
<1>4. enc.limit = Start(enc.group + 1)
  BY <1>1, <1>3, Layout
<1>5. GroupsHeld(buf, Number, enc.group)
  <2>1. \A h \in 1..enc.group : h = enc.group \/ h \in 1..(enc.group - 1)
    BY <1>3
  <2>. QED BY <1>3, <2>1 DEF ElemsHeld, GroupsHeld
<1>6. GroupsHeld(buf, Number, enc.group)' /\ (enc.limit = Start(enc.group + 1))' /\ (enc.group \in 0..Groups)'
  <2>1. /\ Groups' = Groups /\ \A g : Start(g)' = Start(g)
        /\ \A b, m, g : GroupsHeld(b, m, g)' = GroupsHeld(b, m, g)
        /\ enc' = enc /\ buf' = buf
    BY <1>1, SetupStays
  <2>2. enc.group \in 0..Groups
    BY <1>3
  <2>. QED BY <1>2, <1>4, <1>5, <2>1, <2>2
<1>7. EncInv'
  BY <1>1, <1>3, <1>6 DEF EncInv
<1>. QED BY <1>2, <1>7 DEF CodecInv

\* The checksum is put behind a whole message, and covers it.
LEMMA EncodeTrailerCodec == ASSUME CodecInv, EncodeTrailer PROVE CodecInv'
<1>. DEFINE values == [crc |-> Crc(enc.limit)]
            b == PutFields(buf, enc.limit, Trailer, values)
<1>1. /\ step = "encode group" /\ enc.group = Groups /\ workload = "snapshot"
      /\ enc' = [enc EXCEPT !.limit = enc.limit + 4]
      /\ Writes(enc'.limit, b, "decode block")
      /\ UNCHANGED <<setup, pass, r, journal, frames, dec>>
  BY DEF EncodeTrailer, Groups
<1>2. /\ LoopInv /\ Setup /\ BufInv
      /\ enc.limit = Start(enc.group + 1) /\ GroupsHeld(buf, Number, enc.group)
      /\ enc = [limit |-> enc.limit, group |-> enc.group, index |-> enc.index,
                count |-> enc.count, length |-> enc.length, at |-> enc.at]
  BY <1>1 DEF CodecInv, LoopInv, EncInv
<1>3. /\ enc.limit = End /\ End \in Nat /\ End + 4 <= BufLength /\ GroupsHeld(buf, Number, Groups)
      /\ BufLength \in Nat /\ Groups \in 0..Groups /\ End = Start(Groups + 1)
  <2>1. enc.limit = End /\ GroupsHeld(buf, Number, Groups) /\ End = Start(Groups + 1)
    BY <1>1, <1>2 DEF End
  <2>2. End + 4 <= BufLength /\ End \in Nat
    BY <1>1, <1>2, EndFits
  <2>3. BufLength \in Nat /\ Groups \in 0..Groups
    BY <1>2, SbeAssumption, Formats DEF BufLength, BufLen
  <2>. QED BY <2>1, <2>2, <2>3
<1>4. /\ enc'.limit = End + 4
      /\ enc' = [limit |-> enc'.limit, group |-> enc'.group, index |-> enc'.index,
                 count |-> enc'.count, length |-> enc'.length, at |-> enc'.at]
  BY <1>1, <1>2, <1>3
<1>. HIDE DEF values, b
<1>5. step' = "decode block" /\ buf' = b
  <2>1. enc'.limit \in Nat /\ enc'.limit <= BufLength
    BY <1>3, <1>4
  <2>. QED BY <1>1, <1>2, <2>1, WritesIs
<1>6. /\ DOMAIN b = 0..(BufLength - 1) /\ Agree(buf, b, End)
      /\ FieldHeld(b, End, Trailer.crc, Crc(End))
  <2>1. b = PutFields(buf, End, Trailer, values)
    BY <1>3 DEF b
  <2>2. /\ DOMAIN b = 0..(BufLength - 1)
        /\ \A j \in 0..(BufLength - 1) : j < End \/ End + 4 <= j => b[j] = buf[j]
        /\ \A f \in DOMAIN Trailer : FieldHeld(b, End, Trailer[f], values[f])
    BY <1>2, <1>3, <2>1, HeaderTables, PutHolds DEF BufInv
  <2>3. Agree(buf, b, End)
    BY <1>3, <2>2 DEF Agree
  <2>4. "crc" \in DOMAIN Trailer /\ Trailer.crc = Trailer["crc"] /\ values["crc"] = Crc(End)
    BY <1>3 DEF Trailer, values
  <2>. QED BY <2>2, <2>3, <2>4
<1>7. GroupsHeld(b, Number, Groups)
  <2>1. Start(Groups + 1) <= End
    BY <1>3
  <2>. QED BY <1>2, <1>3, <1>6, <2>1, GroupsAgree
<1>8. LoopInv' /\ JournalInv' /\ DecInv' /\ Number' = Number
  BY <1>1, <1>5, EncoderLeaves DEF Encoding
<1>9. BufInv'
  BY <1>1, <1>5, <1>6, SetupStays DEF BufInv
<1>10. EncInv'
  BY <1>4, <1>5 DEF EncInv
<1>11. TrailInv'
  <2>1. /\ Groups' = Groups /\ End' = End
        /\ \A c, m, g : GroupsHeld(c, m, g)' = GroupsHeld(c, m, g)
    BY <1>1, SetupStays
  <2>2. Crc(End)' = Crc(End)
    <3>1. \A j \in 0..(End - 1) : b[j] = buf[j]
      BY <1>6 DEF Agree
    <3>. QED BY <1>5, <2>1, <3>1 DEF Crc
  <2>3. GroupsHeld(buf, Number, Groups)'
    BY <1>5, <1>7, <1>8, <2>1
  <2>4. FieldHeld(buf, End, Trailer.crc, Crc(End))'
    <3>1. FieldHeld(buf', End, Trailer.crc, Crc(End))
      BY <1>5, <1>6
    <3>2. FieldHeld(buf', End', Trailer.crc, Crc(End)')
      BY <2>1, <2>2, <3>1
    <3>. QED BY <3>2 DEF FieldHeld
  <2>5. (enc.limit = End + 4)'
    BY <1>4, <2>1
  <2>. QED BY <2>3, <2>4, <2>5 DEF TrailInv
<1>. QED BY <1>8, <1>9, <1>10, <1>11 DEF CodecInv

\* The frame of the message that was just encoded joins the journal.
LEMMA FrameAppended ==
    ASSUME LoopInv, JournalInv, UNCHANGED setup, pass = "build", pass' = pass, r' = r + 1,
           End \in Nat, GroupsHeld(buf, Number, Groups),
           journal' = journal \o [j \in 1..End |-> buf[j - 1]],
           frames' = Append(frames, [start |-> Len(journal), length |-> End])
    PROVE  JournalInv'
<1>. DEFINE part == [j \in 1..End |-> buf[j - 1]]
            last == [start |-> Len(journal), length |-> End]
<1>1. /\ Setup /\ r \in Nat \ {0} /\ Warmup \in Nat /\ Number = Warmup + r /\ Len(frames) = r - 1
      /\ frames \in Seq([start : Nat, length : {End}])
  BY SbeAssumption DEF LoopInv, JournalInv, Number
<1>. PICK q \in Nat \ {0} : q = r
  BY <1>1
<1>2. PICK S : journal \in Seq(S)
  BY DEF JournalInv
<1>. DEFINE T == S \cup {buf[j] : j \in 0..(End - 1)}
<1>3. /\ journal \in Seq(T) /\ part \in Seq(T) /\ Len(journal) \in Nat /\ Len(part) = End
      /\ \A j \in 1..End : part[j] = buf[j - 1]
  <2>1. journal \in Seq(T) /\ Len(journal) \in Nat
    BY <1>2
  <2>2. part \in [1..End -> T]
    <3>1. \A j \in 1..End : j - 1 \in 0..(End - 1)
      OBVIOUS
    <3>. QED BY <3>1
  <2>3. \A j \in 1..End : part[j] = buf[j - 1]
    OBVIOUS
  <2>. HIDE DEF part, T
  <2>4. part \in Seq(T) /\ Len(part) = End
    BY <2>2
  <2>. QED BY <2>1, <2>3, <2>4
<1>. HIDE DEF part, T, last
<1>4. /\ journal' \in Seq(T) /\ Len(journal') = Len(journal) + End
      /\ \A j \in 1..Len(journal) : journal'[j] = journal[j]
      /\ \A j \in 1..End : journal'[Len(journal) + j] = part[j]
  <2>1. journal' = journal \o part
    BY DEF part
  <2>2. /\ journal \o part \in Seq(T) /\ Len(journal \o part) = Len(journal) + Len(part)
        /\ \A j \in 1..(Len(journal) + Len(part)) :
              (journal \o part)[j] = IF j <= Len(journal) THEN journal[j] ELSE part[j - Len(journal)]
    BY <1>3, ConcatProperties
  <2>3. \A j \in 1..Len(journal) : j \in 1..(Len(journal) + Len(part)) /\ j <= Len(journal)
    BY <1>3
  <2>4. \A j \in 1..End : /\ Len(journal) + j \in 1..(Len(journal) + Len(part))
                          /\ ~(Len(journal) + j <= Len(journal)) /\ (Len(journal) + j) - Len(journal) = j
    BY <1>3
  <2>5. \A j \in 1..Len(journal) : (journal \o part)[j] = journal[j]
    BY <2>2, <2>3
  <2>6. \A j \in 1..End : (journal \o part)[Len(journal) + j] = part[j]
    BY <2>2, <2>4
  <2>. QED BY <1>3, <2>1, <2>2, <2>5, <2>6
<1>5. /\ frames' \in Seq([start : Nat, length : {End}]) /\ Len(frames') = q
      /\ \A k \in 1..(q - 1) : frames'[k] = frames[k]
      /\ frames'[q].start = Len(journal)
  <2>1. last \in [start : Nat, length : {End}] /\ last.start = Len(journal)
    BY <1>3 DEF last
  <2>2. frames' = Append(frames, last)
    BY DEF last
  <2>3. /\ Append(frames, last) \in Seq([start : Nat, length : {End}])
        /\ Len(Append(frames, last)) = Len(frames) + 1
        /\ \A k \in 1..Len(frames) : Append(frames, last)[k] = frames[k]
        /\ Append(frames, last)[Len(frames) + 1] = last
    BY <1>1, <2>1, AppendProperties
  <2>4. Len(frames) = q - 1 /\ (q - 1) + 1 = q
    BY <1>1
  <2>. QED BY <2>1, <2>2, <2>3, <2>4
<1>6. /\ End' = End /\ Groups' = Groups
      /\ \A c, m, g : GroupsHeld(c, m, g)' = GroupsHeld(c, m, g)
  BY SetupStays
<1>7. ASSUME NEW k \in 1..(q - 1)
      PROVE  /\ frames'[k].start + End <= Len(journal')
             /\ GroupsHeld(FrameOf(k)', Warmup + k, Groups)
  <2>1. k \in 1..Len(frames) /\ frames'[k] = frames[k]
    BY <1>1, <1>5
  <2>2. frames[k] \in [start : Nat, length : {End}]
    BY <1>1, <2>1, ElementOfSeq
  <2>3. PICK x \in Nat : x = frames[k].start
    BY <2>2
  <2>4. x + End <= Len(journal) /\ GroupsHeld(FrameOf(k), Warmup + k, Groups)
    BY <2>1, <2>3 DEF JournalInv
  <2>5. \A j \in 0..(End - 1) : x + j + 1 \in 1..Len(journal)
    BY <1>3, <2>4
  <2>6. FrameOf(k) = [j \in 0..(End - 1) |-> journal[x + j + 1]]
    BY <2>3 DEF FrameOf
  <2>7. FrameOf(k)' = [j \in 0..(End - 1) |-> journal'[x + j + 1]]
    BY <1>6, <2>1, <2>3 DEF FrameOf
  <2>8. FrameOf(k)' = FrameOf(k)
    BY <1>4, <2>5, <2>6, <2>7
  <2>9. x + End <= Len(journal')
    BY <1>3, <1>4, <2>4
  <2>. QED BY <2>1, <2>3, <2>4, <2>8, <2>9
<1>8. /\ frames'[q].start + End <= Len(journal')
      /\ GroupsHeld(FrameOf(q)', Warmup + q, Groups)
  <2>1. \A j \in 0..(End - 1) : /\ j + 1 \in 1..End /\ Len(journal) + j + 1 = Len(journal) + (j + 1)
                                /\ (j + 1) - 1 = j
    BY <1>3
  <2>2. \A j \in 0..(End - 1) : journal'[Len(journal) + j + 1] = buf[j]
    BY <1>3, <1>4, <2>1
  <2>3. FrameOf(q)' = [j \in 0..(End - 1) |-> journal'[frames'[q].start + j + 1]]
    BY <1>6 DEF FrameOf
  <2>4. Agree(buf, FrameOf(q)', End)
    BY <1>5, <2>2, <2>3 DEF Agree
  <2>5. Groups \in 0..Groups /\ Start(Groups + 1) <= End
    BY <1>1, Formats DEF End
  <2>6. GroupsHeld(FrameOf(q)', Number, Groups)
    BY <1>1, <2>4, <2>5, GroupsAgree
  <2>7. Number = Warmup + q
    BY <1>1
  <2>. QED BY <1>3, <1>4, <1>5, <2>6, <2>7
<1>9. \A k \in 1..Len(frames') : k = q \/ k \in 1..(q - 1)
  BY <1>5
<1>10. ASSUME NEW k \in 1..Len(frames')
       PROVE  frames'[k].start + End' <= Len(journal') /\ GroupsHeld(FrameOf(k), Warmup + k, Groups)'
  <2>1. GroupsHeld(FrameOf(k), Warmup + k, Groups)' = GroupsHeld(FrameOf(k)', Warmup + k, Groups)
    BY <1>6
  <2>. QED BY <1>6, <1>7, <1>8, <1>9, <2>1
<1>11. Len(frames') = r' - 1
  BY <1>1, <1>5
<1>. QED BY <1>4, <1>5, <1>6, <1>10, <1>11 DEF JournalInv

\* In the pass that builds the journal, the record becomes a frame.
LEMMA EncodeEndCodec == ASSUME CodecInv, EncodeEnd PROVE CodecInv'
<1>1. /\ step = "encode group" /\ enc.group = Groups /\ workload = "aeron_sbe"
      /\ IF pass = "build"
         THEN /\ journal' = journal \o [j \in 1..enc.limit |-> buf[j - 1]]
              /\ frames' = Append(frames, [start |-> Len(journal), length |-> enc.limit])
         ELSE UNCHANGED <<journal, frames>>
      /\ step' = "next" /\ r' = r + 1
      /\ UNCHANGED <<setup, pass, buf, enc, dec>>
  BY DEF EncodeEnd, Groups
<1>2. LoopInv /\ Setup /\ BufInv /\ JournalInv /\ DecInv
  BY DEF CodecInv, LoopInv
<1>3. BufInv' /\ DecInv'
  BY <1>1, <1>2, BufStays, DecStays
<1>4. TrailInv'
  BY <1>1, SetupStays DEF TrailInv, Decoding
<1>5. EncInv'
  BY <1>1 DEF CodecInv, EncInv
<1>6. pass \in {"warmup", "timed", "build"} /\ r <= PassLength /\ r \in Nat /\ PassLength \in Nat
  BY <1>1, <1>2, Counts DEF LoopInv, Encoding
<1>7. LoopInv'
  <2>1. PassLength' = PassLength
    BY <1>1, <1>6 DEF PassLength
  <2>2. r' \in Nat \ {0} /\ r' <= PassLength' + 1
    <3>1. PICK p \in Nat : p = PassLength
      BY <1>6
    <3>2. r + 1 \in Nat \ {0} /\ r + 1 <= p + 1
      BY <1>6, <3>1
    <3>. QED BY <1>1, <2>1, <3>1, <3>2, Zenon
  <2>3. ~Encoding' /\ ~Decoding'
    BY <1>1 DEF Encoding, Decoding
  <2>. QED BY <1>1, <1>2, <2>2, <2>3, SetupStays DEF LoopInv
<1>8. JournalInv'
  <2>1. CASE pass = "build"
    <3>1. enc.limit = Start(enc.group + 1) /\ GroupsHeld(buf, Number, enc.group)
      BY <1>1 DEF CodecInv, EncInv
    <3>2. enc.limit = End /\ GroupsHeld(buf, Number, Groups)
      BY <1>1, <3>1 DEF End
    <3>3. Groups \in 1..Groups /\ 0 \in 0..sizes[Groups] /\ sizes[Groups] \in Nat
      BY <1>2, Formats
    <3>4. End \in Nat
      BY <1>2, <3>3, WithinEnd
    <3>5. /\ journal' = journal \o [j \in 1..End |-> buf[j - 1]]
          /\ frames' = Append(frames, [start |-> Len(journal), length |-> End])
          /\ pass' = pass /\ r' = r + 1 /\ UNCHANGED setup
      BY <1>1, <2>1, <3>2
    <3>. QED BY <1>2, <2>1, <3>2, <3>4, <3>5, FrameAppended
  <2>2. CASE pass # "build"
    BY <1>1, <1>2, <2>2, JournalStays
  <2>. QED BY <2>1, <2>2
<1>. QED BY <1>3, <1>4, <1>5, <1>7, <1>8 DEF CodecInv

-----------------------------------------------------------------------------
(* The decoder.                                                            *)

\* It reads from a whole frame of the message whose turn it is.
LEMMA SourceIs ==
    ASSUME CodecInv, Decoding
    PROVE  /\ End \in Nat /\ DOMAIN Source = 0..(End - 1)
           /\ GroupsHeld(Source, Number, Groups)
<1>1. LoopInv /\ Setup /\ JournalInv /\ TrailInv
  BY DEF CodecInv, LoopInv
<1>2. Groups \in 1..Groups /\ 0 \in 0..sizes[Groups] /\ Groups \in 0..Groups
  BY <1>1, Formats
<1>3. End \in Nat
  BY <1>1, <1>2, WithinEnd
<1>4. CASE workload = "snapshot"
  <2>1. enc.limit = End + 4 /\ GroupsHeld(buf, Number, Groups)
    BY <1>1, <1>4 DEF TrailInv
  <2>2. End + 4 - 5 = End - 1
    BY <1>3
  <2>3. Source = [j \in 0..(End - 1) |-> buf[j]]
    <3>1. PICK e \in Nat : e = End
      BY <1>3
    <3>2. enc.limit = e + 4
      BY <2>1, <3>1
    <3>3. enc.limit - 5 = e - 1
      BY <3>2
    <3>4. Source = [j \in 0..(enc.limit - 5) |-> buf[j]]
      BY <1>4 DEF Source
    <3>. QED BY <3>1, <3>3, <3>4
  <2>4. Agree(buf, Source, End)
    BY <2>3 DEF Agree
  <2>5. Start(Groups + 1) <= End
    BY <1>3 DEF End
  <2>. QED BY <1>1, <1>2, <1>3, <2>1, <2>3, <2>4, <2>5, GroupsAgree
<1>5. CASE workload = "aeron_sbe"
  <2>1. pass \in {"rewarm", "replay"} /\ r \in Nat \ {0} /\ r <= PassLength
    BY <1>1, <1>5 DEF LoopInv, Decoding
  <2>2. Len(frames) = Iters /\ Len(frames) \in Nat /\ Warmup \in Nat
    BY <1>1, <2>1, Counts DEF JournalInv
  <2>3. r \in 1..Len(frames)
    BY <2>1, <2>2 DEF PassLength
  <2>4. frames[r] \in [start : Nat, length : {End}]
    BY <1>1, <2>3, ElementOfSeq DEF JournalInv
  <2>5. Source = FrameOf(r)
    BY <1>5, <2>4 DEF Source, FrameOf
  <2>6. Number = Warmup + r
    BY <2>1 DEF Number
  <2>7. GroupsHeld(FrameOf(r), Warmup + r, Groups)
    BY <1>1, <2>3 DEF JournalInv
  <2>8. DOMAIN FrameOf(r) = 0..(End - 1)
    BY DEF FrameOf
  <2>. QED BY <1>3, <2>5, <2>6, <2>7, <2>8
<1>. QED BY <1>1, <1>4, <1>5 DEF Setup

\* What a step of the decoder does not touch.
LEMMA DecoderLeaves ==
    ASSUME CodecInv, Decoding, UNCHANGED <<setup, pass, r, buf, enc, journal, frames>>,
           step' \in {"decode group", "decode element"}
    PROVE  LoopInv' /\ BufInv' /\ JournalInv' /\ EncInv' /\ TrailInv' /\ Number' = Number
<1>. USE DEF CodecInv
<1>1. JournalInv' /\ PassLength' = PassLength /\ BufInv' /\ Number' = Number
  BY JournalStays, BufStays, NumberStays
<1>2. LoopInv'
  BY <1>1, SetupStays DEF LoopInv, Encoding, Decoding
<1>3. EncInv'
  BY EncStays
<1>4. TrailInv'
  BY TrailStays
<1>. QED BY <1>1, <1>2, <1>3, <1>4

\* What was read does not change either.
LEMMA ReadStays ==
    ASSUME UNCHANGED <<setup, pass, r>>
    PROVE  /\ (\A g : GroupsRead(g)' = GroupsRead(g)) /\ \A g, i : ElemsRead(g, i)' = ElemsRead(g, i)
           /\ Message(Number)' = Message(Number)
<1>1. Number' = Number
  BY NumberStays
<1>. QED BY <1>1, SetupStays DEF GroupsRead, ElemsRead

\* Append on a function that is a sequence.
LEMMA AppendIs ==
    ASSUME NEW n \in Nat, NEW f, f = [h \in 1..n |-> f[h]], NEW x
    PROVE  Append(f, x) = [h \in 1..(n + 1) |-> IF h = n + 1 THEN x ELSE f[h]]
<1>. DEFINE S == {f[h] : h \in 1..n} \cup {x}
            s == Append(f, x)
<1>1. f \in [1..n -> S]
  OBVIOUS
<1>. HIDE DEF S
<1>2. f \in Seq(S) /\ Len(f) = n
  BY <1>1
<1>3. x \in S
  BY DEF S
<1>4. /\ s \in Seq(S) /\ Len(s) = n + 1
      /\ \A h \in 1..n : s[h] = f[h]
      /\ s[n + 1] = x
  BY <1>2, <1>3, AppendProperties
<1>. HIDE DEF s
<1>5. s = [h \in 1..(n + 1) |-> s[h]]
  BY <1>4
<1>6. \A h \in 1..(n + 1) : h = n + 1 \/ h \in 1..n
  OBVIOUS
<1>. QED BY <1>4, <1>5, <1>6 DEF s

\* Restore finds its checksum and version, and the block that was encoded.
LEMMA DecodeBlockCodec == ASSUME CodecInv, DecodeBlock PROVE CodecInv'
<1>1. /\ step = "decode block" /\ UNCHANGED <<setup, pass, r, buf, enc, journal, frames>>
      /\ Decoding /\ LoopInv /\ Setup /\ TrailInv
  BY DEF DecodeBlock, CodecInv, LoopInv, Decoding
<1>2. /\ End \in Nat /\ HeadHeld(Source, Number)
  BY <1>1, SourceIs DEF GroupsHeld
<1>3. /\ GetNum(Source, 0, HeaderGet.blockLength) = Fmt.blockLength
      /\ GetNum(Source, 0, HeaderGet.version) = Fmt.version
      /\ GetFields(Source, HeaderLength, Fmt.get) = Message(Number).block
  BY <1>1, <1>2, HeadDecoded
<1>4. ~RestoreRefuses
  <2>. SUFFICES ASSUME workload = "snapshot" PROVE GetField(buf, enc.limit - 4, Trailer.crc) = Crc(enc.limit - 4)
    BY <1>3 DEF RestoreRefuses
  <2>1. enc.limit = End + 4 /\ FieldHeld(buf, End, Trailer.crc, Crc(End))
    BY <1>1 DEF TrailInv
  <2>2. enc.limit - 4 = End
    BY <1>2, <2>1
  <2>3. Trailer.crc.at \in Nat /\ Trailer.crc.size \in Nat \ {0}
    BY DEF Trailer, F
  <2>4. GetField(buf, End, Trailer.crc) = Crc(End)
    BY <1>2, <2>1, <2>3, GetHeld
  <2>. QED BY <2>2, <2>4
<1>5. /\ step' = "decode group"
      /\ dec' = [limit |-> HeaderLength + Fmt.blockLength,
                 group |-> 0, index |-> 0, count |-> 0, length |-> 0, at |-> -1,
                 block |-> Message(Number).block, groups |-> <<>>]
  BY <1>3, <1>4 DEF DecodeBlock
<1>6. LoopInv' /\ BufInv' /\ JournalInv' /\ EncInv' /\ TrailInv' /\ Number' = Number
  BY <1>1, <1>5, DecoderLeaves
<1>7. /\ Start(1) = HeaderLength + Fmt.blockLength /\ 0 \in 0..Groups /\ Start(0 + 1) = Start(1)
  <2>1. Groups \in {1, 2}
    BY <1>1, Formats
  <2>2. 1 \in 1..Groups /\ 0 \in 0..Groups /\ 0 + 1 = 1
    BY <2>1
  <2>. QED BY <1>1, <2>2, Layout
<1>8. <<>> = GroupsRead(0)
  BY DEF GroupsRead
<1>9. DecInv'
  <2>1. /\ Groups' = Groups /\ (\A g : Start(g)' = Start(g)) /\ (\A g : GroupsRead(g)' = GroupsRead(g))
        /\ Message(Number)' = Message(Number)
    BY <1>1, SetupStays, ReadStays
  <2>2. /\ dec'.group = 0 /\ dec'.limit = Start(0 + 1) /\ dec'.block = Message(Number).block
        /\ dec'.groups = GroupsRead(0)
        /\ dec' = [limit |-> dec'.limit, group |-> dec'.group, index |-> dec'.index, count |-> dec'.count,
                   length |-> dec'.length, at |-> dec'.at, block |-> dec'.block, groups |-> dec'.groups]
    BY <1>5, <1>7, <1>8
  <2>3. (dec.group \in 0..Groups /\ dec.limit = Start(dec.group + 1))'
    BY <1>7, <2>1, <2>2
  <2>4. (dec.block = Message(Number).block /\ dec.groups = GroupsRead(dec.group))'
    BY <2>1, <2>2
  <2>. QED BY <1>5, <2>2, <2>3, <2>4 DEF DecInv
<1>. QED BY <1>6, <1>9 DEF CodecInv

\* Each group is read with the length and number that were written,
LEMMA DecodeGroupCodec == ASSUME CodecInv, DecodeGroup PROVE CodecInv'
<1>1. /\ step = "decode group" /\ step' = "decode element" /\ dec.group < Groups
      /\ UNCHANGED <<setup, pass, r, buf, enc, journal, frames>>
      /\ Decoding /\ LoopInv /\ Setup
  BY DEF DecodeGroup, CodecInv, LoopInv, Decoding, Groups
<1>2. /\ dec.group \in 0..Groups /\ dec.limit = Start(dec.group + 1)
      /\ dec.block = Message(Number).block /\ dec.groups = GroupsRead(dec.group)
      /\ dec = [limit |-> dec.limit, group |-> dec.group, index |-> dec.index, count |-> dec.count,
                length |-> dec.length, at |-> dec.at, block |-> dec.block, groups |-> dec.groups]
  BY <1>1 DEF CodecInv, DecInv
<1>3. Groups \in Nat /\ \A h \in 1..Groups : sizes[h] \in Nat
  BY <1>1, Formats
<1>4. PICK g \in 1..Groups : g = dec.group + 1 /\ g - 1 = dec.group /\ g - 1 \in Nat
  <2>1. \A x \in 0..Groups : x < Groups => x + 1 \in 1..Groups /\ (x + 1) - 1 = x /\ x \in Nat
    BY <1>3
  <2>. QED BY <1>1, <1>2, <2>1
<1>5. GroupHeld(Source, g)
  BY <1>1, <1>3, SourceIs DEF GroupsHeld
<1>6. /\ GetNum(Source, dec.limit, GroupHeader.blockLength) = Fmt.groups[g].blockLength
      /\ GetNum(Source, dec.limit, GroupHeader.numInGroup) = sizes[g]
  BY <1>1, <1>2, <1>4, <1>5, GroupDecoded
<1>7. dec' = [dec EXCEPT !.limit = dec.limit + GroupHeaderLength, !.group = dec.group + 1, !.index = 0,
                         !.length = Fmt.groups[g].blockLength, !.count = sizes[g], !.at = 0,
                         !.groups = Append(dec.groups, <<>>)]
  BY <1>6 DEF DecodeGroup
<1>8. ElemsEnd(g, 0) = dec.limit + GroupHeaderLength /\ 0 \in 0..sizes[g]
  <2>1. dec.limit = Start(g)
    BY <1>2, <1>4
  <2>2. ElemsEnd(g, 0) = Start(g) + GroupHeaderLength
    BY <1>1, Layout
  <2>3. sizes[g] \in Nat
    BY <1>3
  <2>4. 0 \in 0..sizes[g]
    BY <2>3
  <2>. QED BY <2>1, <2>2, <2>4
<1>9. Append(dec.groups, <<>>) = ElemsRead(g, 0)
  <2>1. DEFINE f == GroupsRead(g - 1)
  <2>2. f = [h \in 1..(g - 1) |-> f[h]] /\ \A h \in 1..(g - 1) : f[h] = Message(Number).groups[h]
    BY DEF GroupsRead
  <2>3. dec.groups = f
    BY <1>2, <1>4
  <2>. HIDE DEF f
  <2>4. Append(f, <<>>) = [h \in 1..((g - 1) + 1) |-> IF h = (g - 1) + 1 THEN <<>> ELSE f[h]]
    BY <1>4, <2>2, AppendIs
  <2>5. (g - 1) + 1 = g /\ \A h \in 1..g : h # g => h \in 1..(g - 1)
    BY <1>4
  <2>6. Append(f, <<>>) = [h \in 1..g |-> IF h = g THEN <<>> ELSE Message(Number).groups[h]]
    BY <2>2, <2>4, <2>5
  <2>7. [k \in 1..0 |-> Message(Number).groups[g][k]] = <<>>
    OBVIOUS
  <2>. QED BY <2>3, <2>6, <2>7 DEF ElemsRead
<1>10. LoopInv' /\ BufInv' /\ JournalInv' /\ EncInv' /\ TrailInv' /\ Number' = Number
  BY <1>1, DecoderLeaves
<1>11. DecInv'
  <2>1. /\ Groups' = Groups /\ sizes' = sizes /\ Fmt' = Fmt
        /\ (\A h, i : ElemsEnd(h, i)' = ElemsEnd(h, i)) /\ (\A h, i : ElemsRead(h, i)' = ElemsRead(h, i))
        /\ Message(Number)' = Message(Number)
    BY <1>1, SetupStays, ReadStays
  <2>2. /\ dec'.group = g /\ dec'.index = 0 /\ dec'.count = sizes[g]
        /\ dec'.length = Fmt.groups[g].blockLength /\ dec'.limit = ElemsEnd(g, 0)
        /\ dec'.block = Message(Number).block /\ dec'.groups = ElemsRead(g, 0)
        /\ dec' = [limit |-> dec'.limit, group |-> dec'.group, index |-> dec'.index, count |-> dec'.count,
                   length |-> dec'.length, at |-> dec'.at, block |-> dec'.block, groups |-> dec'.groups]
    BY <1>2, <1>4, <1>7, <1>8, <1>9
  <2>3. (/\ dec.group \in 1..Groups /\ dec.index \in 0..sizes[dec.group]
         /\ dec.count = sizes[dec.group] /\ dec.length = Fmt.groups[dec.group].blockLength
         /\ dec.limit = ElemsEnd(dec.group, dec.index))'
    BY <1>8, <2>1, <2>2
  <2>4. (dec.block = Message(Number).block /\ dec.groups = ElemsRead(dec.group, dec.index))'
    BY <2>1, <2>2
  <2>. QED BY <1>1, <2>2, <2>3, <2>4 DEF DecInv
<1>. QED BY <1>10, <1>11 DEF CodecInv

\* and each element joins those read before it.
LEMMA DecodeElemCodec == ASSUME CodecInv, DecodeElem PROVE CodecInv'
<1>. DEFINE at == dec.limit
            limit == at + dec.length
            size == IF Fmt.groups[dec.group].varData THEN GetNum(Source, limit, F(0, VarDataLength)) ELSE 0
            elem == [fields |-> GetFields(Source, at, Fmt.groups[dec.group].get),
                     text   |-> [j \in 1..size |-> Source[limit + VarDataLength + j - 1]]]
            next == IF Fmt.groups[dec.group].varData THEN limit + VarDataLength + size ELSE limit
<1>1. /\ step = "decode element" /\ step' = "decode element" /\ dec.index < dec.count
      /\ dec' = [dec EXCEPT !.index = dec.index + 1, !.at = at, !.limit = next,
                            !.groups[dec.group] = Append(@, elem)]
      /\ UNCHANGED <<setup, pass, r, buf, enc, journal, frames>>
      /\ Decoding /\ LoopInv /\ Setup
  BY DEF DecodeElem, CodecInv, LoopInv, Decoding
<1>. HIDE DEF size, elem, next
<1>2. /\ dec.group \in 1..Groups /\ dec.index \in 0..sizes[dec.group]
      /\ dec.count = sizes[dec.group] /\ dec.length = Fmt.groups[dec.group].blockLength
      /\ dec.limit = ElemsEnd(dec.group, dec.index)
      /\ dec.block = Message(Number).block /\ dec.groups = ElemsRead(dec.group, dec.index)
      /\ dec = [limit |-> dec.limit, group |-> dec.group, index |-> dec.index, count |-> dec.count,
                length |-> dec.length, at |-> dec.at, block |-> dec.block, groups |-> dec.groups]
  BY <1>1 DEF CodecInv, DecInv
<1>3. Groups \in Nat /\ \A h \in 1..Groups : sizes[h] \in Nat
  BY <1>1, Formats
<1>4. PICK g \in 1..Groups : g = dec.group
  BY <1>2
<1>5. sizes[g] \in Nat /\ dec.index \in 0..sizes[g] /\ dec.index < sizes[g]
  BY <1>1, <1>2, <1>3, <1>4
<1>6. PICK i \in 1..sizes[g] : i = dec.index + 1 /\ i - 1 = dec.index /\ i - 1 \in Nat
  <2>1. dec.index + 1 \in 1..sizes[g] /\ (dec.index + 1) - 1 = dec.index /\ dec.index \in Nat
    BY <1>5
  <2>. QED BY <2>1
<1>7. ElemHeld(Source, Number, g, i)
  <2>1. Groups \in 0..Groups
    BY <1>3
  <2>. QED BY <1>1, SourceIs DEF GroupsHeld
<1>8. /\ elem = Message(Number).groups[g][i]
      /\ next = ElemsEnd(g, i)
  <2>1. at = ElemsEnd(g, i - 1) /\ dec.length = Fmt.groups[g].blockLength /\ dec.group = g
    BY <1>2, <1>4, <1>6
  <2>2. /\ limit = ElemsEnd(g, i - 1) + Fmt.groups[g].blockLength
        /\ size = IF Fmt.groups[g].varData
                  THEN GetNum(Source, ElemsEnd(g, i - 1) + Fmt.groups[g].blockLength, F(0, VarDataLength)) ELSE 0
    BY <2>1 DEF size
  <2>3. elem = [fields |-> GetFields(Source, ElemsEnd(g, i - 1), Fmt.groups[g].get),
                text   |-> [j \in 1..size |-> Source[limit + VarDataLength + j - 1]]]
    BY <2>1 DEF elem
  <2>4. next = IF Fmt.groups[g].varData THEN limit + VarDataLength + size ELSE limit
    BY <2>1 DEF next
  <2>. HIDE DEF at, limit
  <2>5. LET a == ElemsEnd(g, i - 1)
            l == a + Fmt.groups[g].blockLength
            z == IF Fmt.groups[g].varData THEN GetNum(Source, l, F(0, VarDataLength)) ELSE 0
        IN  /\ [fields |-> GetFields(Source, a, Fmt.groups[g].get),
                text   |-> [j \in 1..z |-> Source[l + VarDataLength + j - 1]]]
               = Message(Number).groups[g][i]
            /\ ElemsEnd(g, i) = IF Fmt.groups[g].varData THEN l + VarDataLength + z ELSE l
    BY <1>1, <1>7, ElemDecoded
  <2>. QED BY <2>2, <2>3, <2>4, <2>5, Zenon
<1>. DEFINE old == ElemsRead(g, i - 1)
            part == [k \in 1..(i - 1) |-> Message(Number).groups[g][k]]
<1>9. dec.groups = old
  BY <1>2, <1>4, <1>6
<1>10. /\ old[g] = part /\ DOMAIN old = 1..g
       /\ \A h \in 1..g : h # g => old[h] = Message(Number).groups[h]
  BY <1>4, <1>3 DEF ElemsRead
<1>11. Append(part, elem) = [k \in 1..i |-> Message(Number).groups[g][k]]
  <2>1. part = [k \in 1..(i - 1) |-> part[k]] /\ \A k \in 1..(i - 1) : part[k] = Message(Number).groups[g][k]
    OBVIOUS
  <2>. HIDE DEF part
  <2>2. Append(part, elem) = [k \in 1..((i - 1) + 1) |-> IF k = (i - 1) + 1 THEN elem ELSE part[k]]
    BY <1>6, <2>1, AppendIs
  <2>3. (i - 1) + 1 = i /\ \A k \in 1..i : k # i => k \in 1..(i - 1)
    BY <1>5
  <2>. QED BY <1>8, <2>1, <2>2, <2>3
<1>12. [old EXCEPT ![g] = Append(part, elem)] = ElemsRead(g, i)
  <2>1. [old EXCEPT ![g] = Append(part, elem)]
          = [h \in 1..g |-> IF h = g THEN Append(part, elem) ELSE old[h]]
    BY <1>10
  <2>. HIDE DEF old, part
  <2>. QED BY <1>10, <1>11, <2>1 DEF ElemsRead
<1>. HIDE DEF old, part
<1>13. /\ dec'.group = g /\ dec'.index = i /\ dec'.count = sizes[g]
       /\ dec'.length = Fmt.groups[g].blockLength /\ dec'.limit = ElemsEnd(g, i)
       /\ dec'.block = Message(Number).block /\ dec'.groups = ElemsRead(g, i)
       /\ dec' = [limit |-> dec'.limit, group |-> dec'.group, index |-> dec'.index, count |-> dec'.count,
                  length |-> dec'.length, at |-> dec'.at, block |-> dec'.block, groups |-> dec'.groups]
  <2>1. dec' = [limit |-> next, group |-> dec.group, index |-> dec.index + 1, count |-> dec.count,
                length |-> dec.length, at |-> at, block |-> dec.block,
                groups |-> [dec.groups EXCEPT ![dec.group] = Append(@, elem)]]
    BY <1>1, <1>2
  <2>2. [dec.groups EXCEPT ![dec.group] = Append(@, elem)] = ElemsRead(g, i)
    <3>1. [dec.groups EXCEPT ![dec.group] = Append(@, elem)] = [old EXCEPT ![g] = Append(old[g], elem)]
      BY <1>4, <1>9
    <3>. QED BY <1>10, <1>12, <3>1
  <2>. QED BY <1>2, <1>4, <1>6, <1>8, <2>1, <2>2
<1>14. LoopInv' /\ BufInv' /\ JournalInv' /\ EncInv' /\ TrailInv' /\ Number' = Number
  BY <1>1, DecoderLeaves
<1>15. DecInv'
  <2>1. /\ Groups' = Groups /\ sizes' = sizes /\ Fmt' = Fmt
        /\ (\A h, k : ElemsEnd(h, k)' = ElemsEnd(h, k)) /\ (\A h, k : ElemsRead(h, k)' = ElemsRead(h, k))
        /\ Message(Number)' = Message(Number)
    BY <1>1, SetupStays, ReadStays
  <2>2. i \in 0..sizes[g]
    BY <1>5
  <2>3. (/\ dec.group \in 1..Groups /\ dec.index \in 0..sizes[dec.group]
         /\ dec.count = sizes[dec.group] /\ dec.length = Fmt.groups[dec.group].blockLength
         /\ dec.limit = ElemsEnd(dec.group, dec.index))'
    BY <1>13, <2>1, <2>2
  <2>4. (dec.block = Message(Number).block /\ dec.groups = ElemsRead(dec.group, dec.index))'
    BY <1>13, <2>1
  <2>. QED BY <1>1, <1>13, <2>3, <2>4 DEF DecInv
<1>. QED BY <1>14, <1>15 DEF CodecInv

\* The groups of a message are sequences of their sizes.
LEMMA MessageIs ==
    ASSUME Setup, NEW m
    PROVE  /\ Message(m) = [block |-> Message(m).block, groups |-> Message(m).groups]
           /\ Message(m).groups = [h \in 1..Groups |-> Message(m).groups[h]]
           /\ \A h \in 1..Groups : Message(m).groups[h] = [k \in 1..sizes[h] |-> Message(m).groups[h][k]]
<1>1. DOMAIN Fmt.groups = 1..Groups
  <2>1. Fmt.groups = BookSnapshot.groups \/ Fmt.groups = JournalRecord.groups
    BY DEF Fmt
  <2>2. DOMAIN BookSnapshot.groups = 1..Len(BookSnapshot.groups)
    BY DEF BookSnapshot
  <2>3. DOMAIN JournalRecord.groups = 1..Len(JournalRecord.groups)
    BY DEF JournalRecord
  <2>. QED BY <2>1, <2>2, <2>3 DEF Groups
<1>. QED BY <1>1 DEF Message

\* With its last element a group is read whole.
LEMMA EndDecodeGroupCodec == ASSUME CodecInv, EndDecodeGroup PROVE CodecInv'
<1>1. /\ step = "decode element" /\ step' = "decode group" /\ dec.index = dec.count
      /\ UNCHANGED <<setup, pass, r, buf, enc, journal, frames, dec>>
      /\ Decoding /\ LoopInv /\ Setup
  BY DEF EndDecodeGroup, CodecInv, LoopInv, Decoding
<1>2. /\ dec.group \in 1..Groups /\ dec.count = sizes[dec.group]
      /\ dec.limit = ElemsEnd(dec.group, dec.index)
      /\ dec.block = Message(Number).block /\ dec.groups = ElemsRead(dec.group, dec.index)
      /\ dec = [limit |-> dec.limit, group |-> dec.group, index |-> dec.index, count |-> dec.count,
                length |-> dec.length, at |-> dec.at, block |-> dec.block, groups |-> dec.groups]
  BY <1>1 DEF CodecInv, DecInv
<1>3. PICK g \in 1..Groups : g = dec.group
  BY <1>2
<1>4. Groups \in Nat /\ g \in 0..Groups
  <2>1. Groups \in Nat
    BY <1>1, Formats
  <2>. QED BY <2>1
<1>5. dec.limit = Start(g + 1)
  <2>1. dec.limit = ElemsEnd(g, sizes[g])
    BY <1>1, <1>2, <1>3
  <2>. QED BY <1>1, <2>1, Layout
<1>6. dec.groups = GroupsRead(g)
  <2>1. dec.groups = ElemsRead(g, sizes[g])
    BY <1>1, <1>2, <1>3
  <2>2. Message(Number).groups[g] = [k \in 1..sizes[g] |-> Message(Number).groups[g][k]]
    BY <1>1, MessageIs
  <2>. QED BY <2>1, <2>2 DEF ElemsRead, GroupsRead
<1>7. LoopInv' /\ BufInv' /\ JournalInv' /\ EncInv' /\ TrailInv' /\ Number' = Number
  BY <1>1, DecoderLeaves
<1>8. DecInv'
  <2>1. /\ Groups' = Groups /\ (\A h : Start(h)' = Start(h)) /\ (\A h : GroupsRead(h)' = GroupsRead(h))
        /\ Message(Number)' = Message(Number) /\ dec' = dec
    BY <1>1, SetupStays, ReadStays
  <2>2. (dec.group \in 0..Groups /\ dec.limit = Start(dec.group + 1))'
    BY <1>3, <1>4, <1>5, <2>1
  <2>3. (dec.block = Message(Number).block /\ dec.groups = GroupsRead(dec.group))'
    BY <1>2, <1>3, <1>6, <2>1
  <2>. QED BY <1>1, <1>2, <2>1, <2>2, <2>3 DEF DecInv
<1>. QED BY <1>7, <1>8 DEF CodecInv

\* The next message may reuse the buffer.
LEMMA DecodeEndCodec == ASSUME CodecInv, DecodeEnd PROVE CodecInv'
<1>1. /\ step = "decode group" /\ step' = "next" /\ r' = r + 1
      /\ UNCHANGED <<setup, pass, buf, enc, journal, frames, dec>> /\ Decoding
  BY DEF DecodeEnd, Decoding
<1>2. LoopInv /\ Setup /\ BufInv /\ JournalInv /\ DecInv
  BY DEF CodecInv, LoopInv
<1>3. pass # "build" /\ pass # "done" /\ r \in Nat /\ r <= PassLength /\ PassLength \in Nat
  BY <1>1, <1>2, Counts DEF LoopInv, Setup
<1>4. JournalInv' /\ PassLength' = PassLength
  BY <1>1, <1>2, <1>3, JournalStays
<1>5. BufInv' /\ DecInv'
  BY <1>1, <1>2, BufStays, DecStays
<1>6. TrailInv'
  BY <1>1, SetupStays DEF TrailInv, Decoding
<1>7. EncInv'
  BY <1>1 DEF CodecInv, EncInv
<1>8. LoopInv'
  <2>1. r' \in Nat \ {0} /\ r' <= PassLength' + 1
    <3>1. PICK p \in Nat : p = PassLength
      BY <1>3
    <3>2. r + 1 \in Nat \ {0} /\ r + 1 <= p + 1
      BY <1>3, <3>1
    <3>. QED BY <1>1, <1>4, <3>1, <3>2, Zenon
  <2>2. ~Encoding' /\ ~Decoding'
    BY <1>1 DEF Encoding, Decoding
  <2>. QED BY <1>1, <1>2, <2>1, <2>2, SetupStays DEF LoopInv
<1>. QED BY <1>4, <1>5, <1>6, <1>7, <1>8 DEF CodecInv

\* A stopped program keeps the invariant, and so does every step.
LEMMA StandsCodec == ASSUME CodecInv, UNCHANGED codecVars PROVE CodecInv'
<1>1. /\ CodecInv
      /\ UNCHANGED <<setup, pass, r, buf, enc, journal, frames, dec>> /\ step' = step
  BY DEF codecVars, setup
<1>2. JournalInv' /\ PassLength' = PassLength /\ BufInv' /\ EncInv' /\ DecInv'
  BY <1>1, JournalStays, BufStays, EncStays, DecStays DEF CodecInv
<1>3. TrailInv'
  BY <1>1, TrailStays DEF CodecInv, Decoding
<1>4. LoopInv'
  BY <1>1, <1>2, SetupStays DEF CodecInv, LoopInv, Encoding, Decoding
<1>. QED BY <1>2, <1>3, <1>4 DEF CodecInv

LEMMA NextCodec == CodecInv /\ [CodecNext]_codecVars => CodecInv'
<1>. SUFFICES ASSUME CodecInv, [CodecNext]_codecVars PROVE CodecInv'
  OBVIOUS
<1>1. CASE NextMessage
  BY <1>1, NextMessageCodec
<1>2. CASE NextPass
  BY <1>2, NextPassCodec
<1>3. CASE EncodeBlock
  BY <1>3, EncodeBlockCodec
<1>4. CASE EncodeGroup
  BY <1>4, EncodeGroupCodec
<1>5. CASE EncodeElem
  BY <1>5, EncodeElemCodec
<1>6. CASE EndGroup
  BY <1>6, EndGroupCodec
<1>7. CASE EncodeTrailer
  BY <1>7, EncodeTrailerCodec
<1>8. CASE EncodeEnd
  BY <1>8, EncodeEndCodec
<1>9. CASE DecodeBlock
  BY <1>9, DecodeBlockCodec
<1>10. CASE DecodeGroup
  BY <1>10, DecodeGroupCodec
<1>11. CASE DecodeElem
  BY <1>11, DecodeElemCodec
<1>12. CASE EndDecodeGroup
  BY <1>12, EndDecodeGroupCodec
<1>13. CASE DecodeEnd
  BY <1>13, DecodeEndCodec
<1>14. CASE UNCHANGED codecVars \/ Stopped
  BY <1>14, StandsCodec DEF Stopped
<1>. QED
  BY <1>1, <1>2, <1>3, <1>4, <1>5, <1>6, <1>7, <1>8, <1>9, <1>10, <1>11, <1>12, <1>13, <1>14 DEF CodecNext

\* In every state, what the encoder has put behind it is in the buffer, every
\* frame of the journal holds its message, and what the decoder has behind it
\* is what was encoded.
THEOREM SpecCodec == CodecSpec => []CodecInv
BY InitCodec, NextCodec, PTL DEF CodecSpec

\* The decoder reads what was encoded: when it is through with a frame it has
\* every field of every element of that frame's message and has read to its end.
THEOREM SpecDecoded == CodecSpec => []DecodedIsEncoded
<1>1. CodecInv => DecodedIsEncoded
  <2>. SUFFICES ASSUME CodecInv, step = "decode group", dec.group = Groups
                PROVE  /\ [block |-> dec.block, groups |-> dec.groups] = Message(Number)
                       /\ dec.limit = Cardinality(DOMAIN Source)
    BY DEF DecodedIsEncoded, Groups
  <2>1. Setup /\ Decoding
    BY DEF CodecInv, LoopInv, Decoding
  <2>2. /\ dec.limit = Start(Groups + 1) /\ dec.block = Message(Number).block
        /\ dec.groups = GroupsRead(Groups)
    BY DEF CodecInv, DecInv
  <2>3. dec.groups = Message(Number).groups
    BY <2>1, <2>2, MessageIs DEF GroupsRead
  <2>4. [block |-> dec.block, groups |-> dec.groups] = Message(Number)
    BY <2>1, <2>2, <2>3, MessageIs
  <2>5. dec.limit = End
    BY <2>2 DEF End
  <2>6. End \in Nat /\ DOMAIN Source = 0..(End - 1)
    BY <2>1, SourceIs
  <2>7. Cardinality(0..(End - 1)) = End
    BY <2>6, BytesCounted, Zenon
  <2>. QED BY <2>4, <2>5, <2>6, <2>7, Zenon
<1>. QED BY <1>1, SpecCodec, PTL

\* BUF_LEN bytes hold the image of every book with its checksum, and restore
\* refuses none of them: the snapshot program never panics.
THEOREM SpecFits == CodecSpec => []SnapshotFits
<1>1. CodecInv => SnapshotFits
  BY DEF CodecInv, LoopInv, SnapshotFits
<1>. QED BY <1>1, SpecCodec, PTL

-----------------------------------------------------------------------------
(* Whole entries in bytes.                                                 *)

\* A quotient is the only number whose multiple is next below.
LEMMA Quotient ==
    ASSUME NEW m \in Nat, NEW b \in Nat \ {0}, NEW k \in Nat, k * b <= m, m < k * b + b
    PROVE  m \div b = k
<1>. DEFINE q == m \div b
<1>1. q \in Nat /\ q * b <= m /\ m < q * b + b
  OBVIOUS
<1>. HIDE DEF q
<1>2. \A x, y \in Nat : x + 1 <= y => x * b + b <= y * b
  <2>. SUFFICES ASSUME NEW x \in Nat, NEW y \in Nat, x + 1 <= y PROVE x * b + b <= y * b
    OBVIOUS
  <2>1. PICK d \in Nat : y = x + 1 + d
    <3>1. y - (x + 1) \in Nat /\ y = x + 1 + (y - (x + 1))
      OBVIOUS
    <3>. QED BY <3>1
  <2>2. y * b = x * b + b + d * b /\ d * b \in Nat /\ x * b \in Nat
    BY <2>1
  <2>. QED BY <2>2
<1>3. q * b \in Nat /\ k * b \in Nat
  BY <1>1
<1>4. ~(q + 1 <= k) /\ ~(k + 1 <= q)
  BY <1>1, <1>2, <1>3
<1>5. q = k
  BY <1>1, <1>4
<1>. QED BY <1>5 DEF q

\* Whole entries are counted exactly.
LEMMA WholeEntries == ASSUME NEW a \in Nat, NEW b \in Nat \ {0} PROVE (a * b) \div b = a
<1>1. a * b \in Nat /\ a * b <= a * b /\ a * b < a * b + b
  OBVIOUS
<1>. QED BY <1>1, Quotient

\* Rounding up covers every byte.
LEMMA RoundUpCovers ==
    ASSUME NEW p \in Nat, NEW b \in Nat \ {0}
    PROVE  ((p + b - 1) \div b) * b >= p /\ (p + b - 1) \div b \in Nat
<1>1. p + b - 1 \in Nat
  OBVIOUS
<1>2. ASSUME NEW m \in Nat PROVE m \div b \in Nat /\ m < (m \div b) * b + b
  OBVIOUS
<1>3. /\ (p + b - 1) \div b \in Nat /\ p + b - 1 < ((p + b - 1) \div b) * b + b
  BY <1>1, <1>2
<1>. QED BY <1>3

\* The sizes the configuration gives.
LEMMA Sizes ==
    TypeOK => /\ BatchSize \in 1..MaxBatch /\ BatchSize \in Nat \ {0}
              /\ cfg.warmup \in Nat \ {0} /\ cfg.iterations \in Nat \ {0}
              /\ EntryBytes \in Nat \ {0}
              /\ PreallocBytes \in Nat /\ Reserved \in Nat
              /\ pos \in Nat /\ Len(cache) \in Nat /\ Len(disk) \in Nat /\ acked \in Nat
<1>. SUFFICES ASSUME TypeOK
              PROVE  /\ BatchSize \in 1..MaxBatch /\ BatchSize \in Nat \ {0}
                     /\ cfg.warmup \in Nat \ {0} /\ cfg.iterations \in Nat \ {0}
                     /\ EntryBytes \in Nat \ {0}
                     /\ PreallocBytes \in Nat /\ Reserved \in Nat
                     /\ pos \in Nat /\ Len(cache) \in Nat /\ Len(disk) \in Nat /\ acked \in Nat
  OBVIOUS
<1>1. /\ cfg.warmup \in 1..MaxWarmup /\ cfg.iterations \in 1..MaxIterations /\ cfg.batch \in 1..MaxBatch
      /\ MaxWarmup \in Nat \ {0} /\ MaxIterations \in Nat \ {0} /\ MaxBatch \in Nat \ {0}
      /\ EntryBytes \in Nat \ {0}
  BY FsAssumption DEF TypeOK
<1>2. BatchSize \in 1..MaxBatch
  BY <1>1 DEF BatchSize
<1>3. (cfg.warmup + cfg.iterations) * EntryBytes \in Nat
  BY <1>1
<1>4. Len(cache) \in Nat /\ Len(disk) \in Nat
  BY DEF TypeOK
<1>5. pos \in Nat /\ acked \in Nat
  BY <1>1, <1>4 DEF TypeOK
<1>. QED BY <1>1, <1>2, <1>3, <1>4, <1>5, SMTT(30) DEF PreallocBytes, Reserved

\* write_all changes the bytes it covers and no others.
LEMMA Written ==
    ASSUME TypeOK, NEW b \in {Zero, Entry}, NEW n \in Nat, WriteAll(b, n)
    PROVE  /\ cache' \in Seq({Zero, Entry})
           /\ Len(cache') = (IF pos + n > Len(cache) THEN pos + n ELSE Len(cache))
           /\ \A i \in 1..Len(cache') : cache'[i] = IF i \in (pos + 1)..(pos + n) THEN b ELSE cache[i]
           /\ pos' = pos + n /\ pos' \in 0..Len(cache')
           /\ dirty' = dirty \cup (pos + 1)..(pos + n)
           /\ dirty' \subseteq 1..Len(cache')
<1>. DEFINE size == IF pos + n > Len(cache) THEN pos + n ELSE Len(cache)
<1>0. pos \in Nat /\ Len(cache) \in Nat /\ pos <= Len(cache) /\ size \in Nat /\ pos + n <= size
      /\ Len(cache) <= size
  BY DEF TypeOK
<1>1. /\ cache' = [i \in 1..size |-> IF i \in (pos + 1)..(pos + n) THEN b ELSE cache[i]]
      /\ dirty' = dirty \cup (pos + 1)..(pos + n) /\ pos' = pos + n
  BY DEF WriteAll
<1>2. \A i \in 1..size : i \in (pos + 1)..(pos + n) \/ i \in 1..Len(cache)
  BY <1>0
<1>3. \A i \in 1..Len(cache) : cache[i] \in {Zero, Entry}
  BY DEF TypeOK
<1>4. \A i \in 1..size : (IF i \in (pos + 1)..(pos + n) THEN b ELSE cache[i]) \in {Zero, Entry}
  BY <1>2, <1>3
<1>. HIDE DEF size
<1>5. cache' \in [1..size -> {Zero, Entry}]
  BY <1>1, <1>4
<1>6. cache' \in Seq({Zero, Entry}) /\ Len(cache') = size
  BY <1>0, <1>5, IsASeq, LenProperties
<1>7. \A i \in 1..size : cache'[i] = IF i \in (pos + 1)..(pos + n) THEN b ELSE cache[i]
  BY <1>1
<1>8. dirty' \subseteq 1..size
  <2>1. dirty \subseteq 1..Len(cache)
    BY DEF TypeOK
  <2>2. \A i : i \in 1..Len(cache) \/ i \in (pos + 1)..(pos + n) => i \in 1..size
    BY <1>0
  <2>. QED BY <1>1, <2>1, <2>2
<1>. QED BY <1>0, <1>1, <1>6, <1>7, <1>8 DEF size

\* Bytes of entries join the log behind the ones before them.
LEMMA LogGrows ==
    ASSUME TypeOK, NEW n \in Nat, WriteAll(Entry, n), UNCHANGED <<program, cfg>>,
           HoldsEntries(cache, pos),
           NEW a \in Nat, a <= pos, dirty = (a + 1)..pos
    PROVE  HoldsEntries(cache, pos)' /\ dirty' = (a + 1)..pos' /\ a <= pos'
<1>0. Reserved \in Nat /\ Reserved' = Reserved /\ pos \in Nat /\ Len(cache) \in Nat
  BY Sizes DEF Reserved, Prealloc, PreallocBytes
<1>1. /\ Len(cache') = (IF pos + n > Len(cache) THEN pos + n ELSE Len(cache))
      /\ \A i \in 1..Len(cache') : cache'[i] = IF i \in (pos + 1)..(pos + n) THEN Entry ELSE cache[i]
      /\ pos' = pos + n /\ dirty' = dirty \cup (pos + 1)..(pos + n)
  BY Written
<1>2. /\ Len(cache) = IF pos > Reserved THEN pos ELSE Reserved
      /\ \A i \in 1..Len(cache) : cache[i] = IF i <= pos THEN Entry ELSE Zero
  BY DEF HoldsEntries
<1>3. Len(cache') = IF pos + n > Reserved THEN pos + n ELSE Reserved
  BY <1>0, <1>1, <1>2
<1>4. ASSUME NEW i \in 1..Len(cache')
      PROVE  cache'[i] = IF i <= pos + n THEN Entry ELSE Zero
  <2>1. i \in Nat /\ (i \in (pos + 1)..(pos + n) \/ i \in 1..Len(cache))
    BY <1>0, <1>1, <1>2, <1>3
  <2>. QED BY <1>0, <1>1, <1>2, <2>1
<1>5. (a + 1)..pos \cup (pos + 1)..(pos + n) = (a + 1)..(pos + n)
  BY <1>0
<1>6. HoldsEntries(cache, pos)'
  BY <1>0, <1>1, <1>3, <1>4 DEF HoldsEntries
<1>. QED BY <1>0, <1>1, <1>5, <1>6

-----------------------------------------------------------------------------
(* The invariant is inductive.                                             *)

\* The program and its configuration do not change, so neither do the sizes.
LEMMA SizesStay ==
    UNCHANGED <<program, cfg>> =>
        /\ Prealloc' = Prealloc /\ BatchSize' = BatchSize /\ PreallocBytes' = PreallocBytes
        /\ Reserved' = Reserved
BY DEF Prealloc, BatchSize, PreallocBytes, Reserved

\* Before the run, with or without an earlier log.
LEMMA InitInv == Init => Inv
<1>. SUFFICES ASSUME Init PROVE Inv
  OBVIOUS
<1>1. TypeOK
  <2>1. /\ program \in Programs /\ pc \in Labels /\ exists \in {"no", "cached", "durable"}
        /\ cfg \in [warmup : 1..MaxWarmup, iterations : 1..MaxIterations, batch : 1..MaxBatch]
    BY DEF Init, Labels
  <2>2. disk \in Seq({Zero, Entry})
    <3>1. ASSUME NEW n \in Nat PROVE Repeat(Entry, n) \in Seq({Zero, Entry})
      BY IsASeq DEF Repeat
    <3>2. 2 * EntryBytes \in Nat
      BY FsAssumption
    <3>3. Repeat(Entry, 2 * EntryBytes) \in Seq({Zero, Entry})
      BY <3>1, <3>2, Zenon
    <3>4. <<>> \in Seq({Zero, Entry})
      OBVIOUS
    <3>. QED BY <3>3, <3>4 DEF Init
  <2>3. Len(disk) \in Nat /\ cfg.warmup + cfg.iterations \in Nat /\ MaxBatch \in Nat
    BY <2>1, <2>2, FsAssumption
  <2>. QED BY <2>1, <2>2, <2>3 DEF Init, TypeOK
<1>2. SetUp /\ LogFollows /\ InPhase
  BY DEF Init, SetUp, LogFollows, InPhase
<1>3. SamplesSoFar
  BY DEF Init, SamplesSoFar
<1>4. CrashKeepsAcked
  BY DEF Init, CrashKeepsAcked
<1>. QED BY <1>1, <1>2, <1>3, <1>4 DEF Inv

\* The earlier log is truncated.
LEMMA OpenTruncateInv == ASSUME Inv, OpenTruncate PROVE Inv'
<1>0. /\ pc = "open" /\ pc' = "sync_file" /\ cache' = <<>>
      /\ exists' = IF exists = "no" THEN "cached" ELSE exists
      /\ UNCHANGED <<program, cfg, disk, dirty, pos, remaining, count, samples, acked, report, image>>
  BY DEF OpenTruncate
<1>1. acked = 0 /\ samples = <<>> /\ dirty = {} /\ pos = 0
  BY <1>0 DEF Inv, SetUp
<1>2. TypeOK'
  <2>1. cache' \in Seq({Zero, Entry}) /\ Len(cache') = 0
    BY <1>0
  <2>2. pos' \in 0..Len(cache')
    BY <1>0, <1>1, <2>1
  <2>. QED BY <1>0, <1>1, <2>1, <2>2 DEF Inv, TypeOK, Labels
<1>3. SetUp' /\ LogFollows' /\ InPhase'
  BY <1>0, <1>1 DEF SetUp, LogFollows, InPhase
<1>4. SamplesSoFar' /\ CrashKeepsAcked'
  BY <1>0, <1>1 DEF SamplesSoFar, CrashKeepsAcked
<1>. QED BY <1>2, <1>3, <1>4 DEF Inv

\* The empty file reaches the disk.
LEMMA SyncFileInv == ASSUME Inv, SyncFile PROVE Inv'
<1>0. /\ pc = "sync_file" /\ pc' = "sync_dir" /\ disk' = cache /\ dirty' = {}
      /\ UNCHANGED <<program, cfg, exists, cache, pos, remaining, count, samples, acked, report, image>>
  BY DEF SyncFile, Synced
<1>1. acked = 0 /\ samples = <<>> /\ dirty = {} /\ pos = 0 /\ cache = <<>>
  BY <1>0 DEF Inv, SetUp
<1>2. TypeOK'
  BY <1>0 DEF Inv, TypeOK, Labels
<1>3. SetUp' /\ LogFollows' /\ InPhase'
  BY <1>0, <1>1 DEF SetUp, LogFollows, InPhase
<1>4. SamplesSoFar' /\ CrashKeepsAcked'
  BY <1>0, <1>1 DEF SamplesSoFar, CrashKeepsAcked
<1>. QED BY <1>2, <1>3, <1>4 DEF Inv

\* Its name does, and the zeros or the entries begin.
LEMMA SyncDirInv == ASSUME Inv, SyncDir PROVE Inv'
<1>0. /\ pc = "sync_dir" /\ exists' = "durable"
      /\ Prealloc => pc' = "zeros" /\ remaining' = PreallocBytes
      /\ ~Prealloc => pc' = "warmup" /\ remaining' = cfg.warmup
      /\ UNCHANGED <<program, cfg, cache, disk, dirty, pos, count, samples, acked, report, image>>
  BY DEF SyncDir
<1>1. acked = 0 /\ samples = <<>> /\ dirty = {} /\ pos = 0 /\ cache = <<>> /\ disk = <<>>
  BY <1>0 DEF Inv, SetUp
<1>2. /\ PreallocBytes \in Nat /\ cfg.warmup \in Nat /\ EntryBytes \in Nat /\ Len(cache) = 0
      /\ 1..0 = {} /\ 0 * EntryBytes = 0 /\ Reserved \in Nat
  BY <1>1, Sizes DEF Inv
<1>3. Prealloc' = Prealloc /\ PreallocBytes' = PreallocBytes /\ Reserved' = Reserved
  BY <1>0, SizesStay
<1>4. TypeOK'
  BY <1>0, <1>2 DEF Inv, TypeOK, Labels
<1>5. SetUp'
  BY <1>0, <1>1, <1>2, <1>3 DEF SetUp
<1>6. LogFollows'
  <2>1. CASE Prealloc
    BY <1>0, <1>1, <2>1 DEF LogFollows
  <2>2. CASE ~Prealloc
    <3>1. Reserved = 0 /\ Reserved' = 0
      BY <1>3, <2>2 DEF Reserved
    <3>2. HoldsEntries(cache, pos)' /\ HoldsEntries(disk, acked * EntryBytes)'
      BY <1>0, <1>1, <1>2, <3>1 DEF HoldsEntries
    <3>3. dirty' = (acked' * EntryBytes + 1)..pos' /\ acked' * EntryBytes <= pos'
      BY <1>0, <1>1, <1>2
    <3>. QED BY <1>0, <3>2, <3>3 DEF LogFollows
  <2>. QED BY <2>1, <2>2
<1>7. InPhase'
  BY <1>0, <1>1, <1>2 DEF InPhase
<1>8. SamplesSoFar' /\ CrashKeepsAcked'
  BY <1>0, <1>1 DEF SamplesSoFar, CrashKeepsAcked
<1>. QED BY <1>4, <1>5, <1>6, <1>7, <1>8 DEF Inv

\* A chunk of zeros.
LEMMA WriteZerosInv == ASSUME Inv, WriteZeros PROVE Inv'
<1>. DEFINE n == Least(remaining, ZeroChunk)
<1>0. /\ pc = "zeros" /\ pc' = "zeros" /\ remaining > 0 /\ WriteAll(Zero, n) /\ remaining' = remaining - n
      /\ UNCHANGED <<program, cfg, exists, disk, count, samples, acked, report, image>>
  BY DEF WriteZeros
<1>1. /\ acked = 0 /\ samples = <<>> /\ disk = <<>> /\ Prealloc /\ exists = "durable" /\ dirty = 1..pos
      /\ Len(cache) = pos /\ pos + remaining = PreallocBytes /\ \A i \in 1..Len(cache) : cache[i] = Zero
  BY <1>0 DEF Inv, SetUp
<1>2. n \in Nat /\ n <= remaining /\ remaining \in Nat /\ pos \in Nat
  <2>1. remaining \in Nat /\ ZeroChunk \in Nat
    BY FsAssumption DEF Inv, TypeOK
  <2>. QED BY <2>1, Sizes DEF Inv, Least
<1>. HIDE DEF n
<1>3. /\ cache' \in Seq({Zero, Entry}) /\ Len(cache') = pos + n
      /\ \A i \in 1..Len(cache') : cache'[i] = IF i \in (pos + 1)..(pos + n) THEN Zero ELSE cache[i]
      /\ pos' = pos + n /\ pos' \in 0..Len(cache')
      /\ dirty' = dirty \cup (pos + 1)..(pos + n) /\ dirty' \subseteq 1..Len(cache')
  <2>1. TypeOK
    BY DEF Inv
  <2>. QED BY <1>0, <1>1, <1>2, <2>1, Written
<1>4. \A i \in 1..Len(cache') : cache'[i] = Zero
  <2>1. ASSUME NEW i \in 1..Len(cache') PROVE i \in (pos + 1)..(pos + n) \/ i \in 1..Len(cache)
    BY <1>1, <1>2, <1>3
  <2>. QED BY <1>1, <1>3, <2>1
<1>5. dirty' = 1..pos'
  <2>1. 1..pos \cup (pos + 1)..(pos + n) = 1..(pos + n)
    BY <1>2
  <2>. QED BY <1>1, <1>3, <2>1
<1>6. TypeOK'
  BY <1>0, <1>2, <1>3 DEF Inv, TypeOK, Labels
<1>7. SetUp'
  <2>1. Prealloc' = Prealloc /\ PreallocBytes' = PreallocBytes
    BY <1>0, SizesStay
  <2>2. pos' + remaining' = PreallocBytes'
    BY <1>0, <1>1, <1>2, <1>3, <2>1
  <2>. QED BY <1>0, <1>1, <1>3, <1>4, <1>5, <2>1, <2>2 DEF SetUp
<1>8. LogFollows' /\ InPhase'
  BY <1>0, <1>1 DEF LogFollows, InPhase
<1>9. SamplesSoFar' /\ CrashKeepsAcked'
  BY <1>0, <1>1 DEF SamplesSoFar, CrashKeepsAcked
<1>. QED BY <1>6, <1>7, <1>8, <1>9 DEF Inv

\* The zeros are on disk and the entries begin at their start.
LEMMA SyncZerosInv == ASSUME Inv, SyncZerosAndSeek PROVE Inv'
<1>0. /\ pc = "zeros" /\ pc' = "warmup" /\ remaining = 0 /\ remaining' = cfg.warmup
      /\ disk' = cache /\ dirty' = {} /\ pos' = 0
      /\ UNCHANGED <<program, cfg, exists, cache, count, samples, acked, report, image>>
  BY DEF SyncZerosAndSeek, Synced
<1>1. /\ acked = 0 /\ samples = <<>> /\ Prealloc /\ exists = "durable"
      /\ Len(cache) = pos /\ pos + remaining = PreallocBytes /\ \A i \in 1..Len(cache) : cache[i] = Zero
  BY <1>0 DEF Inv, SetUp
<1>2. /\ cfg.warmup \in Nat /\ EntryBytes \in Nat /\ 0 * EntryBytes = 0 /\ pos \in Nat
      /\ Reserved \in Nat /\ Reserved = PreallocBytes /\ Len(cache) = Reserved
  <2>1. TypeOK
    BY DEF Inv
  <2>2. cfg.warmup \in Nat /\ EntryBytes \in Nat /\ pos \in Nat /\ Reserved \in Nat /\ PreallocBytes \in Nat
    BY <2>1, Sizes
  <2>. QED BY <1>0, <1>1, <2>2 DEF Reserved
<1>3. TypeOK'
  BY <1>0, <1>2 DEF Inv, TypeOK, Labels
<1>4. SetUp' /\ InPhase'
  BY <1>0, <1>1, <1>2 DEF SetUp, InPhase
<1>5. LogFollows'
  <2>1. Reserved' = Reserved
    BY <1>0, SizesStay
  <2>2. HoldsEntries(cache, pos)' /\ HoldsEntries(disk, acked * EntryBytes)'
    BY <1>0, <1>1, <1>2, <2>1 DEF HoldsEntries
  <2>3. dirty' = (acked' * EntryBytes + 1)..pos' /\ acked' * EntryBytes <= pos'
    BY <1>0, <1>1, <1>2
  <2>. QED BY <1>0, <1>1, <2>2, <2>3 DEF LogFollows
<1>6. SamplesSoFar' /\ CrashKeepsAcked'
  BY <1>0, <1>1 DEF SamplesSoFar, CrashKeepsAcked
<1>. QED BY <1>3, <1>4, <1>5, <1>6 DEF Inv

\* The phases run_entries is called for.
LEMMA Phases ==
    ASSUME NEW phase \in {"warmup", "timed"}
    PROVE  /\ SyncPoint(phase) \in {"warmup_sync", "timed_sync"}
           /\ SyncPoint(phase) = "warmup_sync" <=> phase = "warmup"
           /\ SyncPoint(phase) = "timed_sync" <=> phase = "timed"
BY DEF SyncPoint

\* The size of a batch, while entries remain.
LEMMA BatchCounts ==
    TypeOK => /\ BatchCount \in Nat /\ BatchCount <= remaining /\ BatchCount <= BatchSize
              /\ remaining > 0 => BatchCount > 0
              /\ BatchCount \in 0..MaxBatch
<1>. SUFFICES ASSUME TypeOK
              PROVE  /\ BatchCount \in Nat /\ BatchCount <= remaining /\ BatchCount <= BatchSize
                     /\ remaining > 0 => BatchCount > 0
                     /\ BatchCount \in 0..MaxBatch
  OBVIOUS
<1>1. remaining \in Nat /\ BatchSize \in 1..MaxBatch /\ MaxBatch \in Nat
  BY Sizes, FsAssumption DEF TypeOK
<1>. QED BY <1>1 DEF BatchCount, Least

\* A batch begins: nothing of it is written.
LEMMA BeginBatchInv == ASSUME Inv, NEW phase \in {"warmup", "timed"}, BeginBatch(phase) PROVE Inv'
<1>0. /\ pc = phase /\ remaining > 0 /\ count' = BatchCount /\ pc' = SyncPoint(phase)
      /\ UNCHANGED <<program, cfg, exists, cache, disk, dirty, pos, remaining, samples, acked, report, image>>
  BY DEF BeginBatch
<1>1. /\ SyncPoint(phase) \in {"warmup_sync", "timed_sync"}
      /\ SyncPoint(phase) = "warmup_sync" <=> phase = "warmup"
      /\ SyncPoint(phase) = "timed_sync" <=> phase = "timed"
  BY Phases
<1>2. BatchCount \in Nat /\ BatchCount \in 0..MaxBatch
  BY BatchCounts DEF Inv
<1>3. BatchSize' = BatchSize /\ Reserved' = Reserved /\ Prealloc' = Prealloc
  BY <1>0, SizesStay
<1>4. TypeOK'
  BY <1>0, <1>1, <1>2 DEF Inv, TypeOK, Labels
<1>5. SetUp'
  BY <1>0, <1>1 DEF SetUp
<1>6. LogFollows'
  BY <1>0, <1>1, <1>3 DEF Inv, LogFollows, HoldsEntries
<1>7. InPhase'
  <2>1. BatchCount' = BatchCount
    BY <1>0, <1>3 DEF BatchCount
  <2>2. pos = acked * EntryBytes /\ acked \in Nat
    BY <1>0, Sizes DEF Inv, InPhase
  <2>3. acked + (BatchCount - BatchCount) = acked
    BY <1>2, <2>2
  <2>4. /\ pos' = (acked' + (BatchCount' - count')) * EntryBytes
        /\ count' <= BatchCount'
    BY <1>0, <1>2, <2>1, <2>2, <2>3
  <2>. QED BY <1>0, <1>1, <2>4 DEF Inv, InPhase
<1>8. SamplesSoFar'
  BY <1>0, <1>1, <1>3 DEF Inv, SamplesSoFar
<1>9. CrashKeepsAcked'
  BY <1>0, <1>1 DEF CrashKeepsAcked
<1>. QED BY <1>4, <1>5, <1>6, <1>7, <1>8, <1>9 DEF Inv

\* One more entry of the batch is in the file.
LEMMA WriteEntryInv == ASSUME Inv, NEW phase \in {"warmup", "timed"}, WriteEntry(phase) PROVE Inv'
<1>0. /\ pc = SyncPoint(phase) /\ pc' = pc /\ count > 0 /\ count' = count - 1 /\ WriteAll(Entry, EntryBytes)
      /\ UNCHANGED <<program, cfg, exists, disk, remaining, samples, acked, report, image>>
  BY DEF WriteEntry
<1>1. pc \in {"warmup_sync", "timed_sync"}
  BY <1>0, Phases
<1>2. /\ EntryBytes \in Nat \ {0} /\ pos \in Nat /\ acked \in Nat /\ count \in Nat /\ count \in 0..MaxBatch
      /\ MaxBatch \in Nat
  BY Sizes, FsAssumption DEF Inv, TypeOK
<1>3. /\ cache' \in Seq({Zero, Entry}) /\ pos' = pos + EntryBytes /\ pos' \in 0..Len(cache')
      /\ dirty' \subseteq 1..Len(cache')
  <2>1. TypeOK
    BY DEF Inv
  <2>. QED BY <1>0, <1>2, <2>1, Written
<1>4. BatchSize' = BatchSize /\ Reserved' = Reserved /\ Prealloc' = Prealloc
  BY <1>0, SizesStay
<1>5. TypeOK'
  BY <1>0, <1>2, <1>3 DEF Inv, TypeOK, Labels
<1>6. SetUp' /\ CrashKeepsAcked'
  BY <1>0, <1>1 DEF SetUp, CrashKeepsAcked
<1>7. LogFollows'
  <2>1. /\ exists = "durable" /\ acked * EntryBytes <= pos /\ HoldsEntries(cache, pos)
        /\ HoldsEntries(disk, acked * EntryBytes) /\ dirty = (acked * EntryBytes + 1)..pos
    BY <1>1 DEF Inv, LogFollows
  <2>2. acked * EntryBytes \in Nat
    BY <1>2
  <2>3. /\ HoldsEntries(cache, pos)' /\ dirty' = (acked * EntryBytes + 1)..pos'
        /\ acked * EntryBytes <= pos'
    <3>. DEFINE a == acked * EntryBytes
    <3>1. TypeOK /\ a \in Nat /\ a <= pos /\ dirty = (a + 1)..pos
      BY <2>1, <2>2 DEF Inv
    <3>. HIDE DEF a
    <3>2. HoldsEntries(cache, pos)' /\ dirty' = (a + 1)..pos' /\ a <= pos'
      BY <1>0, <1>2, <2>1, <3>1, LogGrows
    <3>. QED BY <3>2 DEF a
  <2>4. HoldsEntries(disk, acked * EntryBytes)'
    BY <1>0, <1>4, <2>1 DEF HoldsEntries
  <2>. QED BY <1>0, <2>1, <2>3, <2>4 DEF LogFollows
<1>8. InPhase'
  <2>1. /\ BatchCount' = BatchCount /\ BatchCount \in Nat
    BY <1>0, <1>4, BatchCounts DEF Inv, BatchCount
  <2>2. remaining > 0 /\ count <= BatchCount /\ pos = (acked + (BatchCount - count)) * EntryBytes
    BY <1>1 DEF Inv, InPhase
  <2>3. ASSUME NEW m \in Nat, NEW e \in Nat PROVE m * e + e = (m + 1) * e
    OBVIOUS
  <2>4. /\ acked + (BatchCount - count) \in Nat
        /\ acked + (BatchCount - count) + 1 = acked + (BatchCount - (count - 1))
    BY <1>2, <2>1, <2>2
  <2>5. pos + EntryBytes = (acked + (BatchCount - (count - 1))) * EntryBytes
    BY <1>2, <2>2, <2>3, <2>4
  <2>6. pos' = (acked' + (BatchCount' - count')) * EntryBytes /\ count' <= BatchCount' /\ remaining' > 0
    BY <1>0, <1>2, <1>3, <2>1, <2>2, <2>5
  <2>. QED BY <1>0, <1>1, <2>6 DEF Inv, InPhase
<1>9. SamplesSoFar'
  BY <1>0, <1>4 DEF Inv, SamplesSoFar
<1>. QED BY <1>5, <1>6, <1>7, <1>8, <1>9 DEF Inv

\* What a batch has left to make durable: its own entries.
LEMMA DirtyIsBatch ==
    ASSUME Inv, pc \in {"warmup_sync", "timed_sync"}, count = 0
    PROVE  /\ pos = (acked + BatchCount) * EntryBytes /\ pos \div EntryBytes = acked + BatchCount
           /\ Cardinality(dirty) = EntryBytes * BatchCount
           /\ Len(cache) > Len(disk) <=> ~Prealloc
<1>0. /\ EntryBytes \in Nat \ {0} /\ pos \in Nat /\ acked \in Nat /\ BatchCount \in Nat /\ BatchCount > 0
      /\ Reserved \in Nat /\ remaining \in Nat /\ BatchCount <= remaining
  BY Sizes, BatchCounts DEF Inv, TypeOK, InPhase
<1>1. pos = (acked + BatchCount) * EntryBytes
  BY <1>0 DEF Inv, InPhase
<1>2. pos \div EntryBytes = acked + BatchCount
  <2>1. acked + BatchCount \in Nat
    BY <1>0
  <2>. QED BY <1>0, <1>1, <2>1, WholeEntries
<1>. DEFINE a == acked * EntryBytes
            d == EntryBytes * BatchCount
<1>3. a \in Nat /\ d \in Nat /\ pos = a + d /\ d > 0
  <2>1. \A x, y, e \in Nat : (x + y) * e = x * e + e * y
    OBVIOUS
  <2>2. \A x, e \in Nat : x > 0 /\ e > 0 => e * x > 0
    OBVIOUS
  <2>. QED BY <1>0, <1>1, <2>1, <2>2
<1>4. dirty = (a + 1)..pos /\ HoldsEntries(cache, pos) /\ HoldsEntries(disk, a)
  BY DEF Inv, LogFollows
<1>. HIDE DEF a, d
<1>5. Cardinality(dirty) = d
  <2>1. a + 1 \in Int /\ pos \in Int /\ a + 1 <= pos /\ pos - (a + 1) + 1 = d
    BY <1>3
  <2>2. Cardinality((a + 1)..pos) = pos - (a + 1) + 1
    BY <2>1, FS_Interval
  <2>. QED BY <1>4, <2>1, <2>2
<1>6. /\ Len(cache) = IF pos > Reserved THEN pos ELSE Reserved
      /\ Len(disk) = IF a > Reserved THEN a ELSE Reserved
  BY <1>4 DEF HoldsEntries
<1>7. CASE Prealloc
  <2>1. Reserved = (cfg.warmup + cfg.iterations) * EntryBytes
    BY <1>7 DEF Reserved, PreallocBytes
  <2>2. acked + BatchCount <= cfg.warmup + cfg.iterations /\ cfg.warmup \in Nat /\ cfg.iterations \in Nat
    <3>1. cfg.warmup \in Nat /\ cfg.iterations \in Nat
      BY Sizes DEF Inv
    <3>2. acked + remaining <= cfg.warmup + cfg.iterations
      BY <1>0, <3>1 DEF Inv, InPhase
    <3>. QED BY <1>0, <3>1, <3>2
  <2>3. \A x, y, e \in Nat : x <= y => x * e <= y * e
    <3>1. ASSUME NEW x \in Nat, NEW y \in Nat, NEW e \in Nat, x <= y PROVE x * e <= y * e
      <4>1. PICK z \in Nat : y = x + z
        <5>1. y - x \in Nat /\ y = x + (y - x)
          BY <3>1
        <5>. QED BY <5>1
      <4>2. y * e = x * e + z * e /\ z * e \in Nat /\ x * e \in Nat
        BY <4>1
      <4>. QED BY <4>2
    <3>. QED BY <3>1
  <2>4. pos <= Reserved
    <3>1. acked + BatchCount \in Nat /\ cfg.warmup + cfg.iterations \in Nat /\ EntryBytes \in Nat
      BY <1>0, <2>2
    <3>. QED BY <1>1, <2>1, <2>2, <2>3, <3>1
  <2>. QED BY <1>0, <1>1, <1>2, <1>3, <1>5, <1>6, <1>7, <2>4 DEF d
<1>8. CASE ~Prealloc
  <2>1. Reserved = 0
    BY <1>8 DEF Reserved
  <2>. QED BY <1>1, <1>2, <1>3, <1>5, <1>6, <1>8, <2>1 DEF d
<1>. QED BY <1>7, <1>8

\* The sync of a batch returns: its entries are acknowledged, and a timed one
\* leaves its sample.
LEMMA SyncBatchInv == ASSUME Inv, NEW phase \in {"warmup", "timed"}, SyncBatch(phase) PROVE Inv'
<1>. DEFINE sample == [bytes |-> Cardinality(dirty), grows |-> Len(cache) > Len(disk)]
<1>0. /\ pc = SyncPoint(phase) /\ pc' = phase /\ count = 0 /\ disk' = cache /\ dirty' = {}
      /\ samples' = IF phase = "timed" THEN Append(samples, sample) ELSE samples
      /\ acked' = pos \div EntryBytes /\ remaining' = remaining - BatchCount
      /\ UNCHANGED <<program, cfg, exists, cache, pos, count, report, image>>
  BY DEF SyncBatch, Synced
<1>1. /\ pc \in {"warmup_sync", "timed_sync"}
      /\ pc = "warmup_sync" <=> phase = "warmup"
      /\ pc = "timed_sync" <=> phase = "timed"
  BY <1>0, Phases
<1>2. /\ EntryBytes \in Nat \ {0} /\ pos \in Nat /\ acked \in Nat /\ BatchCount \in Nat /\ BatchCount > 0
      /\ remaining \in Nat /\ BatchCount <= remaining /\ BatchSize \in Nat \ {0}
      /\ cfg.warmup \in Nat /\ cfg.iterations \in Nat
  BY <1>1, Sizes, BatchCounts DEF Inv, TypeOK, InPhase
<1>3. /\ pos = acked' * EntryBytes /\ acked' = acked + BatchCount
      /\ Cardinality(dirty) = EntryBytes * BatchCount
      /\ Len(cache) > Len(disk) <=> ~Prealloc
  BY <1>0, <1>1, DirtyIsBatch
<1>4. BatchSize' = BatchSize /\ Reserved' = Reserved /\ Prealloc' = Prealloc
  BY <1>0, SizesStay
<1>5. remaining' \in Nat /\ acked' \in Nat /\ acked' + remaining' = acked + remaining
  BY <1>0, <1>2, <1>3
<1>6. sample \in [bytes : Nat, grows : BOOLEAN]
  <2>1. EntryBytes * BatchCount \in Nat /\ (Len(cache) > Len(disk)) \in BOOLEAN
    BY <1>2
  <2>. QED BY <1>3, <2>1
<1>. HIDE DEF sample
<1>7. TypeOK'
  <2>1. samples' \in Seq([bytes : Nat, grows : BOOLEAN])
    <3>1. samples \in Seq([bytes : Nat, grows : BOOLEAN])
      BY DEF Inv, TypeOK
    <3>. QED BY <1>0, <1>6, <3>1, AppendProperties
  <2>2. acked' \in 0..(cfg.warmup + cfg.iterations)
    <3>1. acked + remaining <= cfg.warmup + cfg.iterations
      BY <1>1, <1>2 DEF Inv, InPhase
    <3>2. acked' <= acked + remaining
      BY <1>2, <1>3
    <3>. QED BY <1>2, <1>5, <3>1, <3>2
  <2>. QED BY <1>0, <1>5, <2>1, <2>2 DEF Inv, TypeOK, Labels
<1>8. SetUp' /\ CrashKeepsAcked'
  BY <1>0 DEF SetUp, CrashKeepsAcked
<1>9. LogFollows'
  <2>1. exists = "durable" /\ HoldsEntries(cache, pos)
    BY <1>1 DEF Inv, LogFollows
  <2>2. HoldsEntries(cache, pos)' /\ HoldsEntries(disk, acked * EntryBytes)'
    BY <1>0, <1>3, <1>4, <2>1 DEF HoldsEntries
  <2>3. dirty' = (acked' * EntryBytes + 1)..pos' /\ acked' * EntryBytes <= pos'
    <3>1. (pos + 1)..pos = {} /\ pos <= pos
      BY <1>2
    <3>. QED BY <1>0, <1>3, <3>1
  <2>. QED BY <1>0, <2>1, <2>2, <2>3 DEF LogFollows
<1>10. InPhase'
  <2>1. CASE phase = "warmup"
    <3>1. acked + remaining = cfg.warmup /\ samples = <<>>
      BY <1>1, <2>1 DEF Inv, InPhase
    <3>. QED BY <1>0, <1>3, <1>5, <2>1, <3>1 DEF InPhase
  <2>2. CASE phase = "timed"
    <3>1. acked + remaining = cfg.warmup + cfg.iterations /\ remaining <= cfg.iterations
      BY <1>1, <2>2 DEF Inv, InPhase
    <3>2. remaining' <= cfg.iterations
      BY <1>0, <1>2, <3>1
    <3>. QED BY <1>0, <1>3, <1>5, <2>2, <3>1, <3>2 DEF InPhase
  <2>. QED BY <2>1, <2>2
<1>11. SamplesSoFar'
  <2>1. CASE phase = "warmup"
    BY <1>0, <1>4, <2>1 DEF Inv, SamplesSoFar
  <2>2. CASE phase = "timed"
    <3>. DEFINE k == Len(samples)
                B == BatchSize
                I == cfg.iterations
                done == Len(samples) * BatchSize
    <3>0. k \in Nat /\ B \in Nat \ {0} /\ I \in Nat /\ done \in Nat /\ done = k * B
      BY <1>2 DEF Inv, TypeOK
    <3>1. /\ samples' \in Seq([bytes : Nat, grows : BOOLEAN])
          /\ Len(samples') = k + 1 /\ samples'[k + 1] = sample
          /\ \A j \in 1..k : samples'[j] = samples[j]
      BY <1>0, <1>6, <2>2, AppendProperties DEF Inv, TypeOK
    <3>2. I > done /\ remaining = I - done
      BY <1>1, <1>2, <2>2 DEF Inv, SamplesSoFar, InPhase
    <3>3. BatchCount = Least(B, I - done)
      BY <1>2, <3>0, <3>2 DEF BatchCount, Least
    <3>4. (k + 1) - 1 = k /\ (k + 1) * B = done + B
      BY <3>0
    <3>5. sample.bytes = EntryBytes * Least(B, I - ((k + 1) - 1) * B) /\ sample.grows = ~Prealloc
      <4>1. sample.bytes = EntryBytes * BatchCount
        BY <1>3 DEF sample
      <4>2. sample.grows = ~Prealloc
        <5>1. sample.grows = (Len(cache) > Len(disk))
          BY DEF sample
        <5>. QED BY <1>3, <5>1
      <4>. QED BY <3>0, <3>3, <3>4, <4>1, <4>2
    <3>6. \A j \in 1..k : /\ samples[j].bytes = EntryBytes * Least(B, I - (j - 1) * B)
                          /\ samples[j].grows = ~Prealloc
      BY DEF Inv, SamplesSoFar
    <3>7. remaining' = IF I > done + B THEN I - (done + B) ELSE 0
      BY <1>0, <3>0, <3>2, <3>3 DEF Least
    <3>. HIDE DEF k, B, I, done
    <3>8. \A j \in 1..(k + 1) : j \in 1..k \/ j = k + 1
      BY <3>0
    <3>9. \A j \in 1..(k + 1) : /\ samples'[j].bytes = EntryBytes * Least(B, I - (j - 1) * B)
                                /\ samples'[j].grows = ~Prealloc
      BY <3>1, <3>5, <3>6, <3>8
    <3>10. \A j \in 1..Len(samples') :
             /\ samples'[j].bytes = EntryBytes * Least(BatchSize', cfg'.iterations - (j - 1) * BatchSize')
             /\ samples'[j].grows = ~Prealloc'
      BY <1>0, <1>4, <3>1, <3>9 DEF B, I
    <3>11. (Len(samples') - 1) * BatchSize' < cfg'.iterations
      BY <1>0, <1>4, <3>0, <3>1, <3>2, <3>4 DEF B, I
    <3>12. remaining' = IF cfg'.iterations > Len(samples') * BatchSize'
                        THEN cfg'.iterations - Len(samples') * BatchSize' ELSE 0
      BY <1>0, <1>4, <3>1, <3>4, <3>7 DEF B, I
    <3>. QED BY <3>10, <3>11, <3>12 DEF SamplesSoFar, Least
  <2>. QED BY <2>1, <2>2
<1>. QED BY <1>7, <1>8, <1>9, <1>10, <1>11 DEF Inv

\* The timed run begins.
LEMMA EndWarmupInv == ASSUME Inv, EndWarmup PROVE Inv'
<1>0. /\ pc = "warmup" /\ pc' = "timed" /\ remaining = 0 /\ remaining' = cfg.iterations
      /\ UNCHANGED <<program, cfg, exists, cache, disk, dirty, pos, count, samples, acked, report, image>>
  BY DEF EndWarmup
<1>1. /\ cfg.iterations \in Nat \ {0} /\ BatchSize \in Nat \ {0} /\ acked \in Nat /\ samples = <<>>
      /\ acked = cfg.warmup /\ Len(samples) = 0 /\ cfg.warmup \in Nat
  <2>1. /\ cfg.iterations \in Nat \ {0} /\ BatchSize \in Nat \ {0} /\ acked \in Nat /\ cfg.warmup \in Nat
    BY Sizes DEF Inv
  <2>2. acked + remaining = cfg.warmup /\ samples = <<>>
    BY <1>0 DEF Inv, InPhase
  <2>. QED BY <1>0, <2>1, <2>2
<1>2. BatchSize' = BatchSize /\ Reserved' = Reserved /\ Prealloc' = Prealloc
  BY <1>0, SizesStay
<1>3. TypeOK'
  BY <1>0, <1>1 DEF Inv, TypeOK, Labels
<1>4. SetUp' /\ CrashKeepsAcked'
  BY <1>0 DEF SetUp, CrashKeepsAcked
<1>5. LogFollows'
  BY <1>0, <1>2 DEF Inv, LogFollows, HoldsEntries
<1>6. InPhase'
  BY <1>0, <1>1 DEF Inv, InPhase
<1>7. SamplesSoFar'
  <2>1. 0 * BatchSize = 0 /\ (0 - 1) * BatchSize < cfg.iterations
    BY <1>1
  <2>. QED BY <1>0, <1>1, <1>2, <2>1 DEF SamplesSoFar
<1>. QED BY <1>3, <1>4, <1>5, <1>6, <1>7 DEF Inv

\* The result lines.
LEMMA EmitFsInv == ASSUME Inv, EmitFs PROVE Inv'
<1>0. /\ pc = "timed" /\ pc' = "reported" /\ remaining = 0 /\ report' = Len(samples)
      /\ UNCHANGED <<program, cfg, exists, cache, disk, dirty, pos, remaining, count, samples, acked, image>>
  BY DEF EmitFs
<1>1. BatchSize' = BatchSize /\ Reserved' = Reserved /\ Prealloc' = Prealloc
  BY <1>0, SizesStay
<1>2. TypeOK'
  BY <1>0 DEF Inv, TypeOK, Labels
<1>3. SetUp' /\ CrashKeepsAcked' /\ InPhase'
  BY <1>0 DEF Inv, SetUp, CrashKeepsAcked, InPhase
<1>4. LogFollows'
  BY <1>0, <1>1 DEF Inv, LogFollows, HoldsEntries
<1>5. SamplesSoFar'
  BY <1>0, <1>1 DEF Inv, SamplesSoFar
<1>. QED BY <1>2, <1>3, <1>4, <1>5 DEF Inv

\* A call fails: what is acknowledged stays.
LEMMA IoErrorInv == ASSUME Inv, IoError PROVE Inv'
<1>0. /\ pc' = "failed" /\ pc \notin {"failed", "crashed"}
      /\ UNCHANGED <<program, cfg, exists, cache, disk, dirty, pos, remaining, count, samples, acked, report, image>>
  BY DEF IoError, Batching
<1>1. BatchSize' = BatchSize /\ Reserved' = Reserved /\ Prealloc' = Prealloc
  BY <1>0, SizesStay
<1>2. TypeOK'
  BY <1>0 DEF Inv, TypeOK, Labels
<1>3. SetUp' /\ CrashKeepsAcked' /\ InPhase'
  BY <1>0 DEF SetUp, CrashKeepsAcked, InPhase
<1>4. LogFollows'
  BY <1>0, <1>1 DEF Inv, LogFollows, HoldsEntries
<1>5. SamplesSoFar'
  BY <1>0, <1>1 DEF Inv, SamplesSoFar
<1>. QED BY <1>2, <1>3, <1>4, <1>5 DEF Inv

\* A write fails part of the way.
LEMMA WriteErrorInv == ASSUME Inv, WriteError PROVE Inv'
<1>0. /\ pc' = "failed"
      /\ UNCHANGED <<program, cfg, exists, disk, remaining, count, samples, acked, report, image>>
  BY DEF WriteError
<1>1. PICK b \in {Zero, Entry}, n \in Nat :
         /\ WriteAll(b, n)
         /\ b = Entry \/ pc = "zeros"
  <2>1. CASE Batching /\ count > 0 /\ \E n \in 1..(EntryBytes - 1) : WriteAll(Entry, n)
    <3>1. \A n \in 1..(EntryBytes - 1) : n \in Nat
      BY FsAssumption
    <3>. QED BY <2>1, <3>1
  <2>2. CASE pc = "zeros" /\ \E n \in 1..(Least(remaining, ZeroChunk) - 1) : WriteAll(Zero, n)
    <3>1. \A n \in 1..(Least(remaining, ZeroChunk) - 1) : n \in Nat
      BY FsAssumption DEF Inv, TypeOK, Least
    <3>. QED BY <2>2, <3>1
  <2>. QED BY <2>1, <2>2 DEF WriteError
<1>2. /\ cache' \in Seq({Zero, Entry}) /\ pos' \in 0..Len(cache') /\ dirty' \subseteq 1..Len(cache')
  BY <1>1, Written DEF Inv
<1>3. BatchSize' = BatchSize /\ Reserved' = Reserved /\ Prealloc' = Prealloc
  BY <1>0, SizesStay
<1>4. TypeOK'
  BY <1>0, <1>2 DEF Inv, TypeOK, Labels
<1>5. SetUp' /\ CrashKeepsAcked' /\ InPhase'
  BY <1>0 DEF SetUp, CrashKeepsAcked, InPhase
<1>6. LogFollows'
  <2>. SUFFICES ASSUME acked > 0 PROVE LogFollows'
    BY <1>0 DEF LogFollows
  <2>1. /\ exists = "durable" /\ acked * EntryBytes <= pos /\ HoldsEntries(cache, pos)
        /\ HoldsEntries(disk, acked * EntryBytes) /\ dirty = (acked * EntryBytes + 1)..pos
    BY DEF Inv, LogFollows
  <2>2. b = Entry
    BY <1>1 DEF Inv, SetUp
  <2>. DEFINE a == acked * EntryBytes
  <2>3. TypeOK /\ a \in Nat /\ a <= pos /\ dirty = (a + 1)..pos
    BY <2>1, Sizes DEF Inv
  <2>. HIDE DEF a
  <2>4. HoldsEntries(cache, pos)' /\ dirty' = (a + 1)..pos' /\ a <= pos'
    BY <1>0, <1>1, <2>1, <2>2, <2>3, LogGrows
  <2>5. HoldsEntries(disk, acked * EntryBytes)'
    BY <1>0, <1>3, <2>1 DEF HoldsEntries
  <2>. QED BY <1>0, <2>1, <2>4, <2>5 DEF LogFollows, a
<1>7. SamplesSoFar'
  BY <1>0, <1>3 DEF Inv, SamplesSoFar
<1>. QED BY <1>4, <1>5, <1>6, <1>7 DEF Inv

\* The machine stops: a dirty byte lies behind everything acknowledged, and
\* behind every byte written both the file and the disk hold zeros.
LEMMA CrashInv == ASSUME Inv, Crash PROVE Inv'
<1>0. /\ pc' = "crashed" /\ pc # "crashed"
      /\ UNCHANGED <<program, cfg, exists, cache, disk, dirty, pos, remaining, count, samples, acked, report>>
      /\ \/ exists # "no" /\ image' \in [found : {TRUE}, bytes : CrashImages]
         \/ exists # "durable" /\ image' = [found |-> FALSE, bytes |-> <<>>]
  BY DEF Crash
<1>1. BatchSize' = BatchSize /\ Reserved' = Reserved /\ Prealloc' = Prealloc
  BY <1>0, SizesStay
<1>2. TypeOK'
  BY <1>0 DEF Inv, TypeOK, Labels
<1>3. SetUp' /\ InPhase'
  BY <1>0 DEF SetUp, InPhase
<1>4. LogFollows'
  BY <1>0, <1>1 DEF Inv, LogFollows, HoldsEntries
<1>5. SamplesSoFar'
  BY <1>0, <1>1 DEF Inv, SamplesSoFar
<1>6. CrashKeepsAcked'
  <2>. SUFFICES ASSUME acked > 0 PROVE CrashKeepsAcked'
    BY <1>0 DEF CrashKeepsAcked
  <2>. DEFINE a == acked * EntryBytes
              z == Begun * EntryBytes
  <2>1. /\ exists = "durable" /\ a <= pos /\ HoldsEntries(cache, pos)
        /\ HoldsEntries(disk, a) /\ dirty = (a + 1)..pos
    BY DEF Inv, LogFollows
  <2>2. a \in Nat /\ z \in Nat /\ z >= pos /\ pos \in Nat /\ Reserved \in Nat
    <3>1. /\ EntryBytes \in Nat \ {0} /\ pos \in Nat /\ Reserved \in Nat /\ acked \in Nat
      BY Sizes DEF Inv
    <3>2. ((pos + EntryBytes - 1) \div EntryBytes) * EntryBytes >= pos
          /\ (pos + EntryBytes - 1) \div EntryBytes \in Nat
      BY <3>1, RoundUpCovers
    <3>. QED BY <3>1, <3>2 DEF Begun
  <2>. HIDE DEF a, z
  <2>3. /\ Len(cache) = (IF pos > Reserved THEN pos ELSE Reserved)
        /\ Len(disk) = (IF a > Reserved THEN a ELSE Reserved)
        /\ \A i \in 1..Len(cache) : cache[i] = IF i <= pos THEN Entry ELSE Zero
        /\ \A i \in 1..Len(disk) : disk[i] = IF i <= a THEN Entry ELSE Zero
    BY <2>1 DEF HoldsEntries
  <2>4. image'.found /\ image'.bytes \in CrashImages
    BY <1>0, <2>1
  <2>5. PICK size \in {Len(disk), Len(cache)}, kept \in SUBSET dirty :
           image'.bytes = [i \in 1..size |->
                              IF i \in kept /\ i <= Len(cache) THEN cache[i]
                              ELSE IF i <= Len(disk) THEN disk[i] ELSE Zero]
    BY <2>4 DEF CrashImages
  <2>6. size \in Nat /\ a <= Len(disk) /\ Len(disk) <= size /\ Len(disk) \in Nat /\ Len(cache) \in Nat
    BY <2>1, <2>2, <2>3
  <2>7. Len(image'.bytes) = size
    BY <2>5, <2>6
  <2>8. ASSUME NEW i \in 1..size
        PROVE  /\ i <= a => image'.bytes[i] = Entry
               /\ i > z => image'.bytes[i] = Zero
    <3>1. image'.bytes[i] = IF i \in kept /\ i <= Len(cache) THEN cache[i]
                            ELSE IF i <= Len(disk) THEN disk[i] ELSE Zero
      BY <2>5
    <3>2. i \in Nat /\ i >= 1 /\ (i \in kept => i > a /\ i <= pos)
      BY <2>1, <2>2, <2>5, <2>6
    <3>3. i <= a => i \notin kept /\ i <= Len(disk) /\ i \in 1..Len(disk)
      BY <2>2, <2>6, <3>2
    <3>4. i > z => i \notin kept /\ ~(i <= a)
      BY <2>1, <2>2, <3>2
    <3>5. i <= Len(disk) => i \in 1..Len(disk)
      BY <2>6, <3>2
    <3>. QED BY <2>3, <3>1, <3>3, <3>4, <3>5
  <2>9. /\ image'.found /\ Len(image'.bytes) >= a
        /\ \A i \in 1..Len(image'.bytes) : /\ i <= a => image'.bytes[i] = Entry
                                           /\ i > z => image'.bytes[i] = Zero
    BY <2>2, <2>4, <2>6, <2>7, <2>8
  <2>10. acked' = acked /\ Begun' = Begun
    BY <1>0 DEF Begun
  <2>. QED BY <2>9, <2>10 DEF CrashKeepsAcked, a, z
<1>. QED BY <1>2, <1>3, <1>4, <1>5, <1>6 DEF Inv

\* Every step keeps the invariant.
LEMMA NextInv == Inv /\ [Next]_vars => Inv'
<1>. SUFFICES ASSUME Inv, [Next]_vars PROVE Inv'
  OBVIOUS
<1>1. CASE UNCHANGED vars
  <2>1. UNCHANGED <<program, cfg, exists, cache, disk, dirty, pos, pc, remaining, count, samples, acked, report, image>>
    BY <1>1 DEF vars
  <2>2. BatchSize' = BatchSize /\ Reserved' = Reserved /\ Prealloc' = Prealloc /\ PreallocBytes' = PreallocBytes
    BY <2>1, SizesStay
  <2>3. BatchCount' = BatchCount /\ Begun' = Begun
    BY <2>1, <2>2 DEF BatchCount, Begun
  <2>4. TypeOK' /\ SetUp' /\ InPhase'
    BY <2>1, <2>2, <2>3 DEF Inv, TypeOK, SetUp, InPhase
  <2>5. LogFollows' /\ SamplesSoFar'
    BY <2>1, <2>2 DEF Inv, LogFollows, HoldsEntries, SamplesSoFar
  <2>6. CrashKeepsAcked'
    BY <2>1, <2>3 DEF Inv, CrashKeepsAcked
  <2>. QED BY <2>4, <2>5, <2>6 DEF Inv
<1>2. CASE \E phase \in {"warmup", "timed"} : BeginBatch(phase) \/ WriteEntry(phase) \/ SyncBatch(phase)
  BY <1>2, BeginBatchInv, WriteEntryInv, SyncBatchInv
<1>. QED BY <1>1, <1>2, OpenTruncateInv, SyncFileInv, SyncDirInv, WriteZerosInv, SyncZerosInv,
         EndWarmupInv, EmitFsInv, IoErrorInv, WriteErrorInv, CrashInv DEF Next

-----------------------------------------------------------------------------
(* The theorems.                                                           *)

\* The harness keeps its invariant: the file, the disk and the dirty bytes
\* between them are what the entries written and acknowledged say.
THEOREM LogSound == Spec => []Inv
BY InitInv, NextInv, PTL DEF Spec

\* A crash at any point leaves every entry whose sync returned, whole and
\* under the log's name, and no byte of an entry that this run did not write:
\* for every entry size, batch size, number of entries and zero chunk.
THEOREM AckedSurvives == Spec => []CrashKeepsAcked
<1>1. Inv => CrashKeepsAcked
  BY DEF Inv
<1>. QED BY <1>1, LogSound, PTL

\* The number of samples at the end.
LEMMA ReportIsExact == Inv => SamplesMeasureOwnBatch
<1>. SUFFICES ASSUME Inv PROVE SamplesMeasureOwnBatch
  OBVIOUS
<1>1. ASSUME pc = "reported"
      PROVE  /\ report = (cfg.iterations + BatchSize - 1) \div BatchSize
             /\ acked = cfg.warmup + cfg.iterations /\ disk = cache
  <2>. DEFINE k == Len(samples)
              B == BatchSize
              I == cfg.iterations
              m == cfg.iterations + BatchSize - 1
  <2>0. /\ k \in Nat /\ B \in Nat \ {0} /\ I \in Nat \ {0} /\ m \in Nat /\ acked \in Nat /\ m = I + B - 1
        /\ k * B \in Nat /\ cfg.warmup \in Nat
    <3>1. /\ TypeOK /\ Len(samples) \in Nat
      BY DEF Inv, TypeOK
    <3>2. /\ B \in Nat \ {0} /\ I \in Nat \ {0} /\ acked \in Nat /\ cfg.warmup \in Nat
      BY <3>1, Sizes
    <3>. HIDE DEF B, I
    <3>3. m = I + B - 1
      BY DEF m, B, I
    <3>. QED BY <3>1, <3>2, <3>3
  <2>1. /\ remaining = 0 /\ report = k /\ pos = acked * EntryBytes
        /\ acked + remaining = cfg.warmup + I
    BY <1>1 DEF Inv, InPhase
  <2>2. (k - 1) * B < I /\ I <= k * B
    BY <1>1, <2>0, <2>1 DEF Inv, SamplesSoFar
  <2>3. (k - 1) * B = k * B - B
    BY <2>0
  <2>4. k * B <= m /\ m < k * B + B
    BY <2>0, <2>2, <2>3
  <2>. HIDE DEF m
  <2>5. m \div B = k
    BY <2>0, <2>4, Quotient
  <2>6. disk = cache
    <3>1. HoldsEntries(cache, pos) /\ HoldsEntries(disk, pos)
      BY <1>1, <2>1 DEF Inv, LogFollows
    <3>2. /\ Len(cache) = Len(disk) /\ cache \in Seq({Zero, Entry}) /\ disk \in Seq({Zero, Entry})
          /\ \A i \in 1..Len(cache) : cache[i] = disk[i]
      BY <3>1 DEF HoldsEntries, Inv, TypeOK
    <3>. QED BY <3>2, SeqEqual
  <2>. QED BY <2>0, <2>1, <2>5, <2>6 DEF m
<1>. QED BY <1>1 DEF Inv, SamplesSoFar, SamplesMeasureOwnBatch

\* The samples are about the measured batches: as many as there are batches,
\* each of its own bytes, and never one that extends a preallocated file.
THEOREM SamplesAreExact == Spec => []SamplesMeasureOwnBatch
BY LogSound, ReportIsExact, PTL
=============================================================================
