------------------------------ MODULE SbeLayout ------------------------------
(***************************************************************************)
(* The generated SBE codecs: where each accessor puts and gets its field.  *)
(* BookSnapshot is the image of an order book                              *)
(* (booksnap-sbe/generated/booksnap), JournalRecord the record of the      *)
(* serialization benchmarks (aeron_sbe/generated/journal).  Encoder and    *)
(* decoder are generated separately, so each has a table of its own.       *)
(*                                                                         *)
(* A buffer is a function on 0..n-1; a byte is the value it is a part of   *)
(* and its place in it.  A number is <<"num", n>>, so that a count or a    *)
(* length that was overwritten cannot pass for one.                        *)
(***************************************************************************)
EXTENDS Integers, Sequences, FiniteSets

F(at, size) == [at |-> at, size |-> size]

HeaderLength == 8
GroupHeaderLength == 4
VarDataLength == 4

HeaderPut == [blockLength |-> F(0, 2), templateId |-> F(2, 2), schemaId |-> F(4, 2), version |-> F(6, 2)]
HeaderGet == [blockLength |-> F(0, 2), templateId |-> F(2, 2), schemaId |-> F(4, 2), version |-> F(6, 2)]

BookPut ==
    [priceMin |-> F(0, 8), tickSize |-> F(8, 8), nLevels |-> F(16, 4), capacity |-> F(20, 4),
     hwm |-> F(24, 4), bestBid |-> F(28, 4), bestAsk |-> F(32, 4), freeHead |-> F(36, 4)]
BookGet ==
    [priceMin |-> F(0, 8), tickSize |-> F(8, 8), nLevels |-> F(16, 4), capacity |-> F(20, 4),
     hwm |-> F(24, 4), bestBid |-> F(28, 4), bestAsk |-> F(32, 4), freeHead |-> F(36, 4)]

LevelsPut ==
    [side |-> F(0, 1), levelTick |-> F(1, 4), qtyTotal |-> F(5, 8), orderCount |-> F(13, 4),
     head |-> F(17, 4), tail |-> F(21, 4)]
LevelsGet ==
    [side |-> F(0, 1), levelTick |-> F(1, 4), qtyTotal |-> F(5, 8), orderCount |-> F(13, 4),
     head |-> F(17, 4), tail |-> F(21, 4)]

\* Faulty variant: the one-byte side is given the room of a word, and its
\* neighbours have not moved.
OrdersPutWideSide ==
    [slot |-> F(0, 4), orderId |-> F(4, 8), price |-> F(12, 8), qty |-> F(20, 8),
     filled |-> F(28, 8), side |-> F(36, 4), nextSlot |-> F(37, 4), prev |-> F(41, 4)]

OrdersPut ==
    [slot |-> F(0, 4), orderId |-> F(4, 8), price |-> F(12, 8), qty |-> F(20, 8),
     filled |-> F(28, 8), side |-> F(36, 1), nextSlot |-> F(37, 4), prev |-> F(41, 4)]
OrdersGet ==
    [slot |-> F(0, 4), orderId |-> F(4, 8), price |-> F(12, 8), qty |-> F(20, 8),
     filled |-> F(28, 8), side |-> F(36, 1), nextSlot |-> F(37, 4), prev |-> F(41, 4)]

RecordPut ==
    [leadershipTermId |-> F(0, 8), logPosition |-> F(8, 8), timestamp |-> F(16, 8),
     clusterSessionId |-> F(24, 8), correlationId |-> F(32, 8), leaderMemberId |-> F(40, 4),
     serviceId |-> F(44, 4), eventType |-> F(48, 1), flags |-> F(49, 1)]
RecordGet ==
    [leadershipTermId |-> F(0, 8), logPosition |-> F(8, 8), timestamp |-> F(16, 8),
     clusterSessionId |-> F(24, 8), correlationId |-> F(32, 8), leaderMemberId |-> F(40, 4),
     serviceId |-> F(44, 4), eventType |-> F(48, 1), flags |-> F(49, 1)]

EntriesPut ==
    [entryTermId |-> F(0, 8), entryIndex |-> F(8, 8), entryTimestamp |-> F(16, 8),
     commandKey |-> F(24, 4), cmdQty |-> F(28, 8), cmdPrice |-> F(36, 8), cmdFlag |-> F(44, 1)]
EntriesGet ==
    [entryTermId |-> F(0, 8), entryIndex |-> F(8, 8), entryTimestamp |-> F(16, 8),
     commandKey |-> F(24, 4), cmdQty |-> F(28, 8), cmdPrice |-> F(36, 8), cmdFlag |-> F(44, 1)]

\* A message: its block, then its groups in order.
BookSnapshot ==
    [blockLength |-> 40, templateId |-> 1, schemaId |-> 8, version |-> 2,
     put |-> BookPut, get |-> BookGet,
     groups |-> << [blockLength |-> 25, put |-> LevelsPut, get |-> LevelsGet, varData |-> FALSE],
                   [blockLength |-> 45, put |-> OrdersPut, get |-> OrdersGet, varData |-> FALSE] >>]

JournalRecord ==
    [blockLength |-> 50, templateId |-> 1, schemaId |-> 7, version |-> 1,
     put |-> RecordPut, get |-> RecordGet,
     groups |-> << [blockLength |-> 45, put |-> EntriesPut, get |-> EntriesGet, varData |-> TRUE] >>]

-----------------------------------------------------------------------------
(* WriteBuf and ReadBuf.                                                   *)

Blank == << <<>>, 0 >>
NewBuf(n) == [j \in 0..(n - 1) |-> Blank]
Num(n) == <<"num", n>>

Bytes(f, at) == (at + f.at)..(at + f.at + f.size - 1)

\* The fields of a table, put at offset `at`; values gives each field's value.
PutFields(b, at, fields, values) ==
    [j \in DOMAIN b |->
        LET hit == {f \in DOMAIN fields : j \in Bytes(fields[f], at)}
        IN  IF hit = {} THEN b[j]
            ELSE LET f == CHOOSE f \in hit : TRUE IN <<values[f], j - at - fields[f].at>>]

PutSlice(b, at, slice) ==
    [j \in DOMAIN b |-> IF j \in at..(at + Len(slice) - 1) THEN slice[j - at + 1] ELSE b[j]]

Garbled == <<"garbled">>

GetField(b, at, f) ==
    LET first == at + f.at
    IN  IF /\ Bytes(f, at) \subseteq DOMAIN b
           /\ \A i \in 0..(f.size - 1) : b[first + i] = <<b[first][1], i>>
        THEN b[first][1] ELSE Garbled

GetFields(b, at, fields) == [f \in DOMAIN fields |-> GetField(b, at, fields[f])]

GetNum(b, at, f) ==
    LET v == GetField(b, at, f) IN IF Len(v) = 2 /\ v[1] = "num" THEN v[2] ELSE 0
=============================================================================
