--------------------------------- MODULE Sbe ---------------------------------
(***************************************************************************)
(* The SBE encoders and decoders at work: cursors that move over a buffer  *)
(* which every message is written into again.  Two programs use them:      *)
(*                                                                         *)
(*   snapshot   encodes a book and restores it from what it encoded, over  *)
(*              and over (smr-collections/snapshot);                       *)
(*   aeron_sbe  encodes journal records, first only to warm up and to time *)
(*              it, then into one contiguous journal with a list of frames,*)
(*              and decodes the frames (bench-common/src/serial.rs).       *)
(*                                                                         *)
(* Message number r holds values of its own in every field, so a field     *)
(* that was read from what an earlier message left in the buffer is seen.  *)
(***************************************************************************)
EXTENDS SbeLayout

CONSTANTS
    Cap,            \* orders of a book (SMRC_CAP)
    Levels,         \* levels a side (SMRC_LEVELS)
    MaxEntries,     \* bound on the entries of a journal record (SER_ENTRIES)
    MaxText,        \* bound on the bytes of a command text (SER_CMD_BYTES)
    ScratchLength,  \* of the journal's scratch buffer (64 * 1024)
    Warmup, Iters   \* messages (SMRC_WARMUP, SMRC_ITERS, SER_WARMUP, SER_ITERS)

ASSUME SbeAssumption ==
    /\ {Cap, Levels, ScratchLength, Iters} \subseteq Nat \ {0}
    /\ {MaxEntries, MaxText, Warmup} \subseteq Nat

VARIABLES
    workload,   \* the program that runs
    sizes,      \* elements of each group
    text,       \* bytes of a command text
    pass,       \* of the program: which loop it is in
    r,          \* the message of this iteration
    step,
    buf,
    enc,        \* the encoder: limit, group, element, and the element's offset
    journal, frames,
    dec         \* the decoder: the same, and what it has read

codecVars == <<workload, sizes, text, pass, r, step, buf, enc, journal, frames, dec>>
setup == <<workload, sizes, text>>

Fmt == IF workload = "snapshot" THEN BookSnapshot ELSE JournalRecord

-----------------------------------------------------------------------------
(* Messages.                                                               *)

BlockValue(m, f) == <<"block", m, f>>
ElemValue(m, g, i, f) == <<"elem", m, g, i, f>>
Text(m, g, i) ==
    IF Fmt.groups[g].varData THEN [j \in 1..text |-> << <<"text", m, g, i>>, j - 1 >>] ELSE <<>>

Message(m) ==
    [block  |-> [f \in DOMAIN Fmt.put |-> BlockValue(m, f)],
     groups |-> [g \in DOMAIN Fmt.groups |->
                   [i \in 1..sizes[g] |->
                      [fields |-> [f \in DOMAIN Fmt.groups[g].put |-> ElemValue(m, g, i, f)],
                       text   |-> Text(m, g, i)]]]]

\* Faulty variant: an order is taken to need no more than a level.
BufLenTight == 64 + Cap * 32 + Levels * 2 * 32

BufLen == 64 + Cap * 64 + Levels * 2 * 32

\* `at` = -1 is usize::MAX, the offset of a group that has not advanced yet.
NewCursor == [limit |-> 0, group |-> 0, index |-> 0, count |-> 0, length |-> 0, at |-> -1]
NewDecoder ==
    [limit |-> 0, group |-> 0, index |-> 0, count |-> 0, length |-> 0, at |-> -1,
     block |-> <<>>, groups |-> <<>>]

\* `steady` orders were inserted, on at least one level and at most as many.
BookSizes == {s \in (1..(2 * Levels)) \X (1..Cap) : s[1] <= s[2]}

CodecInit ==
    /\ workload \in {"snapshot", "aeron_sbe"}
    /\ sizes \in IF workload = "snapshot" THEN BookSizes ELSE {<<k>> : k \in 0..MaxEntries}
    /\ text \in IF workload = "snapshot" THEN {0} ELSE 0..MaxText
    /\ pass = "warmup" /\ r = 1 /\ step = "next"
    /\ buf = NewBuf(IF workload = "snapshot" THEN BufLen ELSE ScratchLength)
    /\ enc = NewCursor /\ journal = <<>> /\ frames = <<>>
    /\ dec = NewDecoder

-----------------------------------------------------------------------------
(* The loops of the two programs.                                          *)

Passes == IF workload = "snapshot" THEN <<"warmup", "timed", "done">>
          ELSE <<"warmup", "timed", "build", "rewarm", "replay", "done">>

PassLength ==
    CASE pass = "warmup" -> Warmup
      [] pass = "rewarm" -> IF Warmup < Len(frames) THEN Warmup ELSE Len(frames)
      [] OTHER -> Iters

\* Records Warmup+1.. are the timed ones; the frames hold these.
Number == IF pass = "warmup" THEN r ELSE Warmup + r

NextMessage ==
    /\ step = "next" /\ pass # "done" /\ r <= PassLength
    /\ step' = IF pass \in {"rewarm", "replay"} THEN "decode block" ELSE "encode block"
    /\ UNCHANGED <<setup, pass, r, buf, enc, journal, frames, dec>>

NextPass ==
    /\ step = "next" /\ pass # "done" /\ r > PassLength
    /\ \E i \in 1..(Len(Passes) - 1) : Passes[i] = pass /\ pass' = Passes[i + 1]
    /\ r' = 1
    /\ UNCHANGED <<setup, step, buf, enc, journal, frames, dec>>

-----------------------------------------------------------------------------
(* The encoder.  Writing past the end of the buffer panics.                *)

Writes(end, b, next) ==
    IF end > Cardinality(DOMAIN buf) THEN step' = "panicked" /\ UNCHANGED buf
    ELSE step' = next /\ buf' = b

\* wrap at HeaderLength, header at 0, and the fields of the block.
EncodeBlock ==
    /\ step = "encode block"
    /\ enc' = [NewCursor EXCEPT !.limit = HeaderLength + Fmt.blockLength]
    /\ LET head == [blockLength |-> Num(Fmt.blockLength), templateId |-> Num(Fmt.templateId),
                    schemaId |-> Num(Fmt.schemaId), version |-> Num(Fmt.version)]
           block == [f \in DOMAIN Fmt.put |-> BlockValue(Number, f)]
           framed == PutFields(buf, 0, HeaderPut, head)
       IN  Writes(enc'.limit, PutFields(framed, HeaderLength, Fmt.put, block), "encode group")
    /\ UNCHANGED <<setup, pass, r, journal, frames, dec>>

GroupHeader == [blockLength |-> F(0, 2), numInGroup |-> F(2, 2)]

GroupWrap(limit) == limit + GroupHeaderLength

EncodeGroup ==
    /\ step = "encode group" /\ enc.group < Len(Fmt.groups)
    /\ LET g    == enc.group + 1
           head == [blockLength |-> Num(Fmt.groups[g].blockLength), numInGroup |-> Num(sizes[g])]
       IN  /\ enc' = [limit |-> GroupWrap(enc.limit), group |-> g, index |-> 0,
                      count |-> sizes[g], length |-> Fmt.groups[g].blockLength, at |-> -1]
           /\ Writes(enc'.limit, PutFields(buf, enc.limit, GroupHeader, head), "encode element")
    /\ UNCHANGED <<setup, pass, r, journal, frames, dec>>

\* advance, the fields, and the text where the group has one.
EncodeElem ==
    /\ step = "encode element" /\ enc.index < enc.count
    /\ LET g      == enc.group
           at     == enc.limit
           i      == enc.index + 1
           put    == Fmt.groups[g].put
           fields == PutFields(buf, at, put, [f \in DOMAIN put |-> ElemValue(Number, g, i, f)])
           limit  == at + enc.length
           slice  == Text(Number, g, i)
           texted == PutSlice(PutFields(fields, limit, [length |-> F(0, VarDataLength)],
                                        [length |-> Num(Len(slice))]),
                              limit + VarDataLength, slice)
       IN  /\ enc' = [enc EXCEPT !.index = i, !.at = at,
                                 !.limit = IF Fmt.groups[g].varData
                                           THEN limit + VarDataLength + Len(slice) ELSE limit]
           /\ Writes(enc'.limit, IF Fmt.groups[g].varData THEN texted ELSE fields, step)
    /\ UNCHANGED <<setup, pass, r, journal, frames, dec>>

EndGroup ==
    /\ step = "encode element" /\ enc.index = enc.count
    /\ step' = "encode group"
    /\ UNCHANGED <<setup, pass, r, buf, enc, journal, frames, dec>>

\* The snapshot ends with a checksum of all bytes before it.
Trailer == [crc |-> F(0, 4)]

Crc(n) == <<"crc", [j \in 0..(n - 1) |-> buf[j]]>>

EncodeTrailer ==
    /\ step = "encode group" /\ enc.group = Len(Fmt.groups) /\ workload = "snapshot"
    /\ enc' = [enc EXCEPT !.limit = @ + 4]
    /\ Writes(enc'.limit, PutFields(buf, enc.limit, Trailer, [crc |-> Crc(enc.limit)]), "decode block")
    /\ UNCHANGED <<setup, pass, r, journal, frames, dec>>

\* encode returns the limit.  The snapshot program restores at once; the
\* journal keeps the frame in its third pass.
EncodeEnd ==
    /\ step = "encode group" /\ enc.group = Len(Fmt.groups) /\ workload = "aeron_sbe"
    /\ IF pass = "build"
       THEN /\ journal' = journal \o [j \in 1..enc.limit |-> buf[j - 1]]
            /\ frames' = Append(frames, [start |-> Len(journal), length |-> enc.limit])
       ELSE UNCHANGED <<journal, frames>>
    /\ step' = "next" /\ r' = r + 1
    /\ UNCHANGED <<setup, pass, buf, enc, dec>>

-----------------------------------------------------------------------------
(* The decoder.  Block length and count are those it finds in the buffer.  *)

Source ==
    IF workload = "snapshot" THEN [j \in 0..(enc.limit - 5) |-> buf[j]]
    ELSE [j \in 0..(frames[r].length - 1) |-> journal[frames[r].start + j + 1]]

\* restore refuses a wrong checksum and another schema version; the program
\* expects neither.
RestoreRefuses ==
    /\ workload = "snapshot"
    /\ \/ GetField(buf, enc.limit - 4, Trailer.crc) # Crc(enc.limit - 4)
       \/ GetNum(Source, 0, HeaderGet.version) # Fmt.version

DecodeBlock ==
    /\ step = "decode block"
    /\ IF RestoreRefuses THEN step' = "panicked" /\ UNCHANGED dec
       ELSE /\ dec' = [limit |-> HeaderLength + GetNum(Source, 0, HeaderGet.blockLength),
                       group |-> 0, index |-> 0, count |-> 0, length |-> 0, at |-> -1,
                       block |-> GetFields(Source, HeaderLength, Fmt.get), groups |-> <<>>]
            /\ step' = "decode group"
    /\ UNCHANGED <<setup, pass, r, buf, enc, journal, frames>>

DecodeGroup ==
    /\ step = "decode group" /\ dec.group < Len(Fmt.groups)
    /\ dec' = [dec EXCEPT !.limit = @ + GroupHeaderLength,
                          !.group = @ + 1,
                          !.index = 0,
                          !.length = GetNum(Source, dec.limit, GroupHeader.blockLength),
                          !.count = GetNum(Source, dec.limit, GroupHeader.numInGroup),
                          !.at = 0,
                          !.groups = Append(@, <<>>)]
    /\ step' = "decode element"
    /\ UNCHANGED <<setup, pass, r, buf, enc, journal, frames>>

DecodeElem ==
    /\ step = "decode element" /\ dec.index < dec.count
    /\ LET g     == dec.group
           at    == dec.limit
           limit == at + dec.length
           size  == IF Fmt.groups[g].varData THEN GetNum(Source, limit, F(0, VarDataLength)) ELSE 0
           elem  == [fields |-> GetFields(Source, at, Fmt.groups[g].get),
                     text   |-> [j \in 1..size |-> Source[limit + VarDataLength + j - 1]]]
       IN  dec' = [dec EXCEPT !.index = @ + 1, !.at = at,
                              !.limit = IF Fmt.groups[g].varData THEN limit + VarDataLength + size
                                        ELSE limit,
                              !.groups[g] = Append(@, elem)]
    /\ UNCHANGED <<setup, pass, r, step, buf, enc, journal, frames>>

EndDecodeGroup ==
    /\ step = "decode element" /\ dec.index = dec.count
    /\ step' = "decode group"
    /\ UNCHANGED <<setup, pass, r, buf, enc, journal, frames, dec>>

DecodeEnd ==
    /\ step = "decode group" /\ dec.group = Len(Fmt.groups)
    /\ r' = r + 1
    /\ step' = "next"
    /\ UNCHANGED <<setup, pass, buf, enc, journal, frames, dec>>

Stopped == (step = "panicked" \/ pass = "done") /\ UNCHANGED codecVars

CodecNext ==
    \/ NextMessage \/ NextPass
    \/ EncodeBlock \/ EncodeGroup \/ EncodeElem \/ EndGroup \/ EncodeTrailer \/ EncodeEnd
    \/ DecodeBlock \/ DecodeGroup \/ DecodeElem \/ EndDecodeGroup \/ DecodeEnd
    \/ Stopped

CodecSpec == CodecInit /\ [][CodecNext]_codecVars

-----------------------------------------------------------------------------
(* Properties.                                                             *)

\* What a decoder has read when it is through is the message that was encoded,
\* every field of every element, although the buffer still holds what
\* earlier messages left in it; and it has read to the end of the frame.
DecodedIsEncoded ==
    step = "decode group" /\ dec.group = Len(Fmt.groups) =>
        /\ [block |-> dec.block, groups |-> dec.groups] = Message(Number)
        /\ dec.limit = Cardinality(DOMAIN Source)

\* A buffer of 64 + cap * 64 + levels * 2 * 32 bytes holds the image of every
\* book and its checksum (the "~64 B/order" of the snapshot programs), and
\* restore refuses none of these images: the snapshot program never panics.
\* The journal's scratch buffer has no such rule.
SnapshotFits == workload = "snapshot" => step # "panicked"
=============================================================================
