\* Books of up to four occupied levels and four orders; records of up to three
\* entries with a text of up to two bytes, the longest of which does not fit
\* the scratch buffer.
SPECIFICATION CodecSpec
CONSTANTS
    Cap = 4
    Levels = 2
    MaxEntries = 3
    MaxText = 2
    ScratchLength = 214
    Warmup = 1
    Iters = 2
INVARIANTS
    DecodedIsEncoded
    SnapshotFits
