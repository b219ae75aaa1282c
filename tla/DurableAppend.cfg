\* Batches of up to 3 over 1 to 2 warm-up and 1 to 4 measured entries, so that
\* short last batches occur in both; zeros are written in chunks that end
\* inside an entry.
SPECIFICATION Spec
CONSTANTS
    MaxWarmup = 2
    MaxIterations = 4
    MaxBatch = 3
    EntryBytes = 2
    ZeroChunk = 3
INVARIANTS
    CrashKeepsAcked
    SamplesMeasureOwnBatch
