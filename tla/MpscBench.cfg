\* Two producers, as in the benchmark; a ring of four, wrapped twice by the
\* free producers and by two iterations of bursts of two.
SPECIFICATION BenchSpec
CONSTANTS
    Producers = {p1, p2}
    Cap = 4
    MaxBurst = 3
    MaxDrain = 3
    Total = 8
    Size = 2
    Iters = 2
INVARIANTS
    Inv
    IterationExact
PROPERTIES
    RefinesFifo
    ClaimedIsDelivered
    BenchEnds
