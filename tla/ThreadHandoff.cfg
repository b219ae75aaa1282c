\* A ring of 3 slots goes round four times, with bursts of 1 to 3, drains of
\* up to 3, and a warm-up that is not a multiple of the capacity.  The latency
\* programs make five round trips: a late notification of one can meet the
\* parking of the next.  The park period is capped below a power of two, as
\* 1000 * 2^10 is by 1000000.
SPECIFICATION HandoffSpec
CONSTANTS
    Cap = 3
    Total = 12
    Warmup = 4
    MaxBurst = 3
    MaxDrain = 3
    Rounds = 5
    SpinBudget = 2
    MaxSpins = 2
    MaxYields = 2
    MinPark = 1
    MaxPark = 6
    MaxIdles = 7
INVARIANTS
    NoOverwrite
    Inv
    TimedExcludesWarmup
    BlockingHandoffSound
    SlotsSound
PROPERTIES
    RefinesFifo
    AllComplete
