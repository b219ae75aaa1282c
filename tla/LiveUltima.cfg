\* Two levels a side, two orders resting, transactions of two commands in the
\* batch programs; the store keeps two versions, so that a version the
\* serializer has not opened yet falls out of the window.
SPECIFICATION Spec
CONSTANTS
    Cap = 4
    Levels = 2
    PriceMin = 3
    TickSize = 2
    GroupMax = 7
    Quantities = {2}
    FillQuantities = {1}
    Steady = 2
    Warmup = 0
    Iters = 4
    SnapEvery = 2
    ApplyBatch = 2
    Retention = 2
INVARIANTS
    PinnedIsReadable
    ImageIsPinnedBook
    SameBook
    ReplicaIsSameBook
PROPERTIES
    RunEnds
