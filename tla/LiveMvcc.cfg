\* Updates (live_mvcc) or inserts and departures (live_mvcc_churn) over a
\* prebuilt book of two orders; a chunk of two order slots; a trigger at every
\* iteration of the timed loop.
SPECIFICATION LiveSpec
CONSTANTS
    Cap = 3
    Levels = 1
    PriceMin = 0
    TickSize = 1
    OrderChunk = 2
    LevelChunk = 1
    Refs = {1, 2, 3, 4, 5, 6, 7, 8, 9, 10, 11, 12}
    MaxId = 4
    MaxGen = 4
    Quantities = {2}
    FillQuantities = {1}
    GroupMax = 7
    Steady = 2
    Warmup = 1
    LiveIters = 2
    SnapEvery = 1
INVARIANTS
    RootsFrozen
    CurrentGenUnshared
    ReadsFrozen
    ImageIsPointInTime
    SendNeverBlocks
    AtMostThreeVersions
PROPERTIES
    EndsWithFullReport
