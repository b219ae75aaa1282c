\* Counters of 2 bits: steady up to 3, groups of up to 3, a pool of 4.
CONSTANTS
    Cap = 4
    Levels = 2
    PriceMin = 5
    TickSize = 2
    GroupMax = 3
    SteadyMax = 3
    MaxOps = 9
SPECIFICATION ChurnSpec
INVARIANTS
    LiveMatchesBook
    PoolSuffices
    SnapshotEncodable
    ReplicaFollows
CHECK_DEADLOCK FALSE
