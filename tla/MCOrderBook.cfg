\* Three slots, two levels a side, four inserts of 3 and fills of 2:
\* slots are recycled, the best level empties, the second fill of an
\* order is capped.
CONSTANTS
    Cap = 3
    Levels = 2
    PriceMin <- MCPriceMin
    TickSize = 2
    Quantities = {3}
    FillQuantities = {2}
    MaxId = 4
SPECIFICATION Spec
INVARIANTS
    Sound
    BestExact
    AggregatesExact
PROPERTIES
    RefinesAbstractBook
CHECK_DEADLOCK FALSE
