\* Every task of the registry; up to three samples, so that even and odd
\* medians occur; two units per payload, so that echoes arrive in parts.
SPECIFICATION Spec
CONSTANTS
    PayloadUnits = 2
    DefaultCount = 3
    MaxSamples = 3
    MaxValue = 3
    SmokeWarmup = 1
    SmokeIterations = 1
    BenchWarmup = 1
    BenchIterations = 2
INVARIANTS
    OwnEcho
    NoServerLeft
    PassIsEarned
PROPERTIES
    VerdictOrBlocked
