\* The same system with one sample.
SPECIFICATION Spec
CONSTANTS
    PayloadUnits = 2
    DefaultCount = 3
    MaxSamples = 1
    MaxValue = 1
    SmokeWarmup = 1
    SmokeIterations = 1
    BenchWarmup = 1
    BenchIterations = 2
PROPERTIES
    NotReadyIsReported
