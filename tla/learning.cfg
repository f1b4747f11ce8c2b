SPECIFICATION FairLearning
CONSTANTS
    Runs = {r1, r2}
    InitialCapacity = 1
    CapMax = 2
    Caps = {1}
    Minimum = 2
    MaxSamples = 2
    Readings <- MCReadings
    Calm <- MCQuiet
INVARIANTS
    PauseIsWatched
PROPERTIES
    ResumeNeedsEvidence
    GrowthNeedsIdleCpu
    DecisionsAreAbstracted
    QueueIsNotStranded
