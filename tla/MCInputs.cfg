SPECIFICATION MCSpec
CONSTANTS
    MaxPrompts = 3
    MaxFaults = 4
    NoIndex = NoIndex
    BadIndex = BadIndex
    NoText = NoText
    SeedCounts = {1, 2, 3, 4, 5, 6}
    Lengths = {1, 3, 4}
    Extra = 1
    BucketLists <- MCBuckets
    PerBucket = 3
    Durations = {1, 2, 3, 5, 7, 10}
    Nums = {1, 2, 3, 5}
    Dens = {1, 2, 3, 7, 9}
    Interval = 4
    LowGaps = {3, 5}
    HighGaps = {1, 2}
    Frozen <- MCFrozen
    MaxEdits = 2
    Wholes <- MCWholes
    Halves <- MCHalves
    MaxItems = 2
    MaxBuckets = 1
    Missing = Missing
    NotANumber = NotANumber
    SeedTokens = {1, 2}
    MaxTokens = 2
    MaxTemperature = 1
INVARIANTS
    TextsGivenBack
    PromptsFit
    AcceptedRuns
PROPERTIES
    ArrivalsExact
