\* Two builds, one replacement of a file between any two of their steps.
CONSTANTS
    Entry <- MCEntry
    Place <- MCPlace
    Home <- MCHome
    Node <- MCNode
    Disk <- MCDisk
    Text <- MCText
    Facts <- MCFacts
    Extension <- MCExtension
    Linked <- MCLinked
    Nothing = Nothing
    NoPath = NoPath
    MaxBytes = 2
    MaxBound = 2
    MaxTotal = 3
    MaxRules = 1
    MaxAlts = 1
    MaxBuilds = 2
    MaxRewrites = 1
SPECIFICATION FairSpec
INVARIANTS CompilesAreBounded BuiltFromOwnText DataIsVetted ModulesArePermitted
PROPERTIES BuildsEnd
