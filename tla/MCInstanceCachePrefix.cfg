\* Two session-wide entries of different sandbox folders share a prefix.
CONSTANTS
    Entry <- MCEntry
    Build <- MCBuild
    NoInstance = NoInstance
    NoPath <- MCNoPath
    QuarantineLimit = 3
SPECIFICATION Spec
PROPERTY ReloadIsForOneEntry
