\* Two entries differing in their plugin stack share a key.
CONSTANTS
    Entry <- MCEntry
    Build <- MCBuild
    NoInstance = NoInstance
    NoPath <- MCNoPath
    QuarantineLimit = 3
SPECIFICATION Spec
INVARIANT NeverShared
