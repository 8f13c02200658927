\* Five entries, four keys, quarantine after three failures as in the code.
CONSTANTS
    Entry <- MCEntry
    Build <- MCBuild
    NoInstance = NoInstance
    NoPath <- MCNoPath
    QuarantineLimit = 3
SPECIFICATION Spec
INVARIANTS ServesOwnGrammar
PROPERTIES QuarantineFreezes ReloadIsNarrow
