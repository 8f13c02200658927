\* A session of one document: edits, closes and reopenings, reloads by the
\* manifest and by the grammar file, quarantine after two failures; the text
\* "b" is too large to analyze.
CONSTANTS
    Uri <- MCOneUri
    About <- MCAbout
    Name = {"w", "mine", "theirs"}
    Text = {"a", "b"}
    Big = {"b"}
    Global <- MCGlobal
    Session <- MCSession
    Manifest <- MCManifest
    Languages <- MCLanguages
    File <- MCFile
    ManifestFile = ManifestFile
    QuarantineLimit = 2
    NoPath = NoPath
    NoExt = NoExt
    NoEntry = NoEntry
    NoInstance = NoInstance
    Nothing = Nothing
    MaxVersion = 2
    MaxEdits = 2
SPECIFICATION Spec
INVARIANTS ServedIsCurrent DiagnosticsAccounted StaleIsReported SettledIsFresh
PROPERTIES ReleaseNeedsReport ImplementsInstanceCache
