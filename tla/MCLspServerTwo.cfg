\* Two documents of one folder, one served by a bundled language until a
\* manifest takes its extension over; quarantine at the first failure.
CONSTANTS
    Uri <- MCUri
    About <- MCAbout
    Name = {"w", "mine", "theirs"}
    Text = {"a"}
    Big = {}
    Global <- MCGlobal
    Session <- MCSession
    Manifest <- MCManifest
    Languages <- MCLanguages
    File <- MCFile
    ManifestFile = ManifestFile
    QuarantineLimit = 1
    NoPath = NoPath
    NoExt = NoExt
    NoEntry = NoEntry
    NoInstance = NoInstance
    Nothing = Nothing
    MaxVersion = 2
    MaxEdits = 1
SPECIFICATION Spec
INVARIANTS SettledIsFresh
