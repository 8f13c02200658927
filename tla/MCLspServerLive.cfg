\* One document, a manifest that comes and goes, a grammar file that is edited:
\* what must eventually happen.
CONSTANTS
    Uri <- MCOneUri
    About <- MCAbout
    Name = {"w", "mine", "theirs"}
    Text = {"a"}
    Big = {}
    Global <- MCGlobal
    Session <- MCSession
    Manifest <- MCTwo
    Languages <- MCLanguages
    File <- MCFile
    ManifestFile = ManifestFile
    QuarantineLimit = 1
    NoPath = NoPath
    NoExt = NoExt
    NoEntry = NoEntry
    NoInstance = NoInstance
    Nothing = Nothing
    MaxVersion = 2
    MaxEdits = 2
SPECIFICATION FairSpec

PROPERTIES ScheduledIsAnalyzed EditsAreReloaded
