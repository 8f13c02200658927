\* Up to three declarations, four ways to initialize, four manifests in each of
\* two folders. A router never stops taking manifest changes.
CONSTANTS
    Name <- MCName
    Doc <- MCDoc
    Media <- MCMedia
    Declarations <- MCDeclarations
    Host <- MCHost
    Setups <- MCSetups
    Folder <- MCFolder
    Contents <- MCContents
    Spelling <- MCSpelling
    MaxEdits = 2
    Cwd <- Outer
    NoPath = NoPath
    NoExt = NoExt
    NoEntry = NoEntry
    Absent = Absent
    Null = Null
    Wrong = Wrong
SPECIFICATION Spec
INVARIANTS TiersAreDeclared MostSpecificServes TiesReported
PROPERTY FolderIsolation
