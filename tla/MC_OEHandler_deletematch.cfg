\* --delete-db-entry on a fresh configuration: the dependencies the search
\* finds matching are deleted.
CONSTANTS
    Jobs = {j1, j2}
    NoJob = NoJob
    CNull = CNull
    JNull = JNull
    Def <- MCDef
    StartsWith <- MCStartsWith
    NameContains <- MCNameContains
    Entries = {"handle", "open"}
    Options <- MCDeleteEntry
    PendingRet <- MCPendingEAGAIN
    NetFail = FALSE
    EmbedDeps = FALSE
    LostResponse = FALSE
    PersistFail = FALSE
    Crash = FALSE
    ServerRejects = FALSE
    InitDeps <- MCInitDeps
    InitOEs <- MCInitOEs
    InitDisks <- MCInitDisksFresh
    MaxReqs = 4
SPECIFICATION Spec
PROPERTY DeleteOnlyMismatch
