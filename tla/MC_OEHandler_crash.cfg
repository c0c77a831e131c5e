\* Two sessions; the process may crash, the configuration may not be
\* written, a POST answer may be lost, the server may reject.
CONSTANTS
    Jobs = {j1, j2}
    NoJob = NoJob
    CNull = CNull
    JNull = JNull
    Def <- MCDef
    StartsWith <- MCStartsWith
    NameContains <- MCNameContains
    Entries = {"handle", "open"}
    Options <- MCAskUser
    PendingRet <- MCPendingEAGAIN
    NetFail = FALSE
    EmbedDeps = FALSE
    LostResponse = TRUE
    PersistFail = TRUE
    Crash = TRUE
    ServerRejects = TRUE
    InitDeps <- MCInitDeps
    InitOEs <- MCInitOEs
    InitDisks <- MCInitDisks
    MaxReqs = 4
SPECIFICATION Spec
INVARIANT TypeOK
PROPERTY PersistedOEIdMatches
PROPERTY ImplementsIdLifecycle
