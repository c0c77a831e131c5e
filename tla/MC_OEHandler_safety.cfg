\* Two sessions, both entry points, network failures, asked user,
\* server approves; no faults that lose a request.
CONSTANTS
    Jobs = {j1, j2}
    NoJob = NoJob
    CNull = CNull
    JNull = JNull
    Def <- MCDef
    StartsWith <- MCStartsWith
    NameContains <- MCNameContains
    Entries = {"handle", "open"}
    Options <- MCAnyOptions
    PendingRet <- MCPendingEAGAIN
    NetFail = TRUE
    EmbedDeps = TRUE
    LostResponse = FALSE
    PersistFail = FALSE
    Crash = FALSE
    ServerRejects = FALSE
    InitDeps <- MCInitDeps
    InitOEs <- MCInitOEs
    InitDisks <- MCInitDisks
    MaxReqs = 4
SPECIFICATION Spec
PROPERTY OEDocRefsResolved
PROPERTY NoDuplicateCreate
PROPERTY SubmitsOnlyWhenNeeded
