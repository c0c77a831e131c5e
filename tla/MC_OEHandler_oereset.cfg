\* A configured OE whose dependency no longer matches: the confirmed
\* update or delete is sent to /oes/0 and the OE ID is dropped.
CONSTANTS
    Jobs = {j1, j2}
    NoJob = NoJob
    CNull = CNull
    JNull = JNull
    Def <- MCDef
    StartsWith <- MCStartsWith
    NameContains <- MCNameContains
    Entries = {"handle", "open"}
    Options <- MCAskUser
    PendingRet <- MCPendingEAGAIN
    NetFail = FALSE
    EmbedDeps = FALSE
    LostResponse = FALSE
    PersistFail = FALSE
    Crash = FALSE
    ServerRejects = FALSE
    InitDeps <- MCInitDeps
    InitOEs <- MCInitOEs
    InitDisks <- MCInitDisks
    MaxReqs = 4
SPECIFICATION Spec
PROPERTY ConfiguredIdKept
