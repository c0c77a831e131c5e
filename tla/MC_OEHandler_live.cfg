\* Liveness: no transport or persistence faults, registration without
\* asking; the server approves every request it can carry out.
CONSTANTS
    Jobs = {j1, j2}
    NoJob = NoJob
    CNull = CNull
    JNull = JNull
    Def <- MCDef
    StartsWith <- MCStartsWith
    NameContains <- MCNameContains
    Entries = {"handle"}
    Options <- MCAutoRegister
    PendingRet <- MCPendingEAGAIN
    NetFail = FALSE
    EmbedDeps = TRUE
    LostResponse = FALSE
    PersistFail = FALSE
    Crash = FALSE
    ServerRejects = FALSE
    InitDeps <- MCInitDeps
    InitOEs <- MCInitOEs
    InitDisks <- MCInitDisks
    MaxReqs = 4
SPECIFICATION LiveSpec
PROPERTY Converges
