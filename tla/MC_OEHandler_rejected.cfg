\* Liveness when the server may reject a request.
CONSTANTS
    Jobs = {j1, j2}
    NoJob = NoJob
    CNull = CNull
    JNull = JNull
    Def <- MCDef
    StartsWith <- MCStartsWith
    NameContains <- MCNameContains
    Entries = {"handle"}
    Options <- MCAutoRegister
    PendingRet <- MCPendingEAGAIN
    NetFail = FALSE
    EmbedDeps = FALSE
    LostResponse = FALSE
    PersistFail = FALSE
    Crash = FALSE
    ServerRejects = TRUE
    InitDeps <- MCInitDeps
    InitOEs <- MCInitOEs
    InitDisks <- MCInitDisks
    MaxReqs = 4
SPECIFICATION LiveSpec
PROPERTY Converges
