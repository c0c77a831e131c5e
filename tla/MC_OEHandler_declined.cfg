\* One session, the user asked before every change, a configuration that
\* names the processor before an upgrade; the user declines to fix it.
CONSTANTS
    Jobs = {j1}
    NoJob = NoJob
    CNull = CNull
    JNull = JNull
    Def <- MCDef
    StartsWith <- MCStartsWith
    NameContains <- MCNameContains
    Entries = {"handle"}
    Options <- MCAskUser
    PendingRet <- MCPendingEAGAIN
    NetFail = FALSE
    EmbedDeps = FALSE
    LostResponse = FALSE
    PersistFail = FALSE
    Crash = FALSE
    ServerRejects = FALSE
    InitDeps <- MCInitDeps
    InitOEs <- MCInitOEs
    InitDisks <- MCInitDisksStale
    MaxReqs = 4
SPECIFICATION Spec
PROPERTY OEDocRefsResolved
