\* A server holding only the older processor, transport failures: the
\* return value of acvp_oe_handle after ORed step results.
CONSTANTS
    Jobs = {j1, j2}
    NoJob = NoJob
    CNull = CNull
    JNull = JNull
    Def <- MCDef
    StartsWith <- MCStartsWith
    NameContains <- MCNameContains
    Entries = {"handle", "open"}
    Options <- MCAskUser
    PendingRet <- MCPendingEAGAIN
    NetFail = TRUE
    EmbedDeps = FALSE
    LostResponse = FALSE
    PersistFail = FALSE
    Crash = FALSE
    ServerRejects = FALSE
    InitDeps <- MCInitDepsOld
    InitOEs <- MCInitOEs
    InitDisks <- MCInitDisksFresh
    MaxReqs = 4
SPECIFICATION Spec
PROPERTY HandleRetIsStepErrno
