\* Software name containing the processor name, software listed first:
\* the processor search stops at the software dependency.
CONSTANTS
    Jobs = {j1, j2}
    NoJob = NoJob
    CNull = CNull
    JNull = JNull
    Def <- MCDefOverlap
    StartsWith <- MCStartsWith
    NameContains <- MCNameContainsOverlap
    Entries = {"handle", "open"}
    Options <- MCAskUser
    PendingRet <- MCPendingEAGAIN
    NetFail = FALSE
    EmbedDeps = FALSE
    LostResponse = FALSE
    PersistFail = FALSE
    Crash = FALSE
    ServerRejects = FALSE
    InitDeps <- MCInitDepsOverlap
    InitOEs <- MCNoOEs
    InitDisks <- MCInitDisksFresh
    MaxReqs = 4
SPECIFICATION Spec
PROPERTY NoDuplicateCreate
