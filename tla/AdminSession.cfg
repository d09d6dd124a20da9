CONSTANTS
    NetSlots = 1
    LinkSlots = 2
    PendSlots = 2
    Links = 2
    Ops = 2
    MaxGrants = 2
    ScopeDepth = 2
    OutCap = 1
    RouterCap = 1
    RxCap = 2
    CmdCap = 2
    ReadBurst = 2
    MaxChains = 2
    FileMax = 3
    NClients = 2
    NConns = 2
    Pfids = {1}
    Configs <- MCConfigs
SPECIFICATION FairSpec
CHECK_DEADLOCK FALSE
INVARIANTS TypeOK AnswerRouted AdmittedCovered StreamKept LossCharged LoadExact
PROPERTIES RequestAnswered
