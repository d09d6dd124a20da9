CONSTANTS
    NKeys = 2
    NDigests = 4
    Child <- MCChild
    Deep <- MCDeep
    ReserveMax = 2
    Window = 1
    Page = 2
    Wids = 1
    Clients = 2
    PutFiles = 2
    Streams = 1
    Retries = 1
    BodyQueue = 2
    Configs <- MCConfigs
SPECIFICATION FairSpec
INVARIANTS AnswerExact
PROPERTIES SweepSpares RawSpares RequestAnswered ReservationEnds
CHECK_DEADLOCK FALSE
