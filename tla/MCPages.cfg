SPECIFICATION MCSpec
CONSTANTS
    a = a
    t1 = t1
    t2 = t2
    r1 = r1
    Streams = {a}
    Senders = {t1, t2}
    Receivers = {r1}
    TxOf <- ClonedSender
    RxOf <- OneReceiver
    Pages = {g1, g2}
    Permits = {k1, k2, k3}
    MaxGeneration = 20
    MaxBegins = 3
    Jobs <- MCJobs
    BlockSize = 512
    Priors <- MCPriors
    FetchBatchRows = 2
INVARIANTS
    PermitsStandForPages
    InOrder
    RowsArriveInOrder
PROPERTIES
    PagesComeHome
CHECK_DEADLOCK FALSE
