\* One reader of the chain at a time: blocks, states, a message, account feeds.
SPECIFICATION FairSpec
CONSTANTS
    p1 = p1  p2 = p2
    MaxSeqno = 3
    Shards = {s0, s1}
    ShardSteps = {0, 1, 2}
    MaxTop = 5
    TxCount <- Counts
    PageSize = 2
    MaxLT = 2
    Balances = {5, 6}
    Params <- TwoParams
    Cells = {cell}
    NoCell = NoCell
    MaxTxs = 5
    ListSize = 2
    Watched = {a1, a2}
    MaxFeedLT = 3
    Wanted = {1, 3}
    ChannelSize = 1
    Requests <- AllRequests
    MaxNewest = 3
    MaxAccountTxs = 3
    TxPage = 2
    FloatBits = 3
CHECK_DEADLOCK FALSE
INVARIANTS
    TypeOK StreamExact MessageNotSkipped FeedContiguous
    OneSnapshot NotFoundMeansAbsent NumbersExact
PROPERTIES BlocksDelivered StateCatchesUp InclusionNoticed FeedsEnd AnsweredOnce
