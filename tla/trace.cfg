\* Fair runs over every message tree of four messages, a channel of two slots.
SPECIFICATION FairSpec
CONSTANTS
    m1 = m1  m2 = m2  m3 = m3  m4 = m4
    Msgs = {m1, m2, m3, m4}
    MaxDepth = 3
    MaxResolvers = 2
    ChanCap = 2
CHECK_DEADLOCK FALSE
INVARIANTS TypeOK EachMessageOnce ExactUnlessLateSpawn
PROPERTY CoordinatorReturns
