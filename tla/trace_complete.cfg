\* trace_complete against running resolvers.
SPECIFICATION Spec
CONSTANTS
    m1 = m1  m2 = m2  m3 = m3  m4 = m4
    Msgs = {m1, m2, m3}
    MaxDepth = 3
    MaxResolvers = 2
    ChanCap = 1
CHECK_DEADLOCK FALSE
INVARIANT CompleteMeansDone
