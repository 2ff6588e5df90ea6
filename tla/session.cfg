\* Fair runs of four overlapping requests, three slots, two subscriptions.
SPECIFICATION FairSpec
CONSTANTS
    r1 = r1  r2 = r2  r3 = r3  r4 = r4
    Requests = {r1, r2, r3, r4}
    MaxInflight = 3
    MaxSubs = 2
    MaxBroadcasts = 1
CHECK_DEADLOCK FALSE
INVARIANTS CountExact SubscriptionLimit StreamsCancellable
PROPERTIES UnsubscribedEnds SessionDrains
