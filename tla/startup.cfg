\* Starts, crashes and restarts of the process, its configuration and its tunnel.
SPECIFICATION FairSpec
CONSTANTS
    MaxKeys = 2
    Missing = Missing  Malformed = Malformed
    NoFile = NoFile  Partial = Partial
    Edits <- OperatorEdits
    MaxEdits = 1
    HalfWord = 128
    SectionFlags = {2}
    MaxTries = 2
    MaxRounds = 2
    Relays = {r1}
    EventCap = 2
    MaxReports = 2
CHECK_DEADLOCK FALSE
INVARIANTS TypeOK StartsAgain SettingsKept PingsInTime LatestTunnel
PROPERTY SignalEnds
