SPECIFICATION FairSpec
CONSTANTS
    NoEntry = NoEntry
    Addresses = {a1}
    Slices = {e1, e2}
    Subscribers = {s1}
    MaxChanges = 2
    MaxFlips = 1
INVARIANTS
    TracksEndpoints
    NoMissedChange
PROPERTIES
    DownGivenUp
    EventuallySettled
    EventuallySeen
CHECK_DEADLOCK FALSE
