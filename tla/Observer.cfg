SPECIFICATION ObserverFairSpec
CONSTANTS
    MaxChanges = 2
    MaxFaults = 2
    MaxEvents = 3
    MaxSubs = 5
INVARIANTS
    StaleIsCovered
PROPERTIES
    CatchesUp
CHECK_DEADLOCK FALSE
