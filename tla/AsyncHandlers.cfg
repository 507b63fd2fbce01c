SPECIFICATION FairSpec
CONSTANTS
    l1 = l1
    l2 = l2
    w1 = w1
    w2 = w2
    j1 = j1
    j2 = j2
    j3 = j3
    None = None
    Launchers <- MCLaunchers
    Workers <- MCWorkers
    Jobs <- MCJobs
    QueueCapacity = 1
CHECK_DEADLOCK FALSE
PROPERTIES
    AcceptedJobsEnd
INVARIANTS
    EndsOnce
