SPECIFICATION FairSpec
CONSTANTS
    w1 = w1
    w2 = w2
    Workers = {w1, w2}
    Budget = 1
    Lease = 2
    Expiry = 3
    MinAge = 2
    SentKept = 1
    FailedKept = 2
    RetryLimit = 1
    MaxFaults = 3
    NoJob = NoJob
    NoRun = NoRun
INVARIANTS TypeOK NewestKeepsRow ResentOnlyIfLost VerdictIsTrue
PROPERTIES VerdictIsFinal EveryDeliverySettles
