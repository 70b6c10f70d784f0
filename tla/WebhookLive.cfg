SPECIFICATION FairSpec
CONSTANTS
    w1 = w1
    Workers = {w1}
    RetryLimit = 1
    MaxOps = 1
    MaxFaults = 1
    NoJob = NoJob
    NoRun = NoRun
PROPERTY EveryDeliverySettles
CHECK_DEADLOCK FALSE
