SPECIFICATION Spec
CONSTANTS
    w1 = w1
    w2 = w2
    Workers = {w1, w2}
    RetryLimit = 1
    MaxOps = 2
    MaxFaults = 2
    NoJob = NoJob
    NoRun = NoRun
SYMMETRY Symmetric
INVARIANTS TypeOK OneSender OncePerRequest SentForThisRequest
CHECK_DEADLOCK FALSE
