CONSTANTS
    Refunds = {f1, f2}
    Workers = {w1}
    PaymentAmount = 3
    Amounts = {1, 2}
    MaxRetries = 1
    MaxCreators = 2
    MaxDuplicates = 1
    MaxFailures = 1
    MaxSlow = 0
    NoWorker = NoWorker
    NoJob = NoJob
SPECIFICATION FairSpec
INVARIANTS NoTaskLost
PROPERTIES EveryRefundSettles
