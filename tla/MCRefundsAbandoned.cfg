CONSTANTS
    Refunds = {f1, f2}
    Workers = {w1, w2}
    PaymentAmount = 3
    Amounts = {1}
    MaxRetries = 3
    MaxCreators = 1
    MaxDuplicates = 0
    MaxFailures = 0
    MaxSlow = 0
    NoWorker = NoWorker
    NoJob = NoJob
SPECIFICATION Spec
INVARIANT NoTaskLost
