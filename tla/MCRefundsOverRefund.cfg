CONSTANTS
    Refunds = {f1, f2}
    Workers = {w1}
    PaymentAmount = 3
    Amounts = {2}
    MaxRetries = 1
    MaxCreators = 2
    MaxDuplicates = 0
    MaxFailures = 0
    MaxSlow = 0
    NoWorker = NoWorker
    NoJob = NoJob
SPECIFICATION Spec
INVARIANT NeverOverRefunded
