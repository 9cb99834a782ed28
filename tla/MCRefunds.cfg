CONSTANTS
    Refunds = {f1, f2, f3}
    Workers = {w1, w2}
    PaymentAmount = 3
    Amounts = {0, 1, 2}
    MaxRetries = 1
    MaxCreators = 1
    MaxDuplicates = 0
    MaxFailures = 1
    MaxSlow = 1
    NoWorker = NoWorker
    NoJob = NoJob
SPECIFICATION Spec
SYMMETRY Symmetric
INVARIANTS TypeOK NeverOverRefunded SettledOnce DeadLetterIsFailed PaymentShowsRefunds OneAtATime
PROPERTIES TerminalIsFinal KeepsPromise
