CONSTANTS
    Requests = {q1, q2, q3}
    Bodies = {b1, b2}
    MaxActive = 3
    MaxSlow = 1
    MaxLate = 1
    NoRequest = NoRequest
SPECIFICATION FairSpec
INVARIANTS TypeOK ReplyIsOwn SerialExecutedOnce
PROPERTIES CompletedStays KeyIsReleased
