CONSTANTS
    Requests = {q1, q2}
    Bodies = {b1}
    MaxActive = 2
    MaxSlow = 0
    MaxLate = 0
    NoRequest = NoRequest
SPECIFICATION Spec
INVARIANT ExecutedOnce
