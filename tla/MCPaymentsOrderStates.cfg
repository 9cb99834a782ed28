CONSTANTS
    Orders = {o1}
    Payments = {p1, p2}
    Calls = {c1, c2}
    MaxActive = 1
    MaxCrashes = 0
SPECIFICATION Spec
PROPERTY OrderTransitionsValid
