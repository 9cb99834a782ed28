CONSTANTS
    Orders = {o1}
    Payments = {p1, p2}
    Calls = {c1, c2, c3}
    MaxActive = 4
    MaxCrashes = 1
SPECIFICATION Spec
SYMMETRY Symmetric
INVARIANTS TypeOK OrderIsBackedByPayment GatewayBacksRecord LedgerMatchesPayment ChargesRecorded
PROPERTIES FailedIsFinal PaymentTransitionsValid OnlyPendingExpires
