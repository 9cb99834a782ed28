CONSTANTS
    Purchases = {o1}
    Price <- Prices
    Sales = {p1, p2}
    Returns = {}
    Opening = 4
    MaxLost = 0
    NoPayment = NoPayment
    NoRefund = NoRefund
    Readers = {x1}
    MaxSummaries = 1
    MaxInvoices = 0
    NotCached = NotCached
SPECIFICATION BooksSpec
INVARIANT CacheFollowsBooks
CHECK_DEADLOCK FALSE
