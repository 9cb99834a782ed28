CONSTANTS
    FanoutWorkers = {f1, f2}
    DeliveryWorkers = {d1}
    FilterChoices <- Filters
    MaxEvents = 2
    MaxEndpoints = 2
    MaxDeliveryRetries = 1
    BatchSize = 100
    MaxUnusual = 1
    Notices = {n1}
    Letters = {l1}
    Mailers = {w1, w2}
    MaxMailRetries = 1
    MaxResends = 1
    MaxTroubles = 1
    Nothing = Nothing
    AccountCalls = {c1, c2}
    MaxCodes = 3
    MaxTokens = 1
    NoUser = NoUser
    Shoppers = {s1, s2}
    Editors = {u1}
    CouponTerms <- Terms
    CouponChanges <- Changes
    OrderAmounts = {4, 9}
    NoCap = NoCap
    NoCoupon = NoCoupon
    MerchantCalls = {c1, c2}
    Users = {m1, m2, v1}
    MerchantUsers = {m1, m2}
    MaxApiKeys = 1
    MaxHooks = 1
    MaxSecrets = 1
    NoProfile = NoProfile
    CustomerCalls = {c1, c2}
    Mailboxes = {a1, a2}
    MaxCustomers = 2
    MaxMethods = 2
    Threads = {t1, t2}
    WebRequests = {r1, r2}
    SentIds = {i1}
    Absent = Absent
    Purchases = {o1}
    Price <- Prices
    Sales = {p1, p2}
    Returns = {b1, b2}
    Opening = 4
    MaxLost = 1
    NoPayment = NoPayment
    NoRefund = NoRefund
    Readers = {x1, x2}
    MaxSummaries = 1
    MaxInvoices = 1
    NotCached = NotCached
SPECIFICATION ScenarioFairSpec
INVARIANTS PlatformTypeOK OutboxIsFannedOut StatusTells CodesAreGuarded CouponPromise MoneyIsAccounted 
PROPERTIES RecordsAreKept GrantIsDue TasksEnd
CHECK_DEADLOCK FALSE
