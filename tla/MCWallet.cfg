CONSTANTS
    Wallets = {w1}
    Requests = {r1, r2, r3, r4}
    Amounts = {0, 1, 2}
    MaxBalance = 2
    NoRequest = NoRequest
SPECIFICATION FairSpec
INVARIANTS TypeOK LockProtectsRow LedgerExplainsBalance
PROPERTIES OnlyActiveWalletMoves AtomicAccount EveryCallReturns
