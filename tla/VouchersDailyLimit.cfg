SPECIFICATION ScenarioSpec
CONSTANTS
    v1 = v1
    v2 = v2
    v3 = v3
    n1 = n1
    n2 = n2
    n3 = n3
    s1 = s1
    s2 = s2
    w1 = w1
    w2 = w2
    Vouchers = {v1, v2, v3}
    Nonces = {n1, n2, n3}
    Sessions = {s1, s2}
    Wallets = {w1, w2}
    NonceOf <- MCOwnNonce
    SessionOf <- MCSessionOf
    AmountOf <- MCAmountOf
    ExpiryOf <- MCSoon
    WalletOf <- MCWalletOf
    SessionExpiry <- MCSessionExpiry
    DailyLimit <- MCLimitOne
    Requests = {r1}
    Settlers = {p1}
    NoVoucher = NoVoucher
    NoTime <- MCNoTime
    Price = 1
    CacheTTL = 2
    MaxBatch = 2
    WalletMaxBatch = 2
    SettlementKey = "owner"
    ReceiptsMayBeLost = FALSE
    MaxCrashes = 0
    MaxOps = 2
    MaxNow = 3
INVARIANTS
    AcceptedWithinDailyLimit
CHECK_DEADLOCK FALSE
