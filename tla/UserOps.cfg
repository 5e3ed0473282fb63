SPECIFICATION OrderedSpec
CONSTANTS
    w1 = w1
    o1 = o1
    o2 = o2
    Wallets <- MCWallets
    Ops <- MCOps
    WalletOf <- MCWalletOf
    Calls = {1, 2, 3}
    None = None
PROPERTIES LedgerKept UnheldRowStays 
CHECK_DEADLOCK FALSE
