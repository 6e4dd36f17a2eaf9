\* One operation of any path and treasury, two workers, one person; two transfers, three people.
SPECIFICATION CapitalSpec
CONSTANTS
    Ops = {o1}
    Paths = {"VAULT_TO_BINANCE", "VAULT_TO_HYPERLIQUID", "BINANCE_TO_VAULT", "HYPERLIQUID_TO_VAULT"}
    Providers = {"SAFE_SPENDING_LIMIT", "NOTILT_VAULT"}
    Workers = {w1, w2}
    Browsers = {b1}
    None = none
    MaxAttempts = 2
    MaxPosts = 1
    Transfers = {t1, t2}
    Persons = {u1, u2, u3}
    Hashes = {1, 2, 3}
    Proposer = u1
    Nobody = nobody
    MaxBalance = 2
SYMMETRY CapitalSymmetry
INVARIANTS CapitalTypesOK SettledIsMoved PaidOnItsOwn
PROPERTIES ImplementsWriteAhead ReservesSoundly
CHECK_DEADLOCK FALSE
