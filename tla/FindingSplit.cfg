SPECIFICATION SplitSpec
CONSTANTS
    None = None
    m = m
    b = b
    x = x
    a1 = a1
    a2 = a2
    Nodes = {"a", "b"}
    Wallets = {m, b, x, a1, a2}
    Symbols <- SymbolOfUsdc
    RateScale = 100
    AmountLimit = 1000
    MaxPage = 2
    DefaultPage = 1
    ValidationWindow = 1
    MaxClockSkew = 0
    RequiredArbitrators = 2
    ChallengeTtl = 0
    MaxOutstanding = 1
    SessionLifetime = 1
CHECK_DEADLOCK FALSE
PROPERTIES
    ExecutionClosesCase
