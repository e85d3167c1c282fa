\* Every window holds two explicit requests or one adaptive one.  The global
\* window is the shorter, so a late charge, its end and a new window all fit into
\* the time, and a client's window outlives it.  One restart of Redis.
SPECIFICATION Spec
CONSTANTS
    c1 = c1
    c2 = c2
    r1 = r1
    r2 = r2
    r3 = r3
    Clients = {c1, c2}
    Global = Global
    Requests = {r1, r2, r3}
    ClientOf <- MCClientOf
    KindOf <- MCKindOf
    ExplicitWeight = 1
    AdaptiveWeight = 2
    ClientCapacity = 2
    GlobalCapacity = 2
    ClientWindowSeconds = 2
    GlobalWindowSeconds = 1
    Second = 2
    RedisTimeout = 1
    DeadlineTicks = 2
    Horizon = 0
    MaxNow = 4
    MaxRestarts = 1
INVARIANTS
    TypeOK
    WithinCapacity
    OutcomeMatchesCharge
    RetryAfterOutlastsWindow
    QuietRetryFits
    LedgerExact
    BurstBound
