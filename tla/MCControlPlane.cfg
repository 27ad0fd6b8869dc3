CONSTANTS
    Worker = {w1, w2}
    MaxVersion = 2
    Free = Free
    NoVersion = NoVersion
    NotLoading = NotLoading
    Token = {t1}
    Caller = {c1, c2}
    Nobody = Nobody
    NoAccount = NoAccount
    NoPatch = NoPatch
    Same = Same
    NoWindow = NoWindow
    Never = Never
    Mode = {"auto", "fast"}
    Limit <- MCLimit
    Span = 1
    Tier = {"super"}
    Named = {"super"}
    Left = {1}
    Backends = {"local", "sql", "redis"}
    Unread = Unread
    Interval = 1
    MaxTime = 1
    MaxWork = 2
    MaxAdmin = 1
    MaxFaults = 1
SPECIFICATION ControlSpec
INVARIANTS
    ClusterTypeOK
    OneScheduler
    RefreshTypeOK
    EstimateBelowIssued
    CountsExact
    OneOnDemand
PROPERTIES
    ConfigReaches
    RefreshNeverRevives
    EveryBatchEnds
CHECK_DEADLOCK FALSE
