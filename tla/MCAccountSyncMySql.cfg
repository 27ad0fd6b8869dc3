CONSTANTS
    inBasic = inBasic
    inSuper = inSuper
    basic = basic
    super = super
    NoRow = NoRow
    Gone = Gone
    Token = {t1}
    Worker = {w1}
    Content <- MCContent
    Pool <- MCPool
    PoolOf <- MCPoolOf
    BatchLimit = 2
    MaxRevision = 2
    MaxStarts = 1
SPECIFICATION MySqlFairSpec
PROPERTY EventuallyConsistent
