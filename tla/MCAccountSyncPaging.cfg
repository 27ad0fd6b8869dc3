CONSTANTS
    inBasic = inBasic
    inSuper = inSuper
    basic = basic
    super = super
    NoRow = NoRow
    Gone = Gone
    Token = {t1, t2}
    Worker = {w1}
    Content <- MCContent
    Pool <- MCPool
    PoolOf <- MCPoolOf
    BatchLimit = 1
    MaxRevision = 3
SPECIFICATION FairSpec
PROPERTY EventuallyConsistent
