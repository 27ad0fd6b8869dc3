CONSTANTS
    inBasic = inBasic
    inSuper = inSuper
    basic = basic
    super = super
    NoRow = NoRow
    Gone = Gone
    Token = {t1}
    Worker = {w1}
    Content <- MCContent
    Pool <- MCPool
    PoolOf <- MCPoolOf
    BatchLimit = 2
    MaxRevision = 2
SPECIFICATION RedisFairSpec
PROPERTY EventuallyConsistent
