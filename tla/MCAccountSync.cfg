CONSTANTS
    inBasic = inBasic
    inSuper = inSuper
    basic = basic
    super = super
    NoRow = NoRow
    Gone = Gone
    Token = {t1, t2}
    Worker = {w1}
    Content <- MCContent
    Pool <- MCPool
    PoolOf <- MCPoolOf
    BatchLimit = 2
    MaxRevision = 3
SPECIFICATION FairSpec
INVARIANT TypeOK
INVARIANT NoLostChange
PROPERTY ImplementsReplica
PROPERTY EventuallyConsistent
