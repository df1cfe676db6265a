\* Clients retry with one key, return in instalments and race two workers
\* while staff move the stock.
SPECIFICATION FairSpec
CONSTANTS
    Books = {b1}
    Orders = {o1, o2}
    Keys = {k1}
    NoKey = NoKey
    NoReturn = NoReturn
    Reasons = {damaged}
    Workers = {w1, w2}
    MaxItem = 2
    MaxReceived = 2
    MaxAdjusted = 1
    MaxDeaths = 1
INVARIANTS
    TypeOK
    ReservedIsPending
    LedgerReconciles
    SalesAndReturnsReconcile
    ReturnedWithinSold
    CreateRetryAnswered
PROPERTIES
    FirstOutcomeIsFinal
    OverdueIsReleased
