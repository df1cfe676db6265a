\* One order for two books; the locks of those that settle it cross.
SPECIFICATION FairSpec
CONSTANTS
    o1 = o1
    o2 = o2
    k1 = k1
    Books = {1, 2}
    Orders = {o1}
    Keys = {}
    NoKey = NoKey
    NoReturn = NoReturn
    NoBook = NoBook
    Free = Free
    Reasons = {}
    Workers = {w1}
    Clients = {c1, c2}
    Requests <- DeadlockRequests
    MaxItem = 1
    MaxReceived = 1
    MaxAdjusted = 0
    MaxDeaths = 1
INVARIANTS
    TypeOK
    CopiesAreCurrent
    OrderedLocksDoNotDeadlock
PROPERTIES
    TransactionsEnd
