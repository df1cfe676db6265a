\* One order, two threads, two attempts of each call, one act of staff (and
\* the deletion of the order that they are editing).
\* There is a last state: every order is decided and nothing is under way.
SPECIFICATION FairSpec
CHECK_DEADLOCK FALSE
CONSTANTS
    Books = {b1, b2}
    Orders = {o1}
    NoKey = NoKey
    NoReturn = NoReturn
    NoOrder = NoOrder
    Threads = {t1, t2}
    Beat = beat
    Cart <- OneOfEach
    MaxItem = 1
    InStock = 1
    MaxTries = 2
    MaxStaff = 1
INVARIANTS
    RemembersTruly
    ToldOnce
    PaidIsReservedWhole
PROPERTIES
    AbandonedStockReturns
    OrderDecidedOnce
