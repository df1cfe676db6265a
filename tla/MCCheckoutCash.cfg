\* A cash checkout whose confirmation is served but not answered.
\* There is a last state: every order is decided and nothing is under way.
SPECIFICATION Spec
CHECK_DEADLOCK FALSE
CONSTANTS
    Books = {b1}
    Orders = {o1}
    NoKey = NoKey
    NoReturn = NoReturn
    NoOrder = NoOrder
    Threads = {t1}
    Beat = beat
    Cart <- OneOfEach
    MaxItem = 1
    InStock = 1
    MaxTries = 1
    MaxStaff = 0
INVARIANTS
    CancelledSellsNothing
