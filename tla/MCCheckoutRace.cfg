\* Two orders want the one unit left; two threads.
\* There is a last state: every order is decided and nothing is under way.
SPECIFICATION Spec
CHECK_DEADLOCK FALSE
CONSTANTS
    Books = {b1}
    Orders = {o1, o2}
    NoKey = NoKey
    NoReturn = NoReturn
    NoOrder = NoOrder
    Threads = {t1, t2}
    Beat = beat
    Cart <- OneOfEach
    MaxItem = 1
    InStock = 1
    MaxTries = 1
    MaxStaff = 0
SYMMETRY CheckoutSymmetry
INVARIANTS
    TypeOK
    PaidIsSettled
    SaleIsAccounted
