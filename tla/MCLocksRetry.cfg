\* A key is used for two orders at once, stock is moved, requests are repeated.
SPECIFICATION Spec
CONSTANTS
    o1 = o1
    o2 = o2
    k1 = k1
    Books = {1, 2}
    Orders = {o1, o2}
    Keys = {k1}
    NoKey = NoKey
    NoReturn = NoReturn
    NoBook = NoBook
    Free = Free
    Reasons = {"damaged"}
    Workers = {}
    Clients = {c1, c2}
    Requests <- KeyRequests
    MaxItem = 1
    MaxReceived = 1
    MaxAdjusted = 1
    MaxDeaths = 0
SYMMETRY ClientSymmetry
PROPERTIES
    AtomicWarehouse
