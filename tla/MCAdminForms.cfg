\* Two orders for two books; an old form is saved over a sale.  No returns.
SPECIFICATION AdminSpec
CONSTANTS
    Books = {b1, b2}
    Orders = {o1, o2}
    Keys = {}
    NoKey = NoKey
    NoReturn = NoReturn
    NoForm = NoForm
    Reasons = {}
    Workers = {w1}
    MaxItem = 1
    MaxReceived = 1
    MaxAdjusted = 0
    MaxDeaths = 0
    MaxTyped = 0
    MaxForms = 1
INVARIANTS
    ReservedWithinStock
PROPERTIES
    OnlyFormsMisstate
    CoveredIsReleased
