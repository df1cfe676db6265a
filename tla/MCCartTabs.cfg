\* One customer, two requests at a time, one book.
SPECIFICATION Spec
CONSTANTS
    Books = {b1}
    NoBook = NoBook
    Requests = {r1, r2}
    Gone = Gone
    MaxAdded = 2
    MaxOrders = 2
    MaxSessions = 2
SYMMETRY CartSymmetry
INVARIANTS
    TypeOK
    CartIsWhatWasAsked
    BoughtWasAdded
