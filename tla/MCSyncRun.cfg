\* Two books, one ISBN; the command among changes and losses.
SPECIFICATION Spec
CONSTANTS
    Books = {b1, b2}
    Isbns = {i1}
    NoIsbn = NoIsbn
    Workers = {p1}
    Command = Command
    Nobody = Nobody
    MaxTries = 1
    MaxRetries = 0
    MaxLate = 1
    MaxChanges = 3
    MaxRuns = 1
SYMMETRY Symmetry
INVARIANTS
    RegisterIsCurrent
    RunSynchronisesListed
PROPERTIES
    RejectedByStaleRow
\* The catalogue is at rest once its changes are delivered.
CHECK_DEADLOCK FALSE
