\* One book, two workers: retries, duplicates, overtaking.
SPECIFICATION FairSpec
CONSTANTS
    Books = {b1}
    Isbns = {}
    NoIsbn = NoIsbn
    Workers = {p1, p2}
    Command = Command
    Nobody = Nobody
    MaxTries = 2
    MaxRetries = 1
    MaxLate = 4
    MaxChanges = 2
    MaxRuns = 0
INVARIANTS
    TypeOK
    RegisterIsCurrent
PROPERTIES
    SyncEnds
\* The catalogue is at rest once its changes are delivered.
CHECK_DEADLOCK FALSE
