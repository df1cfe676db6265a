\* A reader of the page and of the list against two writers.
SPECIFICATION Spec
CONSTANTS
    Languages = {en}
    Readers = {r1}
    Writers = {w1, w2}
    Ttl = 2
    MaxRequest = 1
SYMMETRY Symmetry
INVARIANTS
    TypeOK
    FreshUnlessOverlapped
    BoundedStaleness
