\* One book, whose id is spelt in two ways; two reads race the writes of one
\* client, with every failure.
SPECIFICATION Spec
CONSTANTS
    Books = {b1}
    Spellings = {canonical, respelt}
    Canonical = canonical
    Readers = {r1, r2}
    Writers = {w1}
    Ttl = 2
    MaxRequest = 1
SYMMETRY Symmetry
INVARIANTS
    TypeOK
    FreshUnlessOverlapped
    WithdrawnIsNotOffered
    BoundedStaleness
