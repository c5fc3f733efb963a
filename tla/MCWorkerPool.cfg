\* Three clients, overlapping or one after the other, a pool of two workers.
CONSTANTS
    Workers = {w1, w2}
    Conns = {c1, c2, c3}
    NoReq = NoReq
SPECIFICATION FairSpec
INVARIANTS
    TypeOK
    OneHolder
    NeverWedged
    UniqueIds
PROPERTIES
    WedgeIsForever
    ImplementsService
    SequentialIsServed
\* Once every client has been served, or the pool is wedged, nothing moves.
CHECK_DEADLOCK FALSE
