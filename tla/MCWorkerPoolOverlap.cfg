\* Clients that overlap: a worker takes a request from a handler, dispatch is
\* left sending to nobody, and no request is served any more.
CONSTANTS
    Workers = {w1, w2}
    Conns = {c1, c2, c3}
    NoReq = NoReq
SPECIFICATION FairSpec
PROPERTIES
    EveryRequestAnswered
CHECK_DEADLOCK FALSE
