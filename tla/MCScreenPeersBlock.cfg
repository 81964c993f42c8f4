CONSTANTS
    Peers = {p1, p2}
    Contexts = {c1, c2, c3}
    None = None
    MaxPending = 1
    MaxDispatches = 1
    MaxOps = 1
SPECIFICATION Spec
SYMMETRY Symmetry
INVARIANT ThreadsDoNotBlock
CHECK_DEADLOCK FALSE
