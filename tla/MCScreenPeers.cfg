CONSTANTS
    Peers = {p1, p2}
    Contexts = {c1, c2, c3}
    None = None
    MaxPending = 1
    MaxDispatches = 2
    MaxOps = 1
SPECIFICATION Spec
SYMMETRY Symmetry
INVARIANTS NoFreedContextIsUsed EveryPeerIsKnown WaitingFrameIsPosted NoFrameOutlivesItsPeer AttachedSoundIsPulled
PROPERTY IsMailbox
CHECK_DEADLOCK FALSE
