CONSTANTS
    ValidateFrames = 8
    EchoHoldFrames = 9
    PendingCap = 8
    MaxBatch = 2
    MaxTimers = 1
    MaxChanges = 1
SPECIFICATION Spec
INVARIANTS
    PttFollowsKey
    MutedIsMuted
    EchoIsCaught
    EchoIsRevoked
    SpeechGetsThrough
PROPERTIES
    BackfillIsTheUtterance
