CONSTANTS
    Session = {1, 2, 3}
    Channel = {1, 2}
    Lobby = 1
    Uid <- MCUid
    Skew <- MCSkew
    MaxAhead = 1
    WhisperChoices <- MCWhisper
    FirstOf <- MCFirstOf
    Present = {2, 3}
    Founder = 2
    MaxEvents = 4
    MaxNow = 2
    MaxForgets = 0
SPECIFICATION Spec
INVARIANTS
    LastKeyIsHeard
    OutsiderIsDeaf
    NobodyStaysMute
CONSTRAINT OneAtATime
CHECK_DEADLOCK FALSE
