CONSTANTS
    Session = {1, 2}
    Channel = {1, 2}
    Lobby = 1
    Uid <- MCUid
    Skew <- MCNoSkew
    MaxAhead = 20
    WhisperChoices <- MCWhisper
    FirstOf <- MCFirstOf
    Present = {1, 2}
    Founder = 1
    MaxEvents = 3
    MaxNow = 2
    MaxForgets = 1
SPECIFICATION Spec
INVARIANTS
    KeysKeepTheirEpoch
PROPERTIES
    NeverAnOlderKey
CHECK_DEADLOCK FALSE
