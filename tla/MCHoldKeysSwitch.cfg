CONSTANTS
    Tab = {a, b}
    NoTab = none
    WhisperKey = {"list", "reply"}
    ReplyKeys = {"reply"}
    Profiles <- MCProfiles
    MaxPosted = 1
SPECIFICATION Spec
PROPERTIES
    ReleaseIsHeard
