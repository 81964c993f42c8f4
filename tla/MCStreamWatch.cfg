CONSTANTS
    Tabs = {s1, s2}
    Users = {u1}
    Channels = {1, 2}
    Where <- MCWhere
    Legacy <- MCLegacy
    None = None
    PollLimit = 1
SPECIFICATION Spec
INVARIANTS WaitingIsWatched PendingIsPolled LinkIsOpen
PROPERTY RequestFollowsClick
