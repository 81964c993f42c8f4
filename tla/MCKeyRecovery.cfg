CONSTANTS
    Client = {1, 2}
    Newcomer = 1
    Talkers = {1, 2}
    Reachable = {1, 2}
    Epochs = {1, 2}
    MaxChats = 2
    MaxUnasked = 17
SPECIFICATION RecoverySpec
INVARIANTS
    KeepsAsking
PROPERTIES
    SplitEnds
    ServerScopeConverges
