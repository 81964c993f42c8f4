CONSTANTS
    Addons <- MCAddonsSet
    Radio = 2
    Versions = {1}
    DefaultOn = {1}
    MaxToken = 6
    MaxTasks = 1
    MaxFaults = 1
SPECIFICATION Spec
INVARIANTS NothingOutlivesItsAddon TaskKnowsItsInstance
PROPERTY LastCopyIsKept
