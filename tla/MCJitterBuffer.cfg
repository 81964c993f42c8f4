CONSTANTS
    Voices = {1, 2}
    Streams = {1}
    TargetMin = 1
    TargetFirst = 2
    TargetMax = 2
    Grace = 1
    ShedCeiling = 2
    ShedFloor = 1
    VoiceCap = 3
    StreamStart = 2
    StreamCeiling = 2
    StreamFloor = 2
    StreamGap = 1
    PluginCap = 1
    SinkFrames = 2
    MaxChunk = 1
SPECIFICATION Spec
PROPERTIES
    KeepsPlaying
    BurstsPlayWhole
    NothingPlayableWaits
    SilentVoiceLetsGo
    BacklogIsHeard
    LatencyDecays
