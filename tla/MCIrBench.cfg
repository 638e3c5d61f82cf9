SPECIFICATION Spec
CONSTANTS
    MaxSession = 2
    UsbIds = TRUE
    MaxPosts = 4
    Slots = {1, 2}
    MaxLines = 2
    Chunks = 2
    MaxStage = 4
    Letters = {1, 2}
    MaxChunks = 2
INVARIANTS
    BenchTypeOK
    ValidatedTruth
    NoLearningAbandoned
    
    EmittedIsCandidate
    ExportExact
PROPERTIES
    DisconnectEnds
    FlowEnds
CHECK_DEADLOCK FALSE
