SPECIFICATION Spec
CONSTANTS
    p1 = p1
    p2 = p2
    f1 = f1
    bad = bad
    s1 = s1
    s2 = s2
    gerber = gerber
    drill = drill
    header = header
    code = code
    Procs = {p1, p2}
    Windows = TRUE
    Codes <- MCCodes
    Code002 <- Cool1
    Frames = {f1}
    BadFrames = {bad}
    LegacyDirs <- MCLegacyDirs
    Inputs <- MCInputs
    MaxIndex = 2
    StateCodes <- MCStateCodes
    Migrated <- Cool1
    RemoteFrames <- MCRemoteFrames
    Frame002 = bad
    MaxCaptures = 2
    Target = 2
    MaxTasks = 2
    MaxTries = 3
    Wanted = 3
    FirstIndex = 4
    MaxAttempts = 4
    Blocks = 3
    MaxFile = 7
    MaxRetries = 2
    MaxFrame = 9
    DataBytes = {0, 34, 255}
    Noise = {0, 1, 7, 8, 9, 22, 34, 104, 255}
    MaxErrors = 2
    States = {s1, s2}
    KeepSlots = {1, 2}
    MaxFrames = 2
    HashedFiles = {gerber, drill}
    Trees <- MCTrees
    MaxMoves = 2
    SrunFiles = {header, code}
    SrunTrees <- MCSrunTrees
    MaxEdits = 2
SYMMETRY Symmetry
INVARIANTS
    StoresTypeOK
    LibraryTruth
    MigrationAllOrNothing
    GeneratedBacked
    ApprovedComplete
    CountedOnDisk
    DeliveredExact
    FramesAgreed
PROPERTIES
    ApprovedKept
CHECK_DEADLOCK FALSE
