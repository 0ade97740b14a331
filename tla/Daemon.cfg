SPECIFICATION FairSpec
CONSTANTS
    short = short
    long = long
    Blank = Blank
    Absent = Absent
    Main = main
    Watcher = watcher
    Daemon = daemon
    Files = {1, 2}
    Text <- MCText
    NChunks <- MCNChunks
    MaxChunks = 2
    Triggers = {}
    OneShots = {}
    Forced = {}
    MaxRetries = 3
    EditKinds = {"save", "rename"}
    MaxEdits = 2
    FaultKinds = {"outage", "connection", "crash"}
    MaxFaults = 2
INVARIANTS
    TypeOK
    FirstChunksOfOneVersion
    ExactUnlessFault
    NoChangeForgotten
PROPERTIES
    ChangesRecorded
    ImplementsIndex
