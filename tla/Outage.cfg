SPECIFICATION Spec
CONSTANTS
    short = short
    long = long
    Blank = Blank
    Absent = Absent
    Main = main
    Watcher = watcher
    Daemon = daemon
    Files = {1}
    Text <- MCText
    NChunks <- MCNChunks
    MaxChunks = 2
    Triggers = {}
    OneShots = {}
    Forced = {}
    MaxRetries = 3
    EditKinds = {}
    MaxEdits = 0
    FaultKinds = {"outage"}
    MaxFaults = 1
INVARIANTS
    UpToDateMeansIndexed
