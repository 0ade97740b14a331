SPECIFICATION Spec
CONSTANTS
    short = short
    long = long
    Blank = Blank
    Absent = Absent
    Main = main
    Watcher = watcher
    Daemon = daemon
    Files = {1}
    Text <- MCText
    NChunks <- MCNChunks
    MaxChunks = 2
    Triggers = {t1}
    OneShots = {p}
    Forced = {p}
    MaxRetries = 1
    EditKinds = {"save", "rename"}
    MaxEdits = 1
    FaultKinds = {}
    MaxFaults = 0
INVARIANTS
    SomeVersionComplete
    WorkInv
    CopiesBounded
