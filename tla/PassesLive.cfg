SPECIFICATION FairSpec
CONSTANTS
    short = short
    long = long
    Blank = Blank
    Absent = Absent
    Main = main
    Watcher = watcher
    Daemon = daemon
    Files = {1}
    Text <- MCText
    NChunks <- MCNChunks
    MaxChunks = 2
    Triggers = {t1}
    OneShots = {p}
    Forced = {p}
    MaxRetries = 2
    EditKinds = {}
    MaxEdits = 0
    FaultKinds = {"outage", "connection", "crash"}
    MaxFaults = 1
PROPERTIES
    PassesAdvance
    ThreadsComeBack
