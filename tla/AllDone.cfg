SPECIFICATION Spec
CONSTANTS
    PhasesUsed = 5
    TasksUsed = 3
    Phases <- MCPhases
    TasksOf <- MCTasksOf
    Dependencies <- MCDependencies
    Commands = {c1}
    NoFile = NoFile
    Empty = Empty
    Garbled = Garbled
    MaxKills = 0
INVARIANTS
    AllDoneIsTrue
\* A killed command may leave a file that no later one can read.
CHECK_DEADLOCK FALSE
