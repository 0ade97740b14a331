SPECIFICATION Spec
CONSTANTS
    PhasesUsed = 2
    TasksUsed = 2
    Phases <- MCPhases
    TasksOf <- MCTasksOf
    Dependencies <- MCDependencies
    Commands = {c1, c2}
    NoFile = NoFile
    Empty = Empty
    Garbled = Garbled
    MaxKills = 1
INVARIANTS
    TypeOK
    CompletionKept
    PhaseEarned
    FileWhole
SYMMETRY Symmetry
\* A killed command may leave a file that no later one can read.
CHECK_DEADLOCK FALSE
