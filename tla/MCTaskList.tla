------------------------------ MODULE MCTaskList ------------------------------
(***************************************************************************)
(* The table of list-tasks.py, or the first TasksUsed tasks of its first   *)
(* PhasesUsed phases, as the constants of TaskList.                        *)
(***************************************************************************)
EXTENDS TaskTable, TaskList, FiniteSets, TLC

CONSTANTS PhasesUsed, TasksUsed

Rows == {<<tasks[i][1], tasks[i][2][j]>> : i \in 1..PhasesUsed, j \in 1..TasksUsed}

MCPhases == [i \in 1..PhasesUsed |-> tasks[i][1]]
MCTasksOf == [p \in {r[1] : r \in Rows} |-> {r[2][1] : r \in {q \in Rows : q[1] = p}}]
MCDependencies ==
    [k \in {<<r[1], r[2][1]>> : r \in Rows} |->
        (CHOOSE r \in Rows : r[1] = k[1] /\ r[2][1] = k[2])[2][2]]

\* Commands are interchangeable.
Symmetry == Permutations(Commands)
=============================================================================
