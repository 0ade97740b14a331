------------------------------- MODULE TaskList -------------------------------
(***************************************************************************)
(* list-tasks.py: the tasks of the memory store, in phases, and the JSON   *)
(* file that says which are completed.                                     *)
(*                                                                         *)
(* `--complete` is a process of its own: it loads the file, changes what   *)
(* it loaded, opens the file for writing, which empties it, and writes all *)
(* of it.  Any other command may run between these steps.  The commands    *)
(* that only read (--next, --find, --detailed) print a function of what    *)
(* they load, and are these functions here.                                *)
(*                                                                         *)
(* Notes and timestamps are left out, but for the length of the file they  *)
(* make: two saves of the same tasks may differ in length.  The history    *)
(* variables are in no guard.                                              *)
(***************************************************************************)
EXTENDS Naturals, Sequences

CONSTANTS
    Phases,         \* the phases in the order of self.tasks
    TasksOf,        \* TasksOf[p]: the tasks of phase p
    Dependencies,   \* Dependencies[k]: what the task with key k depends on, as it is written
    Commands,       \* --complete processes that may run at one time
    NoFile,         \* there is no state file
    Empty,          \* the file is open for writing, and nothing is in it
    Garbled,        \* the file holds the end of one save behind another
    MaxKills        \* bound: how many commands are killed

PhaseIds == {Phases[i] : i \in DOMAIN Phases}

\* A dotted name is the sequence of its parts; what --complete is given has two.
Keys == {<<p, t>> : p \in PhaseIds, t \in UNION {TasksOf[p] : p \in PhaseIds}}

IsTask(k) == k[1] \in PhaseIds /\ k[2] \in TasksOf[k[1]]

Tasks == {k \in Keys : IsTask(k)}

State == [completed : SUBSET Tasks, current : PhaseIds]

ASSUME TableAssumption ==
    /\ Phases \in Seq(PhaseIds) /\ Phases # <<>>
    /\ \A i, j \in DOMAIN Phases : Phases[i] = Phases[j] => i = j

ASSUME FileAssumption ==
    /\ NoFile # Empty /\ NoFile # Garbled /\ Empty # Garbled
    /\ {NoFile, Empty, Garbled} \cap State = {}

ASSUME KillsAssumption == MaxKills \in Nat

VARIABLES
    file,       \* task-state.json
    cmd,        \* cmd[c]: where command c is, its task, the state it will save
    kills,      \* commands killed so far (bounded by MaxKills)
    safe,       \* history: tasks recorded, but for those a later save has undone as it may
    since,      \* history, since[c]: tasks recorded by others since c loaded the file
    shared,     \* history: commands that had the file open together with another
    clashed,    \* history: those of shared among who saved last, one or none
    crashed     \* history: a command was killed with the file open, and none has saved since

history == <<safe, since, shared, clashed, crashed>>

vars == <<file, cmd, kills, history>>

-----------------------------------------------------------------------------
(* What is computed from a state. *)

\* is_phase_complete
PhaseComplete(p, completed) == \A t \in TasksOf[p] : <<p, t>> \in completed

\* is_next_task: a dependency is looked up as it is written.
IsNext(k, s) ==
    /\ Dependencies[k] \subseteq s.completed
    /\ k \notin s.completed
    /\ k[1] = s.current \/ PhaseComplete(s.current, s.completed)

\* get_task_status: a dependency is looked up under the phase of the task.
Status(k, s) ==
    IF k \in s.completed THEN "completed"
    ELSE IF \E d \in Dependencies[k] : <<k[1]>> \o d \notin s.completed THEN "blocked"
    ELSE IF IsNext(k, s) THEN "ready"
    ELSE "pending"

\* get_next_tasks, all of them: a limit never hides the first.
NextTasks(s) == {k \in Tasks : IsNext(k, s)}

\* What load_state returns.
Loaded == IF file = NoFile THEN [completed |-> {}, current |-> Phases[1]] ELSE file

Readable == file \notin {Empty, Garbled}

Place(p) == CHOOSE i \in DOMAIN Phases : Phases[i] = p

\* Mutant of Completed: the phase moves on with its first task.
CompletedTooSoon(s, k) ==
    [completed |-> s.completed \cup {k},
     current   |-> IF Place(k[1]) < Len(Phases) THEN Phases[Place(k[1]) + 1] ELSE s.current]

\* complete_task: the phase after this one becomes the current one, whichever
\* was; the last phase has none after it.
Completed(s, k) ==
    LET done == s.completed \cup {k} IN
    [completed |-> done,
     current   |-> IF PhaseComplete(k[1], done) /\ Place(k[1]) < Len(Phases)
                   THEN Phases[Place(k[1]) + 1] ELSE s.current]

-----------------------------------------------------------------------------

Resting == [pc |-> "idle", key |-> <<>>, state |-> NoFile]

Saving == [pc : {"loaded", "opened"}, key : Tasks, state : State]

UnderWay == {c \in Commands : cmd[c].pc # "idle"}

Opened == {c \in Commands : cmd[c].pc = "opened"}

Init ==
    /\ file = NoFile
    /\ cmd = [c \in Commands |-> Resting]
    /\ kills = 0
    /\ safe = {}
    /\ since = [c \in Commands |-> {}]
    /\ shared = {}
    /\ clashed = {}
    /\ crashed = FALSE

\* Mutant of Begin: the command keeps the state it loaded.
BeginUnchanged(c, k) ==
    /\ cmd[c].pc = "idle" /\ IsTask(k) /\ Readable
    /\ cmd' = [cmd EXCEPT ![c] = [pc |-> "loaded", key |-> k, state |-> Loaded]]
    /\ UNCHANGED <<file, kills, history>>

\* Mutant of Begin: any name is taken for a task.
BeginUnknown(c, k) ==
    /\ cmd[c].pc = "idle" /\ Readable
    /\ cmd' = [cmd EXCEPT ![c] = [pc |-> "loaded", key |-> k, state |-> Completed(Loaded, k)]]
    /\ UNCHANGED <<file, kills, history>>

\* --complete: the task is known, and the file can be parsed (otherwise the
\* command ends here and changes nothing).
Begin(c, k) ==
    /\ cmd[c].pc = "idle" /\ IsTask(k) /\ Readable
    /\ cmd' = [cmd EXCEPT ![c] = [pc |-> "loaded", key |-> k, state |-> Completed(Loaded, k)]]
    /\ UNCHANGED <<file, kills, history>>

\* c has the file open, and so may others.
Share(c) == shared' = IF Opened = {} THEN shared ELSE shared \cup Opened \cup {c}

\* Mutant of Truncate: the file is opened in place.
OpenInPlace(c) ==
    /\ cmd[c].pc = "loaded"
    /\ cmd' = [cmd EXCEPT ![c].pc = "opened"]
    /\ Share(c)
    /\ UNCHANGED <<file, kills, safe, since, clashed, crashed>>

\* save_state: open(..., 'w')
Truncate(c) ==
    /\ cmd[c].pc = "loaded"
    /\ file' = Empty
    /\ cmd' = [cmd EXCEPT ![c].pc = "opened"]
    /\ Share(c)
    /\ UNCHANGED <<kills, safe, since, clashed, crashed>>

\* save_state: json.dump and the close.  What another command has written since
\* this one opened the file is written over, and its end stays if it is longer.
Save(c) ==
    /\ cmd[c].pc = "opened"
    /\ \/ file' = cmd[c].state
       \/ file # Empty /\ file' = Garbled
    /\ cmd' = [cmd EXCEPT ![c] = Resting]
    /\ safe' = (safe \ since[c]) \cup {cmd[c].key}
    /\ since' = [d \in Commands |-> IF d \in UnderWay \ {c} THEN since[d] \cup {cmd[c].key} ELSE {}]
    /\ shared' = shared \ {c}
    /\ clashed' = shared \cap {c}
    /\ crashed' = FALSE
    /\ UNCHANGED kills

\* Ctrl-C, or the end of the machine.
Kill(c) ==
    /\ kills < MaxKills
    /\ cmd[c].pc # "idle"
    /\ kills' = kills + 1
    /\ cmd' = [cmd EXCEPT ![c] = Resting]
    /\ since' = [since EXCEPT ![c] = {}]
    /\ shared' = shared \ {c}
    /\ crashed' = (crashed \/ cmd[c].pc = "opened")
    /\ UNCHANGED <<file, safe, clashed>>

Next == \E c \in Commands : (\E k \in Keys : Begin(c, k)) \/ Truncate(c) \/ Save(c) \/ Kill(c)

Spec == Init /\ [][Next]_vars

-----------------------------------------------------------------------------
(* Properties. *)

\* The file is a state or one of its three other shapes, and names no task that
\* is not there: progress is never more than 100%.
TypeOK ==
    /\ file \in State \cup {NoFile, Empty, Garbled}
    /\ cmd \in [Commands -> Saving \cup {Resting}]
    /\ safe \subseteq Tasks
    /\ kills \in 0..MaxKills
    /\ since \in [Commands -> SUBSET Tasks]
    /\ shared \subseteq Opened
    /\ clashed \subseteq Commands /\ crashed \in BOOLEAN

\* A completion is undone only by the save of a command that had loaded the file
\* before it was recorded: a command that begins later loads it and keeps it,
\* however many others are under way, in whatever order they save, and whoever is
\* killed.
CompletionKept == Readable => safe \subseteq Loaded.completed

Earned(s) ==
    \/ s.current = Phases[1]
    \/ \E i \in DOMAIN Phases \ {Len(Phases)} :
         s.current = Phases[i + 1] /\ PhaseComplete(Phases[i], s.completed)

\* The current phase was earned: it is the first, or the one before it is
\* complete in the same file, in whatever order tasks are completed, again or at
\* the same time.
PhaseEarned == Readable => Earned(Loaded)

\* The file, which no command can do without, is empty only while a command
\* writes it, or after one that was killed while it wrote, until the next save; it
\* holds two saves only if the last one was of a command that had it open together
\* with another.
FileWhole ==
    /\ file = Empty => crashed \/ Opened # {}
    /\ file = Garbled => clashed # {}

-----------------------------------------------------------------------------
(* What the script says and does not do. *)

\* list-tasks.py:358, "All tasks completed! Memory store implementation is done!":
\* --next says so only when --detailed shows every task as completed.
AllDoneIsTrue ==
    Readable /\ NextTasks(Loaded) = {} => \A k \in Tasks : Status(k, Loaded) = "completed"
=============================================================================
