---------------------------- MODULE TaskListProofs ----------------------------
(***************************************************************************)
(* Theorems about the task list for every table of tasks and any number of *)
(* commands.                                                               *)
(*                                                                         *)
(* A command under way carries a whole state that it will put in place of  *)
(* the file.  SaveInv says that this state is as good as the file, but for *)
(* what was recorded since it was loaded, and that its phase was earned;   *)
(* and that a command which finds something in the file it has emptied has *)
(* had it open together with another.                                      *)
(***************************************************************************)
EXTENDS TaskList, TLAPS

\* What command c is about to save.
StateSound(c) ==
    /\ (safe \ since[c]) \cup {cmd[c].key} \subseteq cmd[c].state.completed
    /\ Earned(cmd[c].state)

\* What c may find in the file when it saves.
OpenSound(c) ==
    cmd[c].pc = "opened" =>
        /\ file # Empty => c \in shared
        /\ \A d \in Opened : c # d => c \in shared

FileSound ==
    /\ CompletionKept /\ PhaseEarned /\ FileWhole
    /\ file = NoFile => safe = {}

SaveInv ==
    /\ TypeOK
    /\ FileSound
    /\ \A c \in UnderWay : StateSound(c) /\ OpenSound(c)

-----------------------------------------------------------------------------
(* The table and the states. *)

LEMMA PlaceOf ==
  ASSUME NEW p \in PhaseIds
  PROVE  Place(p) \in DOMAIN Phases /\ Phases[Place(p)] = p
<1>1. \E i \in DOMAIN Phases : Phases[i] = p
  BY DEF PhaseIds
<1> QED BY <1>1 DEF Place

LEMMA PhasesFact ==
  /\ Len(Phases) \in Nat /\ DOMAIN Phases = 1..Len(Phases) /\ Len(Phases) > 0
  /\ \A i \in DOMAIN Phases : Phases[i] \in PhaseIds
  BY TableAssumption DEF PhaseIds

\* complete_task adds the task and loses nothing, and a phase is entered when the
\* one before it is complete.
LEMMA CompletedSound ==
  ASSUME NEW s \in State, Earned(s), NEW k \in Tasks
  PROVE  /\ Completed(s, k) \in State
         /\ Completed(s, k).completed = s.completed \cup {k}
         /\ Earned(Completed(s, k))
<1> DEFINE done == s.completed \cup {k}
           cur  == IF PhaseComplete(k[1], done) /\ Place(k[1]) < Len(Phases)
                   THEN Phases[Place(k[1]) + 1] ELSE s.current
<1>1. Completed(s, k) = [completed |-> done, current |-> cur]
  BY DEF Completed
<1>2. k[1] \in PhaseIds
  BY DEF Tasks, IsTask
<1>3. Place(k[1]) \in DOMAIN Phases /\ Phases[Place(k[1])] = k[1]
  BY <1>2, PlaceOf
<1>4. done \in SUBSET Tasks /\ s.current \in PhaseIds /\ s.completed \subseteq done
  BY DEF State
<1>5. CASE PhaseComplete(k[1], done) /\ Place(k[1]) < Len(Phases)
  <2>1. Place(k[1]) \in DOMAIN Phases \ {Len(Phases)} /\ Place(k[1]) + 1 \in DOMAIN Phases
    BY <1>5, <1>3, PhasesFact
  <2>2. cur = Phases[Place(k[1]) + 1] /\ cur \in PhaseIds
    BY <1>5, <2>1, PhasesFact
  <2>3. PhaseComplete(Phases[Place(k[1])], done)
    BY <1>5, <1>3
  <2> HIDE DEF done, cur
  <2>4. Earned([completed |-> done, current |-> cur])
    BY <2>1, <2>2, <2>3 DEF Earned
  <2> QED BY <1>1, <1>4, <2>2, <2>4 DEF State, done
<1>6. CASE ~(PhaseComplete(k[1], done) /\ Place(k[1]) < Len(Phases))
  <2>1. cur = s.current
    BY <1>6
  <2> HIDE DEF done, cur
  <2>2. \A p : PhaseComplete(p, s.completed) => PhaseComplete(p, done)
    BY <1>4 DEF PhaseComplete
  <2>3. Earned([completed |-> done, current |-> cur])
    BY <2>1, <2>2 DEF Earned
  <2> QED BY <1>1, <1>4, <2>1, <2>3 DEF State, done
<1> QED BY <1>5, <1>6

\* load_state returns a state.
LEMMA LoadedSound ==
  ASSUME TypeOK, FileSound, Readable
  PROVE  Loaded \in State /\ Earned(Loaded) /\ safe \subseteq Loaded.completed
<1>1. Loaded \in State
  BY PhasesFact DEF Loaded, TypeOK, Readable, State
<1> QED BY <1>1 DEF FileSound, CompletionKept, PhaseEarned

LEMMA NotAState == \A s \in State : s # NoFile /\ s # Empty /\ s # Garbled
  BY FileAssumption

LEMMA RestingFact == Resting.pc = "idle" /\ \A r \in Saving : r.pc \in {"loaded", "opened"}
  BY DEF Resting, Saving

-----------------------------------------------------------------------------

LEMMA InitInv == Init => SaveInv
<1> SUFFICES ASSUME Init PROVE SaveInv
  OBVIOUS
<1>1. UnderWay = {} /\ Opened = {}
  BY DEF Init, UnderWay, Opened, Resting
<1>2. TypeOK
  <2>1. kills \in 0..MaxKills
    BY KillsAssumption DEF Init
  <2> QED BY <1>1, <2>1 DEF Init, TypeOK
<1>3. FileSound
  <2>1. file = NoFile /\ file # Empty /\ file # Garbled /\ safe = {}
    BY FileAssumption DEF Init
  <2>2. Loaded.current = Phases[1]
    BY <2>1 DEF Loaded
  <2>3. PhaseEarned
    BY <2>2 DEF PhaseEarned, Earned
  <2> QED BY <2>1, <2>3 DEF FileSound, CompletionKept, FileWhole
<1> QED BY <1>1, <1>2, <1>3 DEF SaveInv

\* One command changes its place, to r.
LEMMA PlaceChanges ==
  ASSUME SaveInv, NEW c \in Commands, NEW r \in Saving \cup {Resting}, cmd' = [cmd EXCEPT ![c] = r]
  PROVE  /\ cmd' \in [Commands -> Saving \cup {Resting}] /\ cmd'[c] = r
         /\ \A d \in Commands \ {c} : cmd'[d] = cmd[d]
         /\ UnderWay' = IF r.pc = "idle" THEN UnderWay \ {c} ELSE UnderWay \cup {c}
         /\ Opened' = IF r.pc = "opened" THEN Opened \cup {c} ELSE Opened \ {c}
<1>1. /\ cmd' \in [Commands -> Saving \cup {Resting}] /\ cmd'[c] = r
      /\ \A d \in Commands \ {c} : cmd'[d] = cmd[d]
  BY DEF SaveInv, TypeOK
<1>2. UnderWay' = IF r.pc = "idle" THEN UnderWay \ {c} ELSE UnderWay \cup {c}
  BY <1>1 DEF UnderWay
<1>3. Opened' = IF r.pc = "opened" THEN Opened \cup {c} ELSE Opened \ {c}
  BY <1>1 DEF Opened
<1> QED BY <1>1, <1>2, <1>3

LEMMA BeginInv == ASSUME SaveInv, NEW c \in Commands, NEW k \in Keys, Begin(c, k) PROVE SaveInv'
<1> DEFINE new == [pc |-> "loaded", key |-> k, state |-> Completed(Loaded, k)]
<1>1. /\ UNCHANGED <<file, kills, history>> /\ cmd[c].pc = "idle" /\ IsTask(k) /\ Readable
      /\ cmd' = [cmd EXCEPT ![c] = new]
  BY DEF Begin
<1>2. k \in Tasks
  BY <1>1 DEF Tasks
<1>3. Loaded \in State /\ Earned(Loaded) /\ safe \subseteq Loaded.completed
  BY <1>1, LoadedSound DEF SaveInv
<1>4. /\ Completed(Loaded, k) \in State /\ Earned(Completed(Loaded, k))
      /\ Completed(Loaded, k).completed = Loaded.completed \cup {k}
  BY <1>2, <1>3, CompletedSound
<1>5. new \in Saving /\ new.pc = "loaded" /\ new.key = k /\ new.state = Completed(Loaded, k)
  BY <1>2, <1>4 DEF Saving
<1> HIDE DEF new
<1>6. /\ cmd' \in [Commands -> Saving \cup {Resting}] /\ cmd'[c] = new
      /\ \A d \in Commands \ {c} : cmd'[d] = cmd[d]
      /\ UnderWay' = UnderWay \cup {c} /\ Opened' = Opened \ {c}
  BY <1>1, <1>5, PlaceChanges
<1>7. Opened' = Opened
  BY <1>1, <1>6 DEF Opened
<1>8. TypeOK'
  BY <1>1, <1>6, <1>7 DEF SaveInv, TypeOK, history
<1>9. FileSound'
  BY <1>1, <1>7 DEF SaveInv, FileSound, CompletionKept, PhaseEarned, FileWhole, Loaded, Readable, history
<1>10. ASSUME NEW d \in UnderWay' PROVE StateSound(d)' /\ OpenSound(d)'
  <2>1. CASE d = c
    <3>1. StateSound(c)'
      BY <1>1, <1>3, <1>4, <1>5, <1>6 DEF StateSound, history
    <3>2. OpenSound(c)'
      BY <1>5, <1>6 DEF OpenSound
    <3> QED BY <2>1, <3>1, <3>2
  <2>2. CASE d # c
    <3>1. d \in UnderWay /\ cmd'[d] = cmd[d]
      BY <2>2, <1>6 DEF UnderWay
    <3> QED BY <3>1, <1>1, <1>7 DEF SaveInv, StateSound, OpenSound, history
  <2> QED BY <2>1, <2>2
<1> QED BY <1>8, <1>9, <1>10 DEF SaveInv

LEMMA TruncateInv == ASSUME SaveInv, NEW c \in Commands, Truncate(c) PROVE SaveInv'
<1> DEFINE new == [cmd[c] EXCEPT !.pc = "opened"]
<1>1. /\ file' = Empty /\ UNCHANGED <<kills, safe, since, clashed, crashed>> /\ cmd[c].pc = "loaded"
      /\ cmd' = [cmd EXCEPT ![c] = new]
      /\ shared' = IF Opened = {} THEN shared ELSE shared \cup Opened \cup {c}
  BY DEF Truncate, Share
<1>2. cmd[c] \in Saving
  BY <1>1 DEF SaveInv, TypeOK, Resting
<1>3. /\ new \in Saving /\ new.pc = "opened" /\ new.key = cmd[c].key /\ new.state = cmd[c].state
  BY <1>2 DEF Saving
<1> HIDE DEF new
<1>4. /\ cmd' \in [Commands -> Saving \cup {Resting}] /\ cmd'[c] = new
      /\ \A d \in Commands \ {c} : cmd'[d] = cmd[d]
      /\ UnderWay' = UnderWay \cup {c} /\ Opened' = Opened \cup {c}
  BY <1>1, <1>3, PlaceChanges
<1>5. c \in UnderWay /\ UnderWay' = UnderWay
  BY <1>1, <1>4 DEF UnderWay
<1>6. TypeOK'
  BY <1>1, <1>4 DEF SaveInv, TypeOK
<1>7. FileSound'
  BY <1>1, <1>4, FileAssumption DEF FileSound, CompletionKept, PhaseEarned, FileWhole, Readable
<1>8. ASSUME NEW d \in UnderWay' PROVE StateSound(d)' /\ OpenSound(d)'
  <2>1. d \in UnderWay /\ StateSound(d) /\ OpenSound(d) /\ d \in Commands
    BY <1>5 DEF SaveInv, UnderWay
  <2>2. cmd'[d].key = cmd[d].key /\ cmd'[d].state = cmd[d].state
    BY <2>1, <1>3, <1>4
  <2>3. StateSound(d)'
    BY <2>1, <2>2, <1>1 DEF StateSound
  <2>4. cmd'[d].pc = "opened" <=> d \in Opened \cup {c}
    BY <2>1, <1>4 DEF Opened
  <2>5. OpenSound(d)'
    BY <2>1, <2>4, <1>1, <1>4 DEF OpenSound
  <2> QED BY <2>3, <2>5
<1> QED BY <1>6, <1>7, <1>8 DEF SaveInv

LEMMA SavedInv == ASSUME SaveInv, NEW c \in Commands, Save(c) PROVE SaveInv'
<1>1. /\ cmd[c].pc = "opened" /\ cmd' = [cmd EXCEPT ![c] = Resting]
      /\ safe' = (safe \ since[c]) \cup {cmd[c].key}
      /\ since' = [d \in Commands |-> IF d \in UnderWay \ {c} THEN since[d] \cup {cmd[c].key} ELSE {}]
      /\ shared' = shared \ {c} /\ clashed' = shared \cap {c} /\ crashed' = FALSE /\ kills' = kills
      /\ file' = cmd[c].state \/ (file # Empty /\ file' = Garbled)
  BY DEF Save
<1>2. c \in UnderWay /\ cmd[c] \in Saving
  BY <1>1 DEF SaveInv, TypeOK, UnderWay, Resting
<1>3. StateSound(c) /\ OpenSound(c) /\ cmd[c].state \in State /\ cmd[c].key \in Tasks
  BY <1>2 DEF SaveInv, Saving
<1>4. /\ cmd' \in [Commands -> Saving \cup {Resting}] /\ cmd'[c] = Resting
      /\ \A d \in Commands \ {c} : cmd'[d] = cmd[d]
      /\ UnderWay' = UnderWay \ {c} /\ Opened' = Opened \ {c}
  BY <1>1, PlaceChanges, RestingFact
<1>5. TypeOK'
  <2>1. file' \in State \cup {NoFile, Empty, Garbled} /\ safe' \subseteq Tasks
    BY <1>1, <1>3 DEF SaveInv, TypeOK
  <2>2. since' \in [Commands -> SUBSET Tasks]
    BY <1>1, <1>3 DEF SaveInv, TypeOK
  <2>3. shared' \subseteq Opened'
    BY <1>1, <1>4 DEF SaveInv, TypeOK
  <2>4. clashed' \subseteq Commands /\ crashed' \in BOOLEAN
    BY <1>1
  <2>5. kills' \in 0..MaxKills
    BY <1>1 DEF SaveInv, TypeOK
  <2> QED BY <1>4, <2>1, <2>2, <2>3, <2>4, <2>5 DEF TypeOK
<1>6. file' # Empty /\ file' # NoFile
  BY <1>1, <1>3, NotAState, FileAssumption
<1>7. FileSound'
  <2>1. CASE file' = cmd[c].state
    <3>1. file' # Garbled
      BY <2>1, <1>3, NotAState
    <3>2. Loaded' = cmd[c].state
      BY <2>1, <1>6 DEF Loaded
    <3> QED BY <3>1, <3>2, <1>1, <1>3, <1>6
            DEF FileSound, CompletionKept, PhaseEarned, FileWhole, StateSound, Earned
  <2>2. CASE file # Empty /\ file' = Garbled
    <3>1. clashed' # {}
      BY <2>2, <1>1, <1>3 DEF OpenSound
    <3> QED BY <2>2, <3>1, <1>6 DEF FileSound, CompletionKept, PhaseEarned, FileWhole, Readable
  <2> QED BY <2>1, <2>2, <1>1
<1>8. ASSUME NEW d \in UnderWay' PROVE StateSound(d)' /\ OpenSound(d)'
  <2>1. /\ d \in UnderWay \ {c} /\ d \in Commands /\ cmd'[d] = cmd[d]
        /\ StateSound(d) /\ OpenSound(d)
    BY <1>4 DEF SaveInv, UnderWay
  <2>2. since'[d] = since[d] \cup {cmd[c].key}
    BY <2>1, <1>1
  <2>3. StateSound(d)'
    <3>1. (safe \ since[d]) \cup {cmd[d].key} \subseteq cmd[d].state.completed /\ Earned(cmd[d].state)
      BY <2>1 DEF StateSound
    <3>2. safe' \ since'[d] \subseteq safe \ since[d]
      BY <1>1, <2>2
    <3>3. Earned(cmd[d].state)'
      BY <2>1, <3>1 DEF Earned
    <3> QED BY <3>1, <3>2, <3>3, <2>1 DEF StateSound
  <2>4. cmd[d].pc = "opened" => d \in shared
    BY <2>1, <1>1, <1>2 DEF OpenSound, Opened, UnderWay
  <2>5. OpenSound(d)'
    BY <2>1, <2>4, <1>1, <1>4 DEF OpenSound
  <2> QED BY <2>3, <2>5
<1> QED BY <1>5, <1>7, <1>8 DEF SaveInv

LEMMA KillInv == ASSUME SaveInv, NEW c \in Commands, Kill(c) PROVE SaveInv'
<1>1. /\ cmd[c].pc # "idle" /\ kills < MaxKills /\ kills' = kills + 1
      /\ cmd' = [cmd EXCEPT ![c] = Resting] /\ since' = [since EXCEPT ![c] = {}]
      /\ shared' = shared \ {c} /\ crashed' = (crashed \/ cmd[c].pc = "opened")
      /\ UNCHANGED <<file, safe, clashed>>
  BY DEF Kill
<1>2. /\ cmd' \in [Commands -> Saving \cup {Resting}] /\ cmd'[c] = Resting
      /\ \A d \in Commands \ {c} : cmd'[d] = cmd[d]
      /\ UnderWay' = UnderWay \ {c} /\ Opened' = Opened \ {c}
  BY <1>1, PlaceChanges, RestingFact
<1>3. kills' \in 0..MaxKills
  BY <1>1, KillsAssumption DEF SaveInv, TypeOK
<1>4. TypeOK'
  BY <1>1, <1>2, <1>3 DEF SaveInv, TypeOK
<1>5. FileWhole'
  <2>1. c \in Opened => crashed'
    BY <1>1 DEF Opened
  <2> QED BY <1>1, <1>2, <2>1 DEF SaveInv, FileSound, FileWhole
<1>6. FileSound'
  BY <1>1, <1>5 DEF SaveInv, FileSound, CompletionKept, PhaseEarned, Loaded, Readable, Earned
<1>7. ASSUME NEW d \in UnderWay' PROVE StateSound(d)' /\ OpenSound(d)'
  <2>1. /\ d \in UnderWay \ {c} /\ d \in Commands /\ cmd'[d] = cmd[d]
        /\ StateSound(d) /\ OpenSound(d)
    BY <1>2 DEF SaveInv, UnderWay
  <2>2. since'[d] = since[d]
    BY <2>1, <1>1 DEF SaveInv, TypeOK
  <2>3. StateSound(d)'
    BY <2>1, <2>2, <1>1 DEF StateSound, Earned
  <2>4. OpenSound(d)'
    BY <2>1, <1>1, <1>2 DEF OpenSound
  <2> QED BY <2>3, <2>4
<1> QED BY <1>4, <1>6, <1>7 DEF SaveInv

LEMMA StutterInv == SaveInv /\ UNCHANGED vars => SaveInv'
  BY DEF vars, history, SaveInv, TypeOK, FileSound, CompletionKept, PhaseEarned, FileWhole, Loaded,
         Readable, Earned, UnderWay, Opened, StateSound, OpenSound

LEMMA Invariant == Spec => []SaveInv
<1>1. SaveInv /\ [Next]_vars => SaveInv'
  BY BeginInv, TruncateInv, SavedInv, KillInv, StutterInv DEF Next
<1> QED BY <1>1, InitInv, PTL DEF Spec

\* Every table, any number of commands and kills: the file names no task that is
\* not there.
THEOREM TaskTypes == Spec => []TypeOK
<1>1. SaveInv => TypeOK
  BY DEF SaveInv
<1> QED BY <1>1, Invariant, PTL

\* A recorded completion is undone only by a command that had loaded the file
\* before it was recorded.
THEOREM CompletionsStay == Spec => []CompletionKept
<1>1. SaveInv => CompletionKept
  BY DEF SaveInv, FileSound
<1> QED BY <1>1, Invariant, PTL

\* The phase in the file was earned there.
THEOREM PhasesEarned == Spec => []PhaseEarned
<1>1. SaveInv => PhaseEarned
  BY DEF SaveInv, FileSound
<1> QED BY <1>1, Invariant, PTL

\* The file can be read unless a command is writing it, one was killed while it
\* wrote, or the last had it open together with another.
THEOREM FileKept == Spec => []FileWhole
<1>1. SaveInv => FileWhole
  BY DEF SaveInv, FileSound
<1> QED BY <1>1, Invariant, PTL
=============================================================================
