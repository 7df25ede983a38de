------------------------------ MODULE LocalJob ------------------------------
(***************************************************************************)
(* A collector the panel starts and stops on its own machine: the control  *)
(* entry of one model, the launcher threads, the processes they start, and *)
(* what a process leaves on disk: the file of results and the state that   *)
(* the next process resumes from.                                          *)
(*                                                                         *)
(* Each start is a token: the launcher thread it creates and the process   *)
(* that thread starts.                                                     *)
(***************************************************************************)
EXTENDS Integers, FiniteSets

CONSTANTS
    Starts,         \* bound on the starts
    Rounds,         \* length of the schedule
    MaxRecords,     \* bound on the records of a round
    Patient         \* does the operator wait for a launcher to end?

JobAssumption ==
    /\ Rounds \in Nat \ {0} /\ MaxRecords \in Nat /\ Patient \in BOOLEAN
    /\ "none" \notin Starts

VARIABLES
    item,           \* _CONTROL_PROCESSES[model]
    launcher,       \* where each launcher thread is
    process,        \* what each process does
    cursor,         \* index, in each process
    nextIndex,      \* next_index in the state file
    records,        \* how many records of each round the file of results has
    kills           \* how many processes were stopped

vars == <<item, launcher, process, cursor, nextIndex, records, kills>>
control == <<item, launcher>>
work == <<cursor, nextIndex, records>>

None == "none"
NoItem == [process |-> None, starting |-> FALSE, cancelled |-> FALSE, stopped |-> FALSE, failed |-> FALSE]
NewItem == [NoItem EXCEPT !.starting = TRUE]
Live == {"asking", "appended", "mirrored", "failed"}
Alive(p) == p \in Starts /\ process[p] \in Live

Init ==
    /\ item = NoItem
    /\ launcher = [p \in Starts |-> "unused"]
    /\ process = [p \in Starts |-> "unborn"]
    /\ cursor = [p \in Starts |-> 0]
    /\ nextIndex = 0
    /\ records = [i \in 0..(Rounds - 1) |-> 0]
    /\ kills = 0

-----------------------------------------------------------------------------
(* The panel.                                                              *)

\* Mutant: a start under way does not keep another from starting.
StartTwice(p) ==
    /\ launcher[p] = "unused" /\ ~Alive(item.process)
    /\ item' = NewItem
    /\ launcher' = [launcher EXCEPT ![p] = "prepare"]
    /\ UNCHANGED <<process, work, kills>>

\* _start_controlled_job: nothing is started while a process runs or a start
\* is under way.
Start(p) ==
    /\ launcher[p] = "unused" /\ ~Alive(item.process) /\ ~item.starting
    /\ Patient => \A q \in Starts : launcher[q] \in {"unused", "ended"}
    /\ item' = NewItem
    /\ launcher' = [launcher EXCEPT ![p] = "prepare"]
    /\ UNCHANGED <<process, work, kills>>

\* _stop_controlled_job: a start under way is cancelled, a process ends at
\* whatever it does.
StopStarting ==
    /\ item.starting
    /\ item' = [item EXCEPT !.starting = FALSE, !.cancelled = TRUE, !.stopped = TRUE]
    /\ UNCHANGED <<launcher, process, work, kills>>

StopRunning ==
    /\ ~item.starting /\ Alive(item.process)
    /\ item' = [item EXCEPT !.stopped = TRUE]
    /\ process' = [process EXCEPT ![item.process] = "stopped"]
    /\ kills' = kills + 1
    /\ UNCHANGED <<launcher, work>>

-----------------------------------------------------------------------------
(* _launch_controlled_job: the entry it updates is the current one.        *)

Ends(p) == launcher' = [launcher EXCEPT ![p] = "ended"]

PrepareEnds(p) ==
    /\ launcher[p] = "prepare"
    /\ IF item.cancelled
       THEN item' = [item EXCEPT !.starting = FALSE] /\ Ends(p)
       ELSE launcher' = [launcher EXCEPT ![p] = "spawn"] /\ UNCHANGED item
    /\ UNCHANGED <<process, work, kills>>

\* The account is not ready, or the process cannot be started.
LaunchFails(p) ==
    /\ launcher[p] \in {"prepare", "spawn"}
    /\ item' = [item EXCEPT !.starting = FALSE, !.failed = TRUE]
    /\ Ends(p)
    /\ UNCHANGED <<process, work, kills>>

\* The process resumes at the index of the state file.
Spawn(p) ==
    /\ launcher[p] = "spawn"
    /\ launcher' = [launcher EXCEPT ![p] = "record"]
    /\ process' = [process EXCEPT ![p] = IF nextIndex < Rounds THEN "asking" ELSE "done"]
    /\ cursor' = [cursor EXCEPT ![p] = nextIndex]
    /\ UNCHANGED <<item, nextIndex, records, kills>>

\* Mutant: a cancellation after the process was started is not noticed.
RecordAnyway(p) ==
    /\ launcher[p] = "record"
    /\ item' = [item EXCEPT !.process = p, !.starting = FALSE]
    /\ Ends(p)
    /\ UNCHANGED <<process, work, kills>>

\* The entry gets the process, unless the start was cancelled meanwhile: then
\* the process is terminated.
Record(p) ==
    /\ launcher[p] = "record"
    /\ item' = [item EXCEPT !.process = p, !.starting = FALSE]
    /\ IF item.cancelled /\ Alive(p)
       THEN process' = [process EXCEPT ![p] = "stopped"] /\ kills' = kills + 1
       ELSE UNCHANGED <<process, kills>>
    /\ Ends(p)
    /\ UNCHANGED work

-----------------------------------------------------------------------------
(* main of web_collectors.loop.                                            *)

Become(p, what) == process' = [process EXCEPT ![p] = what]

\* Mutant: the state is saved before the record is written.
AppendLate(p) ==
    /\ process[p] = "asking" /\ records[cursor[p]] < MaxRecords
    /\ nextIndex' = cursor[p] + 1
    /\ Become(p, "appended")
    /\ UNCHANGED <<control, cursor, records, kills>>

\* An answer that passes the check of its quality is appended to the results.
AppendRecord(p) ==
    /\ process[p] = "asking" /\ records[cursor[p]] < MaxRecords
    /\ records' = [records EXCEPT ![cursor[p]] = @ + 1]
    /\ Become(p, "appended")
    /\ UNCHANGED <<control, cursor, nextIndex, kills>>

\* Mutant: an outage of the database fails the round.
MirrorFails(p) ==
    /\ process[p] = "appended"
    /\ Become(p, "mirrored") \/ Become(p, "failed")
    /\ UNCHANGED <<control, work, kills>>

\* persist_database: an outage of the database changes nothing.
Mirror(p) ==
    /\ process[p] = "appended"
    /\ Become(p, "mirrored")
    /\ UNCHANGED <<control, work, kills>>

\* Mutant: the index is counted twice.
SaveStateAhead(p) ==
    /\ process[p] = "mirrored"
    /\ cursor' = [cursor EXCEPT ![p] = @ + 1]
    /\ nextIndex' = cursor[p] + 2
    /\ Become(p, IF cursor[p] + 1 < Rounds THEN "asking" ELSE "done")
    /\ UNCHANGED <<control, records, kills>>

SaveState(p) ==
    /\ process[p] = "mirrored"
    /\ cursor' = [cursor EXCEPT ![p] = @ + 1]
    /\ nextIndex' = cursor[p] + 1
    /\ Become(p, IF cursor[p] + 1 < Rounds THEN "asking" ELSE "done")
    /\ UNCHANGED <<control, records, kills>>

\* No answer, or a poor one.
CollectFails(p) ==
    /\ process[p] = "asking"
    /\ Become(p, "failed")
    /\ UNCHANGED <<control, work, kills>>

\* The round is tried again after a while, without a limit.
SaveFailure(p) ==
    /\ process[p] = "failed"
    /\ nextIndex' = cursor[p]
    /\ Become(p, "asking")
    /\ UNCHANGED <<control, cursor, records, kills>>

-----------------------------------------------------------------------------
Launch(p) == PrepareEnds(p) \/ Spawn(p) \/ Record(p)
Work(p) == AppendRecord(p) \/ Mirror(p) \/ SaveState(p) \/ SaveFailure(p)

Next ==
    \/ StopStarting \/ StopRunning
    \/ \E p \in Starts : Start(p) \/ Launch(p) \/ LaunchFails(p) \/ Work(p) \/ CollectFails(p)

Spec == Init /\ [][Next]_vars

-----------------------------------------------------------------------------
(* Properties.                                                             *)

TypeOK ==
    /\ item \in [process : Starts \cup {None}, starting : BOOLEAN, cancelled : BOOLEAN,
                 stopped : BOOLEAN, failed : BOOLEAN]
    /\ launcher \in [Starts -> {"unused", "prepare", "spawn", "record", "ended"}]
    /\ process \in [Starts -> Live \cup {"unborn", "stopped", "done"}]
    /\ cursor \in [Starts -> 0..Rounds] /\ nextIndex \in 0..Rounds
    /\ records \in [0..(Rounds - 1) -> 0..MaxRecords]
    /\ kills \in 0..Cardinality(Starts)

\* Rounds that were saved are not lost: wherever a process is stopped, the
\* state never points past a round that has no record.
NoRoundLost == \A i \in DOMAIN records : i < nextIndex => records[i] > 0

\* A round is recorded twice only when a process was stopped between its
\* record and its state; an outage of the database never asks again.
OneObservation == \A i \in DOMAIN records : records[i] <= 1 + kills

\* When a stop was answered and its launcher has ended, nothing runs.
StopStops ==
    item.stopped /\ (\A p \in Starts : launcher[p] \in {"unused", "ended"})
    => \A p \in Starts : ~Alive(p)

\* One process at a time asks the questions of a model.
OneProcess == Cardinality({p \in Starts : Alive(p)}) <= 1
=============================================================================
