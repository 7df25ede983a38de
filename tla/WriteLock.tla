----------------------------- MODULE WriteLock ------------------------------
(***************************************************************************)
(* The lock file that serializes the writers of the local archive, and the *)
(* run numbers they reserve under it.  The file is created exclusively,    *)
(* then the owner writes its process id; a process that meets the file     *)
(* looks the owner up and removes the file of a dead one; an owner removes *)
(* the file if it still holds its own id.  Reading a file, looking a       *)
(* process up and removing a name are separate steps.                      *)
(***************************************************************************)
EXTENDS Integers, FiniteSets

CONSTANTS
    Pids,           \* process ids (not 0)
    MaxCrashes,     \* bound
    MaxRuns         \* bound on the run numbers

LockAssumption == 0 \notin Pids /\ {MaxCrashes, MaxRuns} \subseteq Nat
\* The collector and one other process write.  A third one may reap a lock that
\* the second has taken after the first died.
TwoWriters == \A p, q, r \in Pids : p = q \/ q = r \/ p = r

VARIABLES
    lockFile,       \* NoFile, or the id written in it and the file's identity
    pc,             \* where a process is
    read,           \* the owner id a process has read
    fd,             \* the identity of the file a process has created
    files,          \* identities given so far
    counter,        \* doubao_run_counter.txt
    number,         \* the run number a process computed
    runs,           \* [pid, no] of the captures so far
    crashes

lockVars == <<lockFile, pc, read, fd, files, counter, number, runs, crashes>>

NoFile == [id |-> 0]
Empty == 0          \* the file holds no id yet
Alive(p) == pc[p] # "dead"

Init ==
    /\ lockFile = NoFile /\ files = 0
    /\ pc = [p \in Pids |-> "start"]
    /\ read = [p \in Pids |-> Empty] /\ fd = [p \in Pids |-> 0]
    /\ counter = 0 /\ number = [p \in Pids |-> 0] /\ runs = {} /\ crashes = 0

Goto(p, label) == pc' = [pc EXCEPT ![p] = label]

\* os.open(O_CREAT | O_EXCL)
CreateShared(p) ==
    /\ pc[p] = "start"
    /\ files' = files + 1
    /\ lockFile' = [id |-> files', owner |-> Empty]
    /\ fd' = [fd EXCEPT ![p] = files']
    /\ Goto(p, "created")
    /\ UNCHANGED <<read, counter, number, runs, crashes>>

Create(p) ==
    /\ pc[p] = "start" /\ lockFile = NoFile
    /\ files' = files + 1
    /\ lockFile' = [id |-> files', owner |-> Empty]
    /\ fd' = [fd EXCEPT ![p] = files']
    /\ Goto(p, "created")
    /\ UNCHANGED <<read, counter, number, runs, crashes>>

\* os.write of the id, to the file that was created
WritePid(p) ==
    /\ pc[p] = "created"
    /\ lockFile' = IF lockFile.id = fd[p] THEN [lockFile EXCEPT !.owner = p] ELSE lockFile
    /\ Goto(p, "inside")
    /\ UNCHANGED <<read, fd, files, counter, number, runs, crashes>>

\* FileExistsError: the owner is read, then looked up
ReadOwner(p) ==
    /\ pc[p] = "start" /\ lockFile # NoFile
    /\ read' = [read EXCEPT ![p] = lockFile.owner]
    /\ Goto(p, "look")
    /\ UNCHANGED <<lockFile, fd, files, counter, number, runs, crashes>>

\* A lock may be reaped whose owner is dead, or which holds no id and is older
\* than five minutes (a step takes less: its creator would have written the id).
Stale(p) == TRUE
NeverDead(p) == FALSE
Abandoned(p) ==
    \/ read[p] # Empty /\ ~Alive(read[p])
    \/ /\ read[p] = Empty /\ lockFile # NoFile /\ lockFile.owner = Empty
       /\ \A q \in Pids : pc[q] = "created" => fd[q] # lockFile.id
LookUp(p) ==
    /\ pc[p] = "look"
    /\ \/ Abandoned(p) /\ Goto(p, "reap")
       \/ (read[p] = Empty \/ ~Abandoned(p)) /\ Goto(p, "start")
       \/ (read[p] = Empty \/ ~Abandoned(p)) /\ Goto(p, "timeout")    \* TimeoutError
    /\ UNCHANGED <<lockFile, read, fd, files, counter, number, runs, crashes>>

\* os.unlink of the name, whatever file it names now
Reap(p) ==
    /\ pc[p] = "reap"
    /\ lockFile' = NoFile
    /\ Goto(p, "start")
    /\ UNCHANGED <<read, fd, files, counter, number, runs, crashes>>

\* next_run_no: the highest number is read, then the next one is kept
ReadCounter(p) ==
    /\ pc[p] = "inside" /\ counter < MaxRuns
    /\ number' = [number EXCEPT ![p] = counter + 1]
    /\ Goto(p, "reserve")
    /\ UNCHANGED <<lockFile, read, fd, files, counter, runs, crashes>>
WriteCounter(p) ==
    /\ pc[p] = "reserve"
    /\ counter' = number[p]
    /\ runs' = runs \cup {[pid |-> p, no |-> number[p]]}
    /\ Goto(p, "release")
    /\ UNCHANGED <<lockFile, read, fd, files, number, crashes>>

\* finally: the file is removed if it is read to hold the own id
OwnLock(p) == lockFile # NoFile /\ lockFile.owner = p
CheckOwn(p) ==
    /\ pc[p] = "release"
    /\ Goto(p, IF OwnLock(p) THEN "unlink" ELSE "done")
    /\ UNCHANGED <<lockFile, read, fd, files, counter, number, runs, crashes>>
Unlink(p) ==
    /\ pc[p] = "unlink"
    /\ lockFile' = NoFile /\ Goto(p, "done")
    /\ UNCHANGED <<read, fd, files, counter, number, runs, crashes>>

\* the same process takes the lock for its next file
Again(p) ==
    /\ pc[p] \in {"done", "timeout"} /\ Goto(p, "start")
    /\ UNCHANGED <<lockFile, read, fd, files, counter, number, runs, crashes>>

Crash(p) ==
    /\ Alive(p) /\ crashes < MaxCrashes
    /\ crashes' = crashes + 1 /\ Goto(p, "dead")
    /\ UNCHANGED <<lockFile, read, fd, files, counter, number, runs>>

Next ==
    \E p \in Pids :
        \/ Create(p) \/ WritePid(p) \/ ReadOwner(p) \/ LookUp(p) \/ Reap(p)
        \/ ReadCounter(p) \/ WriteCounter(p) \/ CheckOwn(p) \/ Unlink(p)
        \/ Again(p) \/ Crash(p)

Spec == Init /\ [][Next]_lockVars

\* A live process goes on.
Step(p) ==
    Create(p) \/ WritePid(p) \/ ReadOwner(p) \/ LookUp(p) \/ Reap(p) \/ ReadCounter(p)
    \/ WriteCounter(p) \/ CheckOwn(p) \/ Unlink(p)
FairSpec == Spec /\ \A p \in Pids : WF_lockVars(Step(p))

-----------------------------------------------------------------------------
(* Properties.                                                             *)

TypeOK ==
    /\ pc \in [Pids -> {"start", "created", "look", "reap", "inside", "reserve", "release",
                        "unlink", "done", "timeout", "dead"}]
    /\ lockFile = NoFile \/ lockFile.owner \in Pids \cup {Empty}
    /\ counter \in 0..MaxRuns /\ number \in [Pids -> 0..MaxRuns]

Inside(p) == pc[p] \in {"inside", "reserve"}

\* "that previously let two captures allocate the same run_no": no number is
\* given to two captures, and no two processes write at once.
RunNumbersDistinct ==
    /\ \A r, s \in runs : r.no = s.no => r.pid = s.pid
    /\ \A p, q \in Pids : Inside(p) /\ Inside(q) => p = q

\* "Only an abandoned lock (dead owner), or a pid-less lock older than five
\* minutes, may be removed automatically."
OnlyAbandonedReaped ==
    [][\A p \in Pids : Reap(p) /\ lockFile # NoFile =>
          lockFile.owner \notin {q \in Pids : Alive(q)}]_lockVars

\* In the end: a lock left by a dead process is gone, for whoever waits for it
\* reaps it.
DeadLockGoes ==
    \/ lockFile = NoFile \/ lockFile.owner = Empty \/ Alive(lockFile.owner)
    \/ \A p \in Pids : pc[p] \in {"dead", "done", "timeout"}
=============================================================================
