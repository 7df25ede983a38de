------------------------------ MODULE TaskLife ------------------------------
(***************************************************************************)
(* What the rest of the server may rely on about the status of a queue     *)
(* task.  "stopping" stands for a running row with a pause or a cancel     *)
(* requested.  TaskQueue implements this specification; the components     *)
(* that create tasks and read their status use it in its place.            *)
(***************************************************************************)
CONSTANT Tasks
VARIABLE life           \* life[t]: the status of task t

FinalLife == {"completed", "failed", "cancelled"}
LifeStates == FinalLife \cup {"absent", "queued", "running", "stopping", "paused"}

\* Where each status leads, erasing aside.  A task asked to stop is neither
\* completed nor failed, and only paused and failed ones return to the queue.
LifeMoves ==
    [absent    |-> {"queued"},
     queued    |-> {"running", "stopping", "paused", "cancelled"},
     running   |-> FinalLife \cup {"stopping", "queued", "paused"},
     stopping  |-> {"running", "queued", "paused", "cancelled"},
     paused    |-> {"queued", "cancelled"},
     failed    |-> {"queued", "paused"},
     completed |-> {"paused"},
     cancelled |-> {"paused"}]

LifeInit == life = [t \in Tasks |-> "absent"]

LifeNext ==
    \A t \in Tasks : life'[t] \in {life[t], "absent"} \cup LifeMoves[life[t]]

LifeSpec == LifeInit /\ [][LifeNext]_life
=============================================================================
