---------------------------- MODULE PaidMonitor ----------------------------
(***************************************************************************)
(* Paid daily monitors: RemoteTaskQueue's paid_monitor methods, the tables  *)
(* paid_monitors and paid_monitor_runs, and the queue tasks they create.   *)
(*                                                                         *)
(* Unlike the queue's own methods these are not one transaction each.  A   *)
(* request thread reads, and acts on what it read in later transactions;   *)
(* every action below is one transaction (or one autocommitted statement)  *)
(* of one thread.  Only sync_paid_monitor_tasks takes a lock, a lock of    *)
(* the process that the other methods do not take.                         *)
(*                                                                         *)
(* The tasks themselves belong to the queue.  Between two steps they do     *)
(* what TaskLife allows, which TaskQueue implements.  The columns           *)
(* current_task_id and last_scheduled_date are written and never read.     *)
(***************************************************************************)
EXTENDS Integers, FiniteSets

CONSTANTS
    Monitors,       \* monitor ids
    Threads,        \* request threads of the server
    MaxDay,         \* bound on the days that pass
    MaxTasks,       \* bound on the tasks created
    Calls,          \* administrator calls of this instance
    MaxCalls,       \* bound on those calls
    MaxCrashes,     \* bound on restarts of the server process
    NoMonitor, NoThread

AllCalls == {"pause", "resume", "rerun", "update", "clear"}

ASSUME DayAssumption == MaxDay \in Nat \ {0}
ASSUME BoundAssumption == MaxTasks \in Nat /\ MaxCalls \in Nat /\ MaxCrashes \in Nat
ASSUME CallAssumption == Calls \subseteq AllCalls
ASSUME NoneAssumption == NoMonitor \notin Monitors /\ NoThread \notin Threads

VARIABLES
    today,          \* the date in Beijing
    monitor,        \* monitor[m]: the row of paid_monitors
    run,            \* run[m][d]: the task_id of the row of paid_monitor_runs
    life,           \* life[t]: the status of task t
    of,             \* of[t]: the monitor and day task t was created for
    created,        \* number of tasks created so far
    lock,           \* holder of _PAID_MONITOR_LOCK
    op,             \* op[p]: what thread p is doing
    calls,          \* administrator calls begun
    crashes         \* restarts so far

vars == <<today, monitor, run, life, of, created, lock, op, calls, crashes>>
tables == <<monitor, run, life, of, created>>
bounds == <<calls, crashes>>

-----------------------------------------------------------------------------
Days == 1..MaxDay
Tasks == 1..MaxTasks
Queue == INSTANCE TaskLife

NoRow == -1                     \* no row of paid_monitor_runs
NoTask == 0                     \* task_id = ''
Runs == {NoRow, NoTask} \cup Tasks

MonitorRow ==
    {row \in [status : {"none", "active", "paused"}, paid : BOOLEAN,
              starts : Days, expires : Days] : row.starts <= row.expires}
Unregistered == [status |-> "none", paid |-> FALSE, starts |-> 1, expires |-> 1]

InTerm(row, day) == row.starts <= day /\ day <= row.expires
Due(row, day) == row.paid /\ row.status = "active" /\ InTerm(row, day)

NoOwner == [m |-> NoMonitor, day |-> 0]
Owners == [m : Monitors, day : Days] \cup {NoOwner}

\* Where a thread stands.  A call begins with get_paid_monitor ("read", "runs")
\* and continues under its own name.
Places == {"idle", "read", "runs", "sync", "sync_runs", "sync_create", "sync_record",
           "pause", "pause_task", "resume", "resume_task",
           "rerun", "rerun_create", "rerun_record", "update", "clear"}

Op == [at : Places, call : AllCalls \cup {"sync"},
       m : Monitors \cup {NoMonitor},
       day : Days,                      \* the local variable today
       seen : MonitorRow,               \* the monitor as read
       cur : {NoTask} \cup Tasks,       \* its current task as read,
       curStatus : Queue!LifeStates,    \* and the status it had
       due : SUBSET Monitors,           \* monitors sync has still to visit
       fresh : {NoTask} \cup Tasks]     \* the task just created

Idle == [at |-> "idle", call |-> "sync", m |-> NoMonitor, day |-> 1,
         seen |-> Unregistered, cur |-> NoTask, curStatus |-> "absent",
         due |-> {}, fresh |-> NoTask]

Init ==
    /\ today = 1
    /\ monitor = [m \in Monitors |-> Unregistered]
    /\ run = [m \in Monitors |-> [d \in Days |-> NoRow]]
    /\ life = [t \in Tasks |-> "absent"]
    /\ of = [t \in Tasks |-> NoOwner]
    /\ created = 0
    /\ lock = NoThread
    /\ op = [p \in Threads |-> Idle]
    /\ calls = 0
    /\ crashes = 0

-----------------------------------------------------------------------------
(* Building blocks.                                                        *)

Become(p, state) == op' = [op EXCEPT ![p] = state]
Goto(p, place) == Become(p, [op[p] EXCEPT !.at = place])
Return(p) == Become(p, Idle)

\* The call ends with a sync, which computes the date before it waits.
GoSync(p) == Become(p, [Idle EXCEPT !.at = "sync", !.day = today])

\* _create_paid_monitor_task for monitor m and a date, then go on at place.
CreateTask(p, m, day, place) ==
    /\ created < MaxTasks
    /\ created' = created + 1
    /\ life' = [life EXCEPT ![created + 1] = "queued"]
    /\ of' = [of EXCEPT ![created + 1] = [m |-> m, day |-> day]]
    /\ Become(p, [op[p] EXCEPT !.at = place, !.fresh = created + 1])

\* pause, cancel and resume of the queue, as far as the status shows them.
AfterPause(s) ==
    IF s = "queued" THEN "paused" ELSE IF s = "running" THEN "stopping" ELSE s
AfterCancel(s) ==
    IF s \in {"queued", "paused"} THEN "cancelled"
    ELSE IF s = "running" THEN "stopping" ELSE s

\* get_paid_monitor's current task: the latest run whose task still exists.
HasTask(m, d) == run[m][d] \in Tasks /\ life[run[m][d]] # "absent"
IsCurrent(m, t) ==
    \/ t = NoTask /\ \A d \in Days : ~HasTask(m, d)
    \/ \E d \in Days : /\ HasTask(m, d) /\ run[m][d] = t
                       /\ \A e \in Days : HasTask(m, e) => e <= d

-----------------------------------------------------------------------------
(* sync_paid_monitor_tasks.                                                *)

\* claim and list_paid_monitors begin with it.
Poll(p) ==
    /\ op[p].at = "idle"
    /\ GoSync(p)
    /\ UNCHANGED <<today, tables, lock, bounds>>

\* Mutant: the monitors are read without the lock.
SyncSelectUnlocked(p) ==
    /\ op[p].at = "sync"
    /\ LET due == {m \in Monitors : Due(monitor[m], op[p].day)} IN
       \/ due = {} /\ Return(p)
       \/ due # {} /\ Become(p, [op[p] EXCEPT !.at = "sync_runs", !.due = due])
    /\ UNCHANGED <<today, tables, lock, bounds>>

\* Taking the lock and the SELECT of the due monitors.
SyncSelect(p) ==
    /\ op[p].at = "sync"
    /\ lock = NoThread
    /\ LET due == {m \in Monitors : Due(monitor[m], op[p].day)} IN
       \/ due = {} /\ Return(p) /\ UNCHANGED lock
       \/ /\ due # {}
          /\ Become(p, [op[p] EXCEPT !.at = "sync_runs", !.due = due])
          /\ lock' = p
    /\ UNCHANGED <<today, tables, bounds>>

\* On to the next monitor, or out of the lock.
NextMonitor(p, m) ==
    LET rest == op[p].due \ {m} IN
    \/ rest = {} /\ Return(p) /\ lock' = NoThread
    \/ /\ rest # {}
       /\ Become(p, [op[p] EXCEPT !.at = "sync_runs", !.m = NoMonitor,
                                  !.fresh = NoTask, !.due = rest])
       /\ UNCHANGED lock

\* Mutant: a run row without a task counts as served.
SyncRunsOnce(p, m) ==
    /\ op[p].at = "sync_runs"
    /\ m \in op[p].due
    /\ LET d == op[p].day IN
       \/ /\ run[m][d] # NoRow
          /\ NextMonitor(p, m)
          /\ UNCHANGED run
       \/ /\ run[m][d] = NoRow
          /\ run' = [run EXCEPT ![m][d] = NoTask]
          /\ Become(p, [op[p] EXCEPT !.at = "sync_create", !.m = m])
          /\ UNCHANGED lock
    /\ UNCHANGED <<today, monitor, life, of, created, bounds>>

\* The run row of the day is inserted unless it is there.
SyncRuns(p, m) ==
    /\ op[p].at = "sync_runs"
    /\ m \in op[p].due
    /\ LET d == op[p].day IN
       \/ /\ run[m][d] \in Tasks
          /\ NextMonitor(p, m)
          /\ UNCHANGED run
       \/ /\ run[m][d] \notin Tasks
          /\ run' = [run EXCEPT ![m][d] = NoTask]
          /\ Become(p, [op[p] EXCEPT !.at = "sync_create", !.m = m])
          /\ UNCHANGED lock
    /\ UNCHANGED <<today, monitor, life, of, created, bounds>>

SyncCreate(p) ==
    /\ op[p].at = "sync_create"
    /\ CreateTask(p, op[p].m, op[p].day, "sync_record")
    /\ UNCHANGED <<today, monitor, run, lock, bounds>>

\* Mutant: without the condition task_id=''.
SyncRecordAlways(p) ==
    /\ op[p].at = "sync_record"
    /\ LET m == op[p].m  d == op[p].day IN
       /\ run' = [run EXCEPT ![m][d] = IF @ = NoRow THEN @ ELSE op[p].fresh]
       /\ NextMonitor(p, m)
    /\ UNCHANGED <<today, monitor, life, of, created, bounds>>

\* UPDATE ... WHERE task_id=''
SyncRecord(p) ==
    /\ op[p].at = "sync_record"
    /\ LET m == op[p].m  d == op[p].day IN
       /\ run' = [run EXCEPT ![m][d] = IF @ = NoTask THEN op[p].fresh ELSE @]
       /\ NextMonitor(p, m)
    /\ UNCHANGED <<today, monitor, life, of, created, bounds>>

-----------------------------------------------------------------------------
(* Administrator calls.                                                    *)

\* Mutant: the term is not validated.
CreateMonitorUnchecked(p, m) ==
    /\ op[p].at = "idle"
    /\ monitor[m].status = "none"
    /\ \E paid \in BOOLEAN, s, e \in Days :
          monitor' = [monitor EXCEPT ![m] =
                [status |-> IF paid THEN "active" ELSE "paused", paid |-> paid,
                 starts |-> s, expires |-> e]]
    /\ GoSync(p)
    /\ UNCHANGED <<today, run, life, of, created, lock, bounds>>

CreateMonitor(p, m) ==
    /\ op[p].at = "idle"
    /\ monitor[m].status = "none"
    /\ \E paid \in BOOLEAN, s, e \in Days :
          /\ s <= e
          /\ monitor' = [monitor EXCEPT ![m] =
                [status |-> IF paid THEN "active" ELSE "paused", paid |-> paid,
                 starts |-> s, expires |-> e]]
    /\ GoSync(p)
    /\ UNCHANGED <<today, run, life, of, created, lock, bounds>>

Call(p, m, call) ==
    /\ op[p].at = "idle"
    /\ calls < MaxCalls
    /\ call \in Calls
    /\ monitor[m].status # "none"
    /\ calls' = calls + 1
    /\ Become(p, [op[p] EXCEPT !.at = "read", !.call = call, !.m = m])
    /\ UNCHANGED <<today, tables, lock, crashes>>

\* get_paid_monitor reads the monitor, then its runs and their tasks.
Read(p) ==
    /\ op[p].at = "read"
    /\ Become(p, [op[p] EXCEPT !.at = "runs", !.seen = monitor[op[p].m]])
    /\ UNCHANGED <<today, tables, lock, bounds>>

ReadRuns(p) ==
    /\ op[p].at = "runs"
    /\ \E cur \in {NoTask} \cup Tasks :
          /\ IsCurrent(op[p].m, cur)
          /\ Become(p, [op[p] EXCEPT !.at = op[p].call, !.cur = cur,
                            !.curStatus = IF cur = NoTask THEN "absent" ELSE life[cur]])
    /\ UNCHANGED <<today, tables, lock, bounds>>

SetStatus(p, status) == monitor' = [monitor EXCEPT ![op[p].m].status = status]

PauseMonitor(p) ==
    /\ op[p].at = "pause"
    /\ SetStatus(p, "paused")
    /\ Goto(p, "pause_task")
    /\ UNCHANGED <<today, run, life, of, created, lock, bounds>>

\* Skipped when the task read was final or paused already.
PauseTask(p) ==
    /\ op[p].at = "pause_task"
    /\ LET t == op[p].cur IN
       IF t # NoTask /\ op[p].curStatus \notin Queue!FinalLife \cup {"paused"}
       THEN life' = [life EXCEPT ![t] = AfterPause(@)]
       ELSE UNCHANGED life
    /\ Return(p)
    /\ UNCHANGED <<today, monitor, run, of, created, lock, bounds>>

ResumeMonitor(p) ==
    /\ op[p].at = "resume"
    /\ \/ /\ ~op[p].seen.paid               \* rejected
          /\ Return(p)
          /\ UNCHANGED monitor
       \/ /\ op[p].seen.paid
          /\ SetStatus(p, "active")
          /\ Goto(p, "resume_task")
    /\ UNCHANGED <<today, run, life, of, created, lock, bounds>>

\* The queue refuses to resume a task that is no longer paused or failed, which
\* ends the call before its sync.
ResumeTask(p) ==
    /\ op[p].at = "resume_task"
    /\ LET t == op[p].cur
           wanted == /\ InTerm(op[p].seen, today)
                     /\ op[p].curStatus \in {"paused", "failed"}
                     /\ life[t] # "absent"
       IN  \/ /\ ~wanted
              /\ GoSync(p)
              /\ UNCHANGED life
           \/ /\ wanted
              /\ life[t] \in {"paused", "failed"}
              /\ life' = [life EXCEPT ![t] = "queued"]
              /\ GoSync(p)
           \/ /\ wanted
              /\ life[t] \notin {"paused", "failed"}
              /\ Return(p)
              /\ UNCHANGED life
    /\ UNCHANGED <<today, monitor, run, of, created, lock, bounds>>

\* Checks, then the cancel of the task read, unless it was final.
RerunCancel(p) ==
    /\ op[p].at = "rerun"
    /\ \/ /\ ~(op[p].seen.paid /\ InTerm(op[p].seen, today))    \* rejected
          /\ Return(p)
          /\ UNCHANGED life
       \/ /\ op[p].seen.paid /\ InTerm(op[p].seen, today)
          /\ LET t == op[p].cur IN
             IF t # NoTask /\ op[p].curStatus \notin Queue!FinalLife
             THEN life' = [life EXCEPT ![t] = AfterCancel(@)]
             ELSE UNCHANGED life
          /\ Become(p, [op[p] EXCEPT !.at = "rerun_create", !.day = today])
    /\ UNCHANGED <<today, monitor, run, of, created, lock, bounds>>

RerunCreate(p) ==
    /\ op[p].at = "rerun_create"
    /\ CreateTask(p, op[p].m, op[p].day, "rerun_record")
    /\ UNCHANGED <<today, monitor, run, lock, bounds>>

\* Mutant: the date is computed again.
RerunRecordToday(p) ==
    /\ op[p].at = "rerun_record"
    /\ run' = [run EXCEPT ![op[p].m][today] = op[p].fresh]
    /\ Return(p)
    /\ UNCHANGED <<today, monitor, life, of, created, lock, bounds>>

RerunRecord(p) ==
    /\ op[p].at = "rerun_record"
    /\ run' = [run EXCEPT ![op[p].m][op[p].day] = op[p].fresh]
    /\ Return(p)
    /\ UNCHANGED <<today, monitor, life, of, created, lock, bounds>>

\* The row is rewritten with the status read before, or paused; then one of
\* pause_paid_monitor, the queue's pause, rerun_paid_monitor and a sync.
UpdateMonitor(p) ==
    /\ op[p].at = "update"
    /\ \E paid, other \in BOOLEAN, s, e \in Days :
          LET m == op[p].m
              seen == op[p].seen
              row == [status |-> IF paid THEN seen.status ELSE "paused", paid |-> paid,
                      starts |-> s, expires |-> e]
              changed == other \/ s # seen.starts \/ e # seen.expires
          IN  /\ s <= e
              /\ monitor' = [monitor EXCEPT ![m] = row]
              /\ \/ /\ ~paid
                    /\ Become(p, [op[p] EXCEPT !.at = "read", !.call = "pause"])
                 \/ /\ paid /\ ~InTerm(row, today)
                    /\ Goto(p, "pause_task")
                 \/ /\ paid /\ InTerm(row, today) /\ changed /\ op[p].cur # NoTask
                    /\ Become(p, [op[p] EXCEPT !.at = "read", !.call = "rerun"])
                 \/ /\ paid /\ InTerm(row, today) /\ ~(changed /\ op[p].cur # NoTask)
                    /\ GoSync(p)
    /\ UNCHANGED <<today, run, life, of, created, lock, bounds>>

\* One transaction over all tables; the monitor stays, paused.
ClearMonitor(p) ==
    /\ op[p].at = "clear"
    /\ LET m == op[p].m IN
       /\ life' = [t \in Tasks |-> IF of[t].m = m THEN "absent" ELSE life[t]]
       /\ run' = [run EXCEPT ![m] = [d \in Days |-> NoRow]]
       /\ SetStatus(p, "paused")
    /\ Return(p)
    /\ UNCHANGED <<today, of, created, lock, bounds>>

-----------------------------------------------------------------------------
(* The surroundings.                                                       *)

\* Workers and operators move a task, or delete one that rests.
TaskMoves(t) ==
    /\ life[t] # "absent"
    /\ \E s \in Queue!LifeMoves[life[t]]
              \cup IF life[t] \in Queue!FinalLife \cup {"paused"} THEN {"absent"} ELSE {} :
          life' = [life EXCEPT ![t] = s]
    /\ UNCHANGED <<today, monitor, run, of, created, lock, op, bounds>>

Midnight ==
    /\ today < MaxDay
    /\ today' = today + 1
    /\ UNCHANGED <<tables, lock, op, bounds>>

\* The server process stops: its threads and its lock are gone.
Crash ==
    /\ crashes < MaxCrashes
    /\ crashes' = crashes + 1
    /\ op' = [p \in Threads |-> Idle]
    /\ lock' = NoThread
    /\ UNCHANGED <<today, tables, calls>>

Sync(p) ==
    \/ SyncSelect(p)
    \/ \E m \in Monitors : SyncRuns(p, m)
    \/ SyncCreate(p)
    \/ SyncRecord(p)

Continue(p) ==
    \/ Sync(p)
    \/ Read(p) \/ ReadRuns(p)
    \/ PauseMonitor(p) \/ PauseTask(p)
    \/ ResumeMonitor(p) \/ ResumeTask(p)
    \/ RerunCancel(p) \/ RerunCreate(p) \/ RerunRecord(p)
    \/ UpdateMonitor(p)
    \/ ClearMonitor(p)

Next ==
    \/ \E p \in Threads :
          \/ Poll(p)
          \/ \E m \in Monitors : CreateMonitor(p, m) \/ \E call \in AllCalls : Call(p, m, call)
          \/ Continue(p)
    \/ \E t \in Tasks : TaskMoves(t)
    \/ Midnight
    \/ Crash

Spec == Init /\ [][Next]_vars

\* Workers poll for ever and threads run on.
Fairness == \A p \in Threads : WF_vars(Poll(p)) /\ WF_vars(Continue(p))
FairSpec == Spec /\ Fairness

-----------------------------------------------------------------------------
(* Properties.                                                             *)

TypeOK ==
    /\ today \in Days
    /\ monitor \in [Monitors -> MonitorRow]
    /\ run \in [Monitors -> [Days -> Runs]]
    /\ life \in [Tasks -> Queue!LifeStates]
    /\ of \in [Tasks -> Owners]
    /\ created \in 0..MaxTasks
    /\ lock \in Threads \cup {NoThread}
    /\ op \in [Threads -> Op]
    /\ calls \in 0..MaxCalls
    /\ crashes \in 0..MaxCrashes

\* A run row names a task of its own monitor and its own day, over midnight,
\* restarts and any interleaving of syncs, reruns and clears.
RunsNameTheirTask ==
    \A m \in Monitors, d \in Days :
        run[m][d] \in Tasks => of[run[m][d]] = [m |-> m, day |-> d]

\* The polls of all workers together create one task per monitor and day: the
\* lock covers the way from the missing run row to the recorded task.  Holds
\* with pauses and resumes in between, without reruns, clears and restarts.
OneTaskPerDay ==
    \A t, u \in 1..created : of[t] = of[u] => t = u

\* The task of a day, once recorded, is only replaced by a rerun and only
\* dropped by a clear: a sync that comes late does not touch it.
RecordedRunStands ==
    [][\A m \in Monitors, d \in Days :
          run[m][d] \in Tasks /\ run'[m][d] # run[m][d] =>
             \E p \in Threads : op[p].m = m /\ op[p].at \in {"rerun_record", "clear"}]_vars

\* A monitor that stays due has a task recorded for the day, whatever restarts
\* and other calls did before: no thread keeps the lock, no half-done run row
\* is forgotten.
DueIsServed ==
    \A m \in Monitors, d \in Days :
        <>[](today = d /\ Due(monitor[m], d)) => <>(run[m][d] \in Tasks)

-----------------------------------------------------------------------------
(* Statements of tests and texts that this code does not keep.             *)

\* At most one task of a monitor and day is queued or running unasked.
OneLiveTaskPerDay ==
    \A t, u \in 1..created :
        of[t] = of[u] /\ {life[t], life[u]} \subseteq {"queued", "running"} => t = u

\* Only resume_paid_monitor ends the pause of a monitor.
PauseHolds ==
    [][\A m \in Monitors :
          monitor[m].status = "paused" /\ monitor'[m].status = "active" =>
             \E p \in Threads : op[p].m = m /\ op[p].at = "resume"]_vars

\* A cleared monitor has no tasks until it is resumed.
ClearedIsEmpty ==
    \A m \in Monitors :
        monitor[m].status = "paused" /\ (\A d \in Days : run[m][d] = NoRow) =>
            \A t \in Tasks : of[t].m = m => life[t] = "absent"
=============================================================================
