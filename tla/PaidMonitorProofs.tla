------------------------- MODULE PaidMonitorProofs -------------------------
(***************************************************************************)
(* Proofs about PaidMonitor: its types, that the run rows name the tasks   *)
(* created for them, that a recorded run stands, and, without reruns,      *)
(* updates, clears and restarts, that there is one task per monitor and    *)
(* day.                                                                    *)
(***************************************************************************)
EXTENDS PaidMonitor, TLAPS

\* A thread past the entry of its call has a monitor; one about to record a
\* task holds a task created for the monitor and day it will record it under.
ThreadOK ==
    \A p \in Threads :
        /\ op[p].at \notin {"idle", "sync", "sync_runs"} => op[p].m \in Monitors
        /\ op[p].at \in {"sync_record", "rerun_record"} =>
              /\ op[p].fresh \in Tasks
              /\ of[op[p].fresh] = [m |-> op[p].m, day |-> op[p].day]

\* A task that is not created yet belongs to nobody.
UncreatedFree == \A t \in Tasks : t > created => of[t] = NoOwner

IInv == TypeOK /\ ThreadOK /\ UncreatedFree /\ RunsNameTheirTask

USE DayAssumption, BoundAssumption, CallAssumption, NoneAssumption

-----------------------------------------------------------------------------
(* Records and functions.                                                  *)

LEMMA IdleType == Idle \in Op
  BY DEF Idle, Op, Places, AllCalls, MonitorRow, Unregistered, Days, Queue!LifeStates,
         Queue!FinalLife

\* What the actions make of the state of their thread.
LEMMA UpdateTypes ==
    ASSUME NEW o \in Op, NEW place \in Places
    PROVE  /\ [o EXCEPT !.at = place] \in Op
           /\ \A x \in SUBSET Monitors : [o EXCEPT !.at = place, !.due = x] \in Op
           /\ \A x \in SUBSET Monitors :
                 [o EXCEPT !.at = place, !.m = NoMonitor, !.fresh = NoTask, !.due = x] \in Op
           /\ \A x \in Monitors : [o EXCEPT !.at = place, !.m = x] \in Op
           /\ \A x \in Tasks : [o EXCEPT !.at = place, !.fresh = x] \in Op
           /\ \A x \in Days : [o EXCEPT !.at = place, !.day = x] \in Op
           /\ \A x \in MonitorRow : [o EXCEPT !.at = place, !.seen = x] \in Op
           /\ \A x \in AllCalls : [o EXCEPT !.at = place, !.call = x] \in Op
           /\ \A x \in AllCalls, y \in Monitors :
                 [o EXCEPT !.at = place, !.call = x, !.m = y] \in Op
           /\ \A x \in {NoTask} \cup Tasks, y \in Queue!LifeStates :
                 [o EXCEPT !.at = place, !.cur = x, !.curStatus = y] \in Op
<1>1. ASSUME NEW x \in SUBSET Monitors
      PROVE  /\ [o EXCEPT !.at = place, !.due = x] \in Op
             /\ [o EXCEPT !.at = place, !.m = NoMonitor, !.fresh = NoTask, !.due = x] \in Op
  BY DEF Op
<1>2. ASSUME NEW x \in {NoTask} \cup Tasks, NEW y \in Queue!LifeStates
      PROVE  [o EXCEPT !.at = place, !.cur = x, !.curStatus = y] \in Op
  BY DEF Op
<1>3. ASSUME NEW x \in AllCalls
      PROVE  /\ [o EXCEPT !.at = place, !.call = x] \in Op
             /\ \A y \in Monitors : [o EXCEPT !.at = place, !.call = x, !.m = y] \in Op
  BY DEF Op
<1>4. /\ [o EXCEPT !.at = place] \in Op
      /\ \A x \in Monitors : [o EXCEPT !.at = place, !.m = x] \in Op
      /\ \A x \in Tasks : [o EXCEPT !.at = place, !.fresh = x] \in Op
      /\ \A x \in Days : [o EXCEPT !.at = place, !.day = x] \in Op
      /\ \A x \in MonitorRow : [o EXCEPT !.at = place, !.seen = x] \in Op
  BY DEF Op
<1>5. QED
  BY <1>1, <1>2, <1>3, <1>4

\* Thread p goes to a place, with its monitor; the other threads stand still.
Alone(p) == \A q \in Threads : q # p => op'[q] = op[q]
Goes(p, place) == op'[p].at = place /\ Alone(p)
GoesOn(p, place) == Goes(p, place) /\ op'[p].m = op[p].m

LEMMA BecomeIs ==
    ASSUME op \in [Threads -> Op], NEW p \in Threads, NEW o, Become(p, o)
    PROVE  op'[p] = o /\ Alone(p)
  BY DEF Become, Alone

LEMMA Going ==
    ASSUME op \in [Threads -> Op], NEW p \in Threads
    PROVE  /\ Return(p) => Goes(p, "idle")
           /\ GoSync(p) => Goes(p, "sync")
           /\ \A place : Goto(p, place) => GoesOn(p, place)
           /\ \A place, x :
                 Become(p, [op[p] EXCEPT !.at = place, !.m = NoMonitor, !.fresh = NoTask, !.due = x])
                    => Goes(p, place)
           /\ \A place, x : Become(p, [op[p] EXCEPT !.at = place, !.m = x])
                               => Goes(p, place) /\ op'[p].m = x /\ op'[p].day = op[p].day
           /\ \A place, x, y : Become(p, [op[p] EXCEPT !.at = place, !.call = x, !.m = y])
                                  => Goes(p, place) /\ op'[p].m = y
           /\ \A place, x : Become(p, [op[p] EXCEPT !.at = place, !.due = x]) => GoesOn(p, place)
           /\ \A place, x : Become(p, [op[p] EXCEPT !.at = place, !.seen = x]) => GoesOn(p, place)
           /\ \A place, x : Become(p, [op[p] EXCEPT !.at = place, !.day = x]) => GoesOn(p, place)
           /\ \A place, x : Become(p, [op[p] EXCEPT !.at = place, !.call = x]) => GoesOn(p, place)
           /\ \A place, x, y : Become(p, [op[p] EXCEPT !.at = place, !.cur = x, !.curStatus = y])
                                  => GoesOn(p, place)
<1>0. op[p] \in Op
  OBVIOUS
<1>1. Return(p) => Goes(p, "idle")
  BY BecomeIs DEF Return, Goes, Idle
<1>2. ASSUME GoSync(p)
      PROVE  Goes(p, "sync")
  <2>1. op'[p] = [Idle EXCEPT !.at = "sync", !.day = today] /\ Alone(p)
    BY <1>2, BecomeIs DEF GoSync
  <2>2. [Idle EXCEPT !.at = "sync", !.day = today].at = "sync"
    BY DEF Idle
  <2>3. QED
    BY <2>1, <2>2 DEF Goes
<1>3. ASSUME NEW place, Goto(p, place)
      PROVE  GoesOn(p, place)
  <2>1. op'[p] = [op[p] EXCEPT !.at = place] /\ Alone(p)
    BY <1>3, BecomeIs DEF Goto
  <2>2. LET n == [op[p] EXCEPT !.at = place] IN n.at = place /\ n.m = op[p].m
    BY <1>0 DEF Op
  <2>3. QED
    BY <2>1, <2>2 DEF Goes, GoesOn
<1>4. ASSUME NEW place, NEW x,
             Become(p, [op[p] EXCEPT !.at = place, !.m = NoMonitor, !.fresh = NoTask, !.due = x])
      PROVE  Goes(p, place)
  <2>1. op'[p] = [op[p] EXCEPT !.at = place, !.m = NoMonitor, !.fresh = NoTask, !.due = x] /\ Alone(p)
    BY <1>4, BecomeIs
  <2>2. LET n == [op[p] EXCEPT !.at = place, !.m = NoMonitor, !.fresh = NoTask, !.due = x]
        IN  n.at = place
    BY <1>0 DEF Op
  <2>3. QED
    BY <2>1, <2>2 DEF Goes, GoesOn
<1>5. ASSUME NEW place, NEW x,
             Become(p, [op[p] EXCEPT !.at = place, !.m = x])
      PROVE  Goes(p, place) /\ op'[p].m = x /\ op'[p].day = op[p].day
  <2>1. op'[p] = [op[p] EXCEPT !.at = place, !.m = x] /\ Alone(p)
    BY <1>5, BecomeIs
  <2>2. LET n == [op[p] EXCEPT !.at = place, !.m = x]
        IN  n.at = place /\ n.m = x /\ n.day = op[p].day
    BY <1>0 DEF Op
  <2>3. QED
    BY <2>1, <2>2 DEF Goes, GoesOn
<1>6. ASSUME NEW place, NEW x, NEW y,
             Become(p, [op[p] EXCEPT !.at = place, !.call = x, !.m = y])
      PROVE  Goes(p, place) /\ op'[p].m = y
  <2>1. op'[p] = [op[p] EXCEPT !.at = place, !.call = x, !.m = y] /\ Alone(p)
    BY <1>6, BecomeIs
  <2>2. LET n == [op[p] EXCEPT !.at = place, !.call = x, !.m = y]
        IN  n.at = place /\ n.m = y
    BY <1>0 DEF Op
  <2>3. QED
    BY <2>1, <2>2 DEF Goes, GoesOn
<1>7. ASSUME NEW place, NEW x,
             Become(p, [op[p] EXCEPT !.at = place, !.due = x])
      PROVE  GoesOn(p, place)
  <2>1. op'[p] = [op[p] EXCEPT !.at = place, !.due = x] /\ Alone(p)
    BY <1>7, BecomeIs
  <2>2. LET n == [op[p] EXCEPT !.at = place, !.due = x]
        IN  n.at = place /\ n.m = op[p].m
    BY <1>0 DEF Op
  <2>3. QED
    BY <2>1, <2>2 DEF Goes, GoesOn
<1>8. ASSUME NEW place, NEW x,
             Become(p, [op[p] EXCEPT !.at = place, !.seen = x])
      PROVE  GoesOn(p, place)
  <2>1. op'[p] = [op[p] EXCEPT !.at = place, !.seen = x] /\ Alone(p)
    BY <1>8, BecomeIs
  <2>2. LET n == [op[p] EXCEPT !.at = place, !.seen = x]
        IN  n.at = place /\ n.m = op[p].m
    BY <1>0 DEF Op
  <2>3. QED
    BY <2>1, <2>2 DEF Goes, GoesOn
<1>9. ASSUME NEW place, NEW x,
             Become(p, [op[p] EXCEPT !.at = place, !.day = x])
      PROVE  GoesOn(p, place)
  <2>1. op'[p] = [op[p] EXCEPT !.at = place, !.day = x] /\ Alone(p)
    BY <1>9, BecomeIs
  <2>2. LET n == [op[p] EXCEPT !.at = place, !.day = x]
        IN  n.at = place /\ n.m = op[p].m
    BY <1>0 DEF Op
  <2>3. QED
    BY <2>1, <2>2 DEF Goes, GoesOn
<1>10. ASSUME NEW place, NEW x,
             Become(p, [op[p] EXCEPT !.at = place, !.call = x])
      PROVE  GoesOn(p, place)
  <2>1. op'[p] = [op[p] EXCEPT !.at = place, !.call = x] /\ Alone(p)
    BY <1>10, BecomeIs
  <2>2. LET n == [op[p] EXCEPT !.at = place, !.call = x]
        IN  n.at = place /\ n.m = op[p].m
    BY <1>0 DEF Op
  <2>3. QED
    BY <2>1, <2>2 DEF Goes, GoesOn
<1>11. ASSUME NEW place, NEW x, NEW y,
             Become(p, [op[p] EXCEPT !.at = place, !.cur = x, !.curStatus = y])
      PROVE  GoesOn(p, place)
  <2>1. op'[p] = [op[p] EXCEPT !.at = place, !.cur = x, !.curStatus = y] /\ Alone(p)
    BY <1>11, BecomeIs
  <2>2. LET n == [op[p] EXCEPT !.at = place, !.cur = x, !.curStatus = y]
        IN  n.at = place /\ n.m = op[p].m
    BY <1>0 DEF Op
  <2>3. QED
    BY <2>1, <2>2 DEF Goes, GoesOn
<1>12. QED
  BY <1>1, <1>2, <1>3, <1>4, <1>5, <1>6, <1>7, <1>8, <1>9, <1>10, <1>11

\* A thread takes a state of the type.
LEMMA BecomeType ==
    ASSUME op \in [Threads -> Op], NEW p \in Threads, NEW o \in Op, Become(p, o)
    PROVE  op' \in [Threads -> Op]
  BY DEF Become

-----------------------------------------------------------------------------
(* Types.                                                                  *)

LEMMA LifeTypes ==
    /\ \A s \in Queue!LifeStates :
          /\ AfterPause(s) \in Queue!LifeStates
          /\ AfterCancel(s) \in Queue!LifeStates
          /\ Queue!LifeMoves[s] \subseteq Queue!LifeStates
    /\ {"absent", "queued"} \subseteq Queue!LifeStates
  BY DEF Queue!LifeStates, Queue!FinalLife, Queue!LifeMoves, AfterPause, AfterCancel

LEMMA SyncKeepsType ==
    ASSUME TypeOK, ThreadOK, NEW p \in Threads, Sync(p)
    PROVE  TypeOK'
<1> USE DEF TypeOK, tables, bounds
<1>0. op[p] \in Op /\ {"sync_runs", "sync_create", "sync_record"} \subseteq Places
  BY DEF Places
<1>1. CASE SyncSelect(p)
  <2>1. op' \in [Threads -> Op]
    BY <1>0, <1>1, IdleType, UpdateTypes, BecomeType DEF SyncSelect, Return
  <2>2. QED
    BY <1>1, <2>1 DEF SyncSelect
<1>2. ASSUME NEW m \in Monitors, SyncRuns(p, m)
      PROVE  TypeOK'
  <2>1. op[p].due \ {m} \in SUBSET Monitors /\ op[p].day \in Days
    BY <1>0 DEF Op
  <2>2. op' \in [Threads -> Op]
    BY <1>0, <1>2, <2>1, IdleType, UpdateTypes, BecomeType DEF SyncRuns, NextMonitor, Return
  <2>3. run' \in [Monitors -> [Days -> Runs]] /\ lock' \in Threads \cup {NoThread}
    BY <1>2, <2>1 DEF SyncRuns, NextMonitor, Runs
  <2>4. QED
    BY <1>2, <2>2, <2>3 DEF SyncRuns
<1>3. CASE SyncCreate(p)
  <2>1. created + 1 \in Tasks
    BY <1>3 DEF SyncCreate, CreateTask, Tasks
  <2>2. op[p].m \in Monitors /\ op[p].day \in Days
    BY <1>3 DEF SyncCreate, ThreadOK, Op
  <2>3. of' \in [Tasks -> Owners]
    BY <1>3, <2>1, <2>2 DEF SyncCreate, CreateTask, Owners
  <2>4. life' \in [Tasks -> Queue!LifeStates]
    BY <1>3, LifeTypes DEF SyncCreate, CreateTask
  <2>5. op' \in [Threads -> Op]
    BY <1>0, <1>3, <2>1, UpdateTypes, BecomeType DEF SyncCreate, CreateTask
  <2>6. QED
    BY <1>3, <2>1, <2>3, <2>4, <2>5 DEF SyncCreate, CreateTask, Tasks
<1>4. CASE SyncRecord(p)
  <2>1. op[p].fresh \in Runs /\ op[p].day \in Days /\ op[p].due \ {op[p].m} \in SUBSET Monitors
    BY <1>0 DEF Op, Runs
  <2>2. run' \in [Monitors -> [Days -> Runs]]
    BY <1>4, <2>1 DEF SyncRecord
  <2>3. op' \in [Threads -> Op]
    BY <1>0, <1>4, <2>1, IdleType, UpdateTypes, BecomeType DEF SyncRecord, NextMonitor, Return
  <2>4. QED
    BY <1>4, <2>2, <2>3 DEF SyncRecord, NextMonitor
<1>5. QED
  BY <1>1, <1>2, <1>3, <1>4 DEF Sync

LEMMA GoSyncType ==
    ASSUME TypeOK, NEW p \in Threads, GoSync(p)
    PROVE  op' \in [Threads -> Op]
<1>1. Idle \in Op /\ "sync" \in Places /\ today \in Days
  BY IdleType DEF Places, TypeOK
<1>2. [Idle EXCEPT !.at = "sync", !.day = today] \in Op
  BY <1>1, UpdateTypes
<1>3. QED
  BY <1>2, BecomeType DEF GoSync, TypeOK

LEMMA CallKeepsType ==
    ASSUME TypeOK, ThreadOK, NEW p \in Threads,
           \/ Poll(p)
           \/ \E m \in Monitors : CreateMonitor(p, m) \/ \E call \in AllCalls : Call(p, m, call)
    PROVE  TypeOK'
<1> USE DEF TypeOK, tables, bounds
<1>1. ASSUME NEW m \in Monitors, CreateMonitor(p, m)
      PROVE  TypeOK'
  <2>1. monitor' \in [Monitors -> MonitorRow]
    BY <1>1 DEF CreateMonitor, MonitorRow, Days
  <2>2. op' \in [Threads -> Op]
    BY <1>1, GoSyncType DEF CreateMonitor
  <2>3. QED
    BY <1>1, <2>1, <2>2 DEF CreateMonitor
<1>2. CASE Poll(p)
  <2>1. op' \in [Threads -> Op]
    BY <1>2, GoSyncType DEF Poll
  <2>2. QED
    BY <1>2, <2>1 DEF Poll
<1>3. ASSUME NEW m \in Monitors, NEW call \in AllCalls, Call(p, m, call)
      PROVE  TypeOK'
  <2>1. op' \in [Threads -> Op]
    BY <1>3, UpdateTypes, BecomeType DEF Call, Places
  <2>2. calls' \in 0..MaxCalls
    <3>1. calls \in 0..MaxCalls /\ calls < MaxCalls /\ calls' = calls + 1
      BY <1>3 DEF Call
    <3>2. QED
      BY <3>1
  <2>3. QED
    BY <1>3, <2>1, <2>2 DEF Call
<1>4. QED
  BY <1>1, <1>2, <1>3

LEMMA SetStatusType ==
    ASSUME TypeOK, NEW p \in Threads, NEW status \in {"active", "paused"},
           op[p].m \in Monitors, SetStatus(p, status)
    PROVE  monitor' \in [Monitors -> MonitorRow]
  BY DEF SetStatus, TypeOK, MonitorRow

\* The calls that read, and those that change one task or one monitor.
LEMMA ContinueKeepsType ==
    ASSUME TypeOK, ThreadOK, NEW p \in Threads, Continue(p)
    PROVE  TypeOK'
<1> USE DEF TypeOK, tables, bounds
<1> DEFINE o == op[p]
<1>0. /\ o \in Op
      /\ o.cur \in {NoTask} \cup Tasks /\ o.call \in Places /\ o.day \in Days
      /\ o.at \notin {"idle", "sync", "sync_runs"} => o.m \in Monitors
  BY DEF Op, Places, AllCalls, ThreadOK
<1>01. \A t \in {NoTask} \cup Tasks : t # NoTask => life[t] \in Queue!LifeStates
  BY DEF NoTask
<1> HIDE DEF o
<1>1. CASE Read(p)
  <2>1. op' \in [Threads -> Op]
    BY <1>0, <1>1, UpdateTypes, BecomeType DEF Read, Places, o
  <2>2. QED
    BY <1>1, <2>1 DEF Read
<1>2. CASE ReadRuns(p)
  <2>1. op' \in [Threads -> Op]
    BY <1>0, <1>01, <1>2, LifeTypes, UpdateTypes, BecomeType DEF ReadRuns, o
  <2>2. QED
    BY <1>2, <2>1 DEF ReadRuns
<1>3. CASE PauseMonitor(p)
  <2>1. op' \in [Threads -> Op]
    BY <1>0, <1>3, UpdateTypes, BecomeType DEF PauseMonitor, Goto, Places, o
  <2>2. monitor' \in [Monitors -> MonitorRow]
    BY <1>0, <1>3, SetStatusType DEF PauseMonitor, o
  <2>3. QED
    BY <1>3, <2>1, <2>2 DEF PauseMonitor
<1>4. CASE PauseTask(p)
  <2>1. op' \in [Threads -> Op]
    BY <1>4, IdleType, BecomeType DEF PauseTask, Return
  <2>2. life' \in [Tasks -> Queue!LifeStates]
    BY <1>4, LifeTypes DEF PauseTask
  <2>3. QED
    BY <1>4, <2>1, <2>2 DEF PauseTask
<1>5. CASE ResumeMonitor(p)
  <2>1. op' \in [Threads -> Op]
    BY <1>0, <1>5, IdleType, UpdateTypes, BecomeType
    DEF ResumeMonitor, Return, Goto, Places, o
  <2>2. monitor' \in [Monitors -> MonitorRow]
    BY <1>0, <1>5, SetStatusType DEF ResumeMonitor, o
  <2>3. QED
    BY <1>5, <2>1, <2>2 DEF ResumeMonitor
<1>6. CASE ResumeTask(p)
  <2>1. op' \in [Threads -> Op]
    BY <1>6, IdleType, BecomeType, GoSyncType DEF ResumeTask, Return
  <2>2. life' \in [Tasks -> Queue!LifeStates]
    BY <1>6, LifeTypes DEF ResumeTask
  <2>3. QED
    BY <1>6, <2>1, <2>2 DEF ResumeTask
<1>7. CASE RerunCancel(p)
  <2>1. op' \in [Threads -> Op]
    BY <1>0, <1>7, IdleType, UpdateTypes, BecomeType DEF RerunCancel, Return, Places, o
  <2>2. life' \in [Tasks -> Queue!LifeStates]
    BY <1>7, LifeTypes DEF RerunCancel
  <2>3. QED
    BY <1>7, <2>1, <2>2 DEF RerunCancel
<1>8. CASE RerunCreate(p)
  <2>1. created + 1 \in Tasks
    BY <1>8 DEF RerunCreate, CreateTask, Tasks
  <2>2. of' \in [Tasks -> Owners]
    BY <1>0, <1>8, <2>1 DEF RerunCreate, CreateTask, Owners, o
  <2>3. life' \in [Tasks -> Queue!LifeStates]
    BY <1>8, LifeTypes DEF RerunCreate, CreateTask
  <2>4. op' \in [Threads -> Op]
    BY <1>0, <1>8, <2>1, UpdateTypes, BecomeType DEF RerunCreate, CreateTask, Places, o
  <2>5. QED
    BY <1>8, <2>1, <2>2, <2>3, <2>4 DEF RerunCreate, CreateTask, Tasks
<1>9. CASE RerunRecord(p)
  <2>1. op' \in [Threads -> Op]
    BY <1>9, IdleType, BecomeType DEF RerunRecord, Return
  <2>2. op[p].fresh \in Runs
    BY DEF Op, Runs
  <2>3. run' \in [Monitors -> [Days -> Runs]]
    BY <1>0, <1>9, <2>2 DEF RerunRecord, o
  <2>4. QED
    BY <1>9, <2>1, <2>3 DEF RerunRecord
<1>10. CASE UpdateMonitor(p)
  <2>1. \/ Become(p, [o EXCEPT !.at = "read", !.call = "pause"])
        \/ Become(p, [o EXCEPT !.at = "pause_task"])
        \/ Become(p, [o EXCEPT !.at = "read", !.call = "rerun"])
        \/ GoSync(p)
    BY <1>10 DEF UpdateMonitor, Goto, o
  <2>2. /\ [o EXCEPT !.at = "read", !.call = "pause"] \in Op
        /\ [o EXCEPT !.at = "pause_task"] \in Op
        /\ [o EXCEPT !.at = "read", !.call = "rerun"] \in Op
    BY <1>0, UpdateTypes DEF Places, AllCalls
  <2>3. op' \in [Threads -> Op]
    BY <2>1, <2>2, BecomeType, GoSyncType
  <2>4. monitor' \in [Monitors -> MonitorRow]
    BY <1>0, <1>10 DEF UpdateMonitor, MonitorRow, Days, Op, o
  <2>5. QED
    BY <1>10, <2>3, <2>4 DEF UpdateMonitor
<1>11. CASE ClearMonitor(p)
  <2>1. op' \in [Threads -> Op]
    BY <1>11, IdleType, BecomeType DEF ClearMonitor, Return
  <2>2. monitor' \in [Monitors -> MonitorRow]
    BY <1>0, <1>11, SetStatusType DEF ClearMonitor, o
  <2>3. run' \in [Monitors -> [Days -> Runs]] /\ life' \in [Tasks -> Queue!LifeStates]
    BY <1>11, LifeTypes DEF ClearMonitor, Runs
  <2>4. QED
    BY <1>11, <2>1, <2>2, <2>3 DEF ClearMonitor
<1>12. QED
  BY <1>1, <1>2, <1>3, <1>4, <1>5, <1>6, <1>7, <1>8, <1>9, <1>10, <1>11, SyncKeepsType
  DEF Continue

\* The surroundings.
LEMMA WorldKeepsType ==
    ASSUME TypeOK, (\E t \in Tasks : TaskMoves(t)) \/ Midnight \/ Crash
    PROVE  TypeOK'
<1> USE DEF TypeOK, tables, bounds
<1>1. ASSUME NEW t \in Tasks, TaskMoves(t)
      PROVE  TypeOK'
  BY <1>1, LifeTypes DEF TaskMoves
<1>2. CASE Midnight
  BY <1>2 DEF Midnight, Days
<1>3. CASE Crash
  BY <1>3, IdleType DEF Crash
<1>4. QED
  BY <1>1, <1>2, <1>3

-----------------------------------------------------------------------------
(* The invariant.                                                          *)

LEMMA InitInv == Init => IInv
<1>1. Init => TypeOK
  BY IdleType DEF Init, TypeOK, MonitorRow, Unregistered, Days, Runs, NoRow, Owners,
     Queue!LifeStates
<1>2. Init => ThreadOK /\ UncreatedFree /\ RunsNameTheirTask
  BY DEF Init, ThreadOK, UncreatedFree, RunsNameTheirTask, Idle, NoRow, Tasks
<1>3. QED
  BY <1>1, <1>2 DEF IInv

\* A task is created for the monitor and day its thread works on.
LEMMA CreateKeepsInv ==
    ASSUME IInv, NEW p \in Threads, NEW place \in {"sync_record", "rerun_record"},
           op[p].m \in Monitors, CreateTask(p, op[p].m, op[p].day, place), run' = run
    PROVE  ThreadOK' /\ UncreatedFree' /\ RunsNameTheirTask'
<1>1. /\ created + 1 \in Tasks /\ of[created + 1] = NoOwner
      /\ op[p] \in Op /\ op[p].day \in Days
  BY DEF IInv, CreateTask, UncreatedFree, TypeOK, Tasks, Op
<1>2. /\ of'[created + 1] = [m |-> op[p].m, day |-> op[p].day]
      /\ \A t \in Tasks : t # created + 1 => of'[t] = of[t]
  BY <1>1 DEF IInv, CreateTask, TypeOK
<1>3. /\ op'[p].m = op[p].m /\ op'[p].day = op[p].day /\ op'[p].fresh = created + 1
      /\ \A q \in Threads : q # p => op'[q] = op[q]
  BY <1>1 DEF IInv, CreateTask, Become, TypeOK, Op
<1>4. ThreadOK'
  <2>1. \A q \in Threads : op[q].at \in {"sync_record", "rerun_record"} =>
            op[q].fresh # created + 1
    <3>1. \A m \in Monitors, d \in Days : [m |-> m, day |-> d] # NoOwner
      BY DEF NoOwner
    <3>2. ASSUME NEW q \in Threads, op[q].at \in {"sync_record", "rerun_record"}
          PROVE  op[q].fresh # created + 1
      <4>1. /\ op[q].m \in Monitors /\ op[q].day \in Days
            /\ of[op[q].fresh] = [m |-> op[q].m, day |-> op[q].day]
        BY <3>2 DEF IInv, ThreadOK, TypeOK, Op
      <4>2. of[op[q].fresh] # NoOwner
        BY <3>1, <4>1
      <4>3. QED
        BY <1>1, <4>2
    <3>3. QED
      BY <3>2
  <2>2. QED
    BY <1>1, <1>2, <1>3, <2>1 DEF IInv, ThreadOK
<1>5. UncreatedFree'
  BY <1>1, <1>2 DEF IInv, UncreatedFree, CreateTask, TypeOK, Tasks
<1>6. RunsNameTheirTask'
  BY <1>1, <1>2 DEF IInv, RunsNameTheirTask, NoOwner, Tasks
<1>7. QED
  BY <1>4, <1>5, <1>6

\* A thread records its task under the monitor and day of that task.
LEMMA RecordKeepsRuns ==
    ASSUME IInv, NEW p \in Threads, op[p].at \in {"sync_record", "rerun_record"},
           \/ run' = run
           \/ run' = [run EXCEPT ![op[p].m][op[p].day] = op[p].fresh],
           of' = of
    PROVE  RunsNameTheirTask'
<1>1. op[p].m \in Monitors /\ op[p].day \in Days
  BY DEF IInv, ThreadOK, TypeOK, Op
<1>2. of[op[p].fresh] = [m |-> op[p].m, day |-> op[p].day]
  BY DEF IInv, ThreadOK
<1>3. QED
  BY <1>1, <1>2 DEF IInv, RunsNameTheirTask, TypeOK

\* Steps that leave the owners of tasks alone and take their thread to a place
\* that promises nothing, or keep its monitor.
LEMMA MoveKeepsThreads ==
    ASSUME IInv, NEW p \in Threads, of' = of, created' = created,
           \A q \in Threads : q # p => op'[q] = op[q],
           op'[p].at \notin {"sync_record", "rerun_record"},
           op'[p].at \in {"idle", "sync", "sync_runs"} \/ op'[p].m \in Monitors
    PROVE  ThreadOK' /\ UncreatedFree'
  BY DEF IInv, ThreadOK, UncreatedFree

\* The run rows of a step that empties some and fills none.
LEMMA EmptyKeepsRuns ==
    ASSUME IInv, of' = of,
           \A m \in Monitors, d \in Days : run'[m][d] \in {run[m][d], NoTask, NoRow}
    PROVE  RunsNameTheirTask'
  BY DEF IInv, RunsNameTheirTask, NoTask, NoRow, Tasks

LEMMA SyncKeepsInv ==
    ASSUME IInv, NEW p \in Threads, Sync(p)
    PROVE  ThreadOK' /\ UncreatedFree' /\ RunsNameTheirTask'
<1>0. /\ op[p] \in Op /\ op \in [Threads -> Op] /\ run \in [Monitors -> [Days -> Runs]]
      /\ op[p].day \in Days
  BY DEF IInv, TypeOK, Op
<1>1. CASE SyncSelect(p)
  <2>1. op'[p].at \in {"idle", "sync_runs"} /\ \A q \in Threads : q # p => op'[q] = op[q]
    BY <1>0, <1>1, Going DEF SyncSelect, Goes, GoesOn, Alone
  <2>2. QED
    BY <1>1, <2>1, MoveKeepsThreads, EmptyKeepsRuns DEF SyncSelect, tables
<1>2. ASSUME NEW m \in Monitors, SyncRuns(p, m)
      PROVE  ThreadOK' /\ UncreatedFree' /\ RunsNameTheirTask'
  <2>1. /\ \/ op'[p].at \in {"idle", "sync_runs"}
           \/ op'[p].at = "sync_create" /\ op'[p].m = m
        /\ \A q \in Threads : q # p => op'[q] = op[q]
    BY <1>0, <1>2, Going DEF SyncRuns, NextMonitor, Goes, GoesOn, Alone
  <2>2. \A n \in Monitors, d \in Days : run'[n][d] \in {run[n][d], NoTask, NoRow}
    BY <1>0, <1>2 DEF SyncRuns
  <2>3. QED
    BY <1>2, <2>1, <2>2, MoveKeepsThreads, EmptyKeepsRuns DEF SyncRuns
<1>3. CASE SyncCreate(p)
  <2>1. op[p].m \in Monitors
    BY <1>3 DEF SyncCreate, IInv, ThreadOK
  <2>2. QED
    BY <1>3, <2>1, CreateKeepsInv DEF SyncCreate
<1>4. CASE SyncRecord(p)
  <2>1. op'[p].at \in {"idle", "sync_runs"} /\ \A q \in Threads : q # p => op'[q] = op[q]
    BY <1>0, <1>4, Going DEF SyncRecord, NextMonitor, Goes, GoesOn, Alone
  <2>2. op[p].m \in Monitors
    BY <1>4 DEF SyncRecord, IInv, ThreadOK
  <2>3. \/ run' = run
        \/ run' = [run EXCEPT ![op[p].m][op[p].day] = op[p].fresh]
    <3>1. CASE run[op[p].m][op[p].day] = NoTask
      BY <1>0, <1>4, <2>2, <3>1 DEF SyncRecord
    <3>2. CASE run[op[p].m][op[p].day] # NoTask
      BY <1>0, <1>4, <2>2, <3>2 DEF SyncRecord
    <3>3. QED
      BY <3>1, <3>2
  <2>4. RunsNameTheirTask'
    BY <1>4, <2>3, RecordKeepsRuns DEF SyncRecord
  <2>5. QED
    BY <1>4, <2>1, <2>4, MoveKeepsThreads DEF SyncRecord
<1>5. QED
  BY <1>1, <1>2, <1>3, <1>4 DEF Sync

LEMMA CallKeepsInv ==
    ASSUME IInv, NEW p \in Threads,
           \/ Poll(p)
           \/ \E m \in Monitors : CreateMonitor(p, m) \/ \E call \in AllCalls : Call(p, m, call)
    PROVE  ThreadOK' /\ UncreatedFree' /\ RunsNameTheirTask'
<1>0. op[p] \in Op /\ op \in [Threads -> Op]
  BY DEF IInv, TypeOK
<1>1. /\ \/ op'[p].at = "sync"
         \/ op'[p].at = "read" /\ op'[p].m \in Monitors
      /\ \A q \in Threads : q # p => op'[q] = op[q]
  <2>1. CASE Poll(p)
    <3>1. GoSync(p)
      BY <2>1 DEF Poll
    <3>2. Goes(p, "sync")
      BY <1>0, <3>1, Going
    <3>3. QED
      BY <3>2 DEF Goes, Alone
  <2>2. ASSUME NEW m \in Monitors, CreateMonitor(p, m)
        PROVE  Goes(p, "sync")
    BY <1>0, <2>2, Going DEF CreateMonitor
  <2>3. ASSUME NEW m \in Monitors, NEW call \in AllCalls, Call(p, m, call)
        PROVE  Goes(p, "read") /\ op'[p].m = m
    <3>1. Become(p, [op[p] EXCEPT !.at = "read", !.call = call, !.m = m])
      BY <2>3 DEF Call
    <3>2. QED
      BY <1>0, <3>1, Going
  <2>4. CASE ~Poll(p)
    <3>1. Goes(p, "sync") \/ (Goes(p, "read") /\ op'[p].m \in Monitors)
      BY <2>2, <2>3, <2>4
    <3>2. QED
      BY <3>1 DEF Goes, Alone
  <2>5. QED
    BY <2>1, <2>4
<1>2. of' = of /\ created' = created /\ run' = run
  BY DEF CreateMonitor, Poll, Call, tables
<1>3. QED
  BY <1>1, <1>2, MoveKeepsThreads, EmptyKeepsRuns

LEMMA ContinueKeepsInv ==
    ASSUME IInv, NEW p \in Threads, Continue(p)
    PROVE  ThreadOK' /\ UncreatedFree' /\ RunsNameTheirTask'
<1>0. /\ op[p] \in Op /\ op \in [Threads -> Op] /\ run \in [Monitors -> [Days -> Runs]]
      /\ op[p].day \in Days /\ op[p].call \in AllCalls \cup {"sync"}
  BY DEF IInv, TypeOK, Op
<1>1. CASE Read(p) \/ ReadRuns(p)
  <2>1. op[p].m \in Monitors
    BY <1>1 DEF Read, ReadRuns, IInv, ThreadOK
  <2>2. /\ op'[p].m \in Monitors /\ op'[p].at \notin {"sync_record", "rerun_record"}
        /\ \A q \in Threads : q # p => op'[q] = op[q]
    <3>1. CASE Read(p)
      <4>1. GoesOn(p, "runs")
        BY <1>0, <3>1, Going DEF Read
      <4>2. QED
        BY <2>1, <4>1 DEF Goes, GoesOn, Alone
    <3>2. CASE ReadRuns(p)
      <4>1. GoesOn(p, op[p].call)
        BY <1>0, <3>2, Going DEF ReadRuns
      <4>2. QED
        BY <1>0, <2>1, <4>1 DEF Goes, GoesOn, Alone, AllCalls
    <3>3. QED
      BY <1>1, <3>1, <3>2
  <2>3. QED
    BY <1>1, <2>2, MoveKeepsThreads, EmptyKeepsRuns DEF Read, ReadRuns, tables
<1>2. CASE PauseMonitor(p) \/ PauseTask(p) \/ ResumeMonitor(p) \/ ResumeTask(p)
  <2>1. /\ \/ op'[p].at \in {"idle", "sync"}
           \/ op'[p].at \in {"pause_task", "resume_task"} /\ op'[p].m = op[p].m
        /\ \A q \in Threads : q # p => op'[q] = op[q]
    BY <1>0, <1>2, Going
    DEF PauseMonitor, PauseTask, ResumeMonitor, ResumeTask, Goes, GoesOn, Alone
  <2>2. op[p].m \in Monitors
    BY <1>2 DEF PauseMonitor, PauseTask, ResumeMonitor, ResumeTask, IInv, ThreadOK
  <2>3. of' = of /\ created' = created /\ run' = run
    BY <1>2 DEF PauseMonitor, PauseTask, ResumeMonitor, ResumeTask
  <2>4. QED
    BY <2>1, <2>2, <2>3, MoveKeepsThreads, EmptyKeepsRuns
<1>3. CASE RerunCancel(p)
  <2>1. /\ \/ op'[p].at = "idle"
           \/ op'[p].at = "rerun_create" /\ op'[p].m = op[p].m
        /\ \A q \in Threads : q # p => op'[q] = op[q]
    <3>1. Return(p) \/ Become(p, [op[p] EXCEPT !.at = "rerun_create", !.day = today])
      BY <1>3 DEF RerunCancel
    <3>2. Goes(p, "idle") \/ GoesOn(p, "rerun_create")
      BY <1>0, <3>1, Going
    <3>3. QED
      BY <3>2 DEF Goes, GoesOn, Alone
  <2>2. op[p].m \in Monitors
    BY <1>3 DEF RerunCancel, IInv, ThreadOK
  <2>3. QED
    BY <1>3, <2>1, <2>2, MoveKeepsThreads, EmptyKeepsRuns DEF RerunCancel
<1>4. CASE RerunCreate(p)
  <2>1. op[p].m \in Monitors
    BY <1>4 DEF RerunCreate, IInv, ThreadOK
  <2>2. QED
    BY <1>4, <2>1, CreateKeepsInv DEF RerunCreate
<1>5. CASE RerunRecord(p)
  <2>1. op'[p].at = "idle" /\ \A q \in Threads : q # p => op'[q] = op[q]
    BY <1>0, <1>5, Going DEF RerunRecord, Goes, Alone
  <2>2. RunsNameTheirTask'
    BY <1>5, RecordKeepsRuns DEF RerunRecord
  <2>3. QED
    BY <1>5, <2>1, <2>2, MoveKeepsThreads DEF RerunRecord
<1>6. CASE UpdateMonitor(p)
  <2>1. \/ Become(p, [op[p] EXCEPT !.at = "read", !.call = "pause"])
        \/ Goto(p, "pause_task")
        \/ Become(p, [op[p] EXCEPT !.at = "read", !.call = "rerun"])
        \/ GoSync(p)
    BY <1>6 DEF UpdateMonitor
  <2>2. /\ \/ op'[p].at = "sync"
           \/ op'[p].at \in {"read", "pause_task"} /\ op'[p].m = op[p].m
        /\ \A q \in Threads : q # p => op'[q] = op[q]
    BY <1>0, <2>1, Going DEF Goes, GoesOn, Alone
  <2>3. op[p].m \in Monitors
    BY <1>6 DEF UpdateMonitor, IInv, ThreadOK
  <2>4. of' = of /\ created' = created /\ run' = run
    BY <1>6 DEF UpdateMonitor
  <2>5. QED
    BY <2>2, <2>3, <2>4, MoveKeepsThreads, EmptyKeepsRuns
<1>7. CASE ClearMonitor(p)
  <2>1. op'[p].at = "idle" /\ \A q \in Threads : q # p => op'[q] = op[q]
    BY <1>0, <1>7, Going DEF ClearMonitor, Goes, Alone
  <2>2. \A m \in Monitors, d \in Days : run'[m][d] \in {run[m][d], NoTask, NoRow}
    BY <1>0, <1>7 DEF ClearMonitor
  <2>3. QED
    BY <1>7, <2>1, <2>2, MoveKeepsThreads, EmptyKeepsRuns DEF ClearMonitor
<1>8. QED
  BY <1>1, <1>2, <1>3, <1>4, <1>5, <1>6, <1>7, SyncKeepsInv DEF Continue

LEMMA WorldKeepsInv ==
    ASSUME IInv, (\E t \in Tasks : TaskMoves(t)) \/ Midnight \/ Crash
    PROVE  ThreadOK' /\ UncreatedFree' /\ RunsNameTheirTask'
<1>1. of' = of /\ created' = created /\ run' = run
  BY DEF TaskMoves, Midnight, Crash, tables
<1>2. op' = op \/ op' = [p \in Threads |-> Idle]
  BY DEF TaskMoves, Midnight, Crash
<1>3. ThreadOK' /\ UncreatedFree'
  BY <1>1, <1>2 DEF IInv, ThreadOK, UncreatedFree, Idle
<1>4. QED
  BY <1>1, <1>3, EmptyKeepsRuns

LEMMA StepKeepsInv == IInv /\ [Next]_vars => IInv'
<1> SUFFICES ASSUME IInv, [Next]_vars
             PROVE  IInv'
  OBVIOUS
<1>1. CASE UNCHANGED vars
  BY <1>1 DEF IInv, vars, TypeOK, ThreadOK, UncreatedFree, RunsNameTheirTask
<1>2. ASSUME NEW p \in Threads, Continue(p)
      PROVE  IInv'
  BY <1>2, ContinueKeepsType, ContinueKeepsInv DEF IInv
<1>3. ASSUME NEW p \in Threads,
             \/ Poll(p)
             \/ \E m \in Monitors : CreateMonitor(p, m) \/ \E call \in AllCalls : Call(p, m, call)
      PROVE  IInv'
  BY <1>3, CallKeepsType, CallKeepsInv DEF IInv
<1>4. CASE (\E t \in Tasks : TaskMoves(t)) \/ Midnight \/ Crash
  BY <1>4, WorldKeepsType, WorldKeepsInv DEF IInv
<1>5. QED
  BY <1>1, <1>2, <1>3, <1>4 DEF Next

THEOREM MonitorInvariant == Spec => []IInv
  BY InitInv, StepKeepsInv, PTL DEF Spec

-----------------------------------------------------------------------------
(* The theorems of every instance.                                         *)

\* Every variable keeps its type.
THEOREM MonitorTypes == Spec => []TypeOK
<1>1. IInv => TypeOK
  BY DEF IInv
<1>2. QED
  BY <1>1, MonitorInvariant, PTL

\* Every run row names a task created for its monitor and its day: no call that
\* runs over midnight, is overtaken by a clear or loses its server writes the
\* task of one day into the row of another.
THEOREM RunsAreTheirOwn == Spec => []RunsNameTheirTask
<1>1. IInv => RunsNameTheirTask
  BY DEF IInv
<1>2. QED
  BY <1>1, MonitorInvariant, PTL

\* Only a rerun replaces the recorded task of a day and only a clear drops it.
THEOREM RecordedStands == Spec => RecordedRunStands
<1> DEFINE Move == \A m \in Monitors, d \in Days :
                      run[m][d] \in Tasks /\ run'[m][d] # run[m][d] =>
                         \E p \in Threads : op[p].m = m /\ op[p].at \in {"rerun_record", "clear"}
<1>1. TypeOK /\ [Next]_vars => [Move]_vars
  <2> SUFFICES ASSUME TypeOK, Next, NEW m \in Monitors, NEW d \in Days,
                      run[m][d] \in Tasks, run'[m][d] # run[m][d]
               PROVE  \E p \in Threads : op[p].m = m /\ op[p].at \in {"rerun_record", "clear"}
    OBVIOUS
  <2>0. run \in [Monitors -> [Days -> Runs]] /\ run[m][d] # NoTask
    BY DEF TypeOK, NoTask, Tasks
  <2>1. ASSUME NEW p \in Threads, Continue(p)
        PROVE  op[p].m = m /\ op[p].at \in {"rerun_record", "clear"}
    <3>1. ~Sync(p)
      <4>1. ~SyncSelect(p) /\ ~SyncCreate(p)
        BY DEF SyncSelect, SyncCreate, tables
      <4>2. ~SyncRecord(p)
        BY <2>0 DEF SyncRecord
      <4>3. ASSUME NEW n \in Monitors
            PROVE  ~SyncRuns(p, n)
        BY <2>0 DEF SyncRuns
      <4>4. QED
        BY <4>1, <4>2, <4>3 DEF Sync
    <3>2. RerunRecord(p) \/ ClearMonitor(p)
      BY <2>1, <3>1
      DEF Continue, Read, ReadRuns, PauseMonitor, PauseTask, ResumeMonitor, ResumeTask,
          RerunCancel, RerunCreate, UpdateMonitor, tables
    <3>3. QED
      BY <2>0, <3>2 DEF RerunRecord, ClearMonitor
  <2>2. run' # run
    OBVIOUS
  <2>3. QED
    BY <2>1, <2>2 DEF Next, Poll, CreateMonitor, Call, TaskMoves, Midnight, Crash, tables
<1>2. QED
  BY <1>1, MonitorTypes, PTL DEF Spec, RecordedRunStands

-----------------------------------------------------------------------------
(* One task per monitor and day, while the administrator only pauses and    *)
(* resumes and the server does not restart.                                *)

InSync == {"sync_runs", "sync_create", "sync_record"}

\* Only the holder of the lock is inside sync, and between finding a run row
\* without a task and recording one the row stays without.
LockHeld ==
    \A p \in Threads :
        /\ op[p].at \in InSync => lock = p
        /\ op[p].at \in {"sync_create", "sync_record"} => run[op[p].m][op[p].day] = NoTask

\* Every task is recorded under its monitor and day, or held by the thread that
\* is about to record it.
Recorded(t) == of[t].m \in Monitors /\ of[t].day \in Days /\ run[of[t].m][of[t].day] = t
Accounted(t) ==
    \/ Recorded(t)
    \/ \E p \in Threads : op[p].at = "sync_record" /\ op[p].fresh = t

\* No thread is in, or on its way to, a call that creates or erases tasks.
NoOtherCall ==
    \A p \in Threads :
        /\ op[p].at \notin {"rerun", "rerun_create", "rerun_record", "update", "clear"}
        /\ op[p].at \in {"read", "runs"} => op[p].call \in {"pause", "resume"}

DayInv == LockHeld /\ NoOtherCall /\ \A t \in 1..created : Accounted(t)

DayAssume == Calls \subseteq {"pause", "resume"} /\ MaxCrashes = 0

LEMMA InitDay == Init => DayInv
  BY DEF Init, DayInv, LockHeld, NoOtherCall, InSync, Idle

\* Two tasks of one monitor and day would both be accounted for by its one row.
LEMMA DayInvImplies == IInv /\ DayInv => OneTaskPerDay
<1> SUFFICES ASSUME IInv, DayInv, NEW t \in 1..created, NEW u \in 1..created, of[t] = of[u]
             PROVE  t = u
  BY DEF OneTaskPerDay
<1>1. t \in Tasks /\ u \in Tasks /\ NoTask \notin Tasks
  BY DEF IInv, TypeOK, Tasks, NoTask
<1>2. ASSUME NEW p \in Threads, op[p].at = "sync_record"
      PROVE  /\ of[op[p].fresh].m = op[p].m /\ of[op[p].fresh].day = op[p].day
             /\ run[op[p].m][op[p].day] = NoTask /\ lock = p
  <2>1. of[op[p].fresh] = [m |-> op[p].m, day |-> op[p].day]
    BY <1>2 DEF IInv, ThreadOK
  <2>2. QED
    BY <1>2, <2>1 DEF DayInv, LockHeld, InSync
<1>3. ASSUME NEW x \in Tasks, NEW y \in Tasks, of[x] = of[y], Recorded(x),
             NEW p \in Threads, op[p].at = "sync_record", op[p].fresh = y
      PROVE  FALSE
  BY <1>1, <1>2, <1>3 DEF Recorded
<1>4. CASE Recorded(t) /\ Recorded(u)
  BY <1>4 DEF Recorded
<1>5. CASE ~Recorded(t) /\ ~Recorded(u)
  BY <1>2, <1>5 DEF DayInv, Accounted
<1>6. QED
  BY <1>1, <1>3, <1>4, <1>5 DEF DayInv, Accounted

\* A thread that stays outside the lock.
LEMMA OutsideKeepsDay ==
    ASSUME DayInv, NEW p \in Threads, Alone(p), of' = of, created' = created, run' = run,
           lock' = lock, op[p].at \notin InSync,
           op'[p].at \notin InSync \cup {"rerun", "rerun_create", "rerun_record", "update", "clear"},
           op'[p].at \in {"read", "runs"} => op'[p].call \in {"pause", "resume"}
    PROVE  DayInv'
<1>1. LockHeld'
  BY DEF DayInv, LockHeld, Alone, InSync
<1>2. NoOtherCall'
  BY DEF DayInv, NoOtherCall, Alone
<1>3. ASSUME NEW t \in 1..created
      PROVE  Accounted(t)'
  BY <1>3 DEF DayInv, Accounted, Recorded, Alone, InSync
<1>4. QED
  BY <1>1, <1>2, <1>3 DEF DayInv

LEMMA SyncKeepsDay ==
    ASSUME IInv, IInv', DayInv, NEW p \in Threads, Sync(p)
    PROVE  DayInv'
<1>0. /\ op[p] \in Op /\ op \in [Threads -> Op] /\ run \in [Monitors -> [Days -> Runs]]
      /\ op[p].day \in Days /\ of \in [Tasks -> Owners] /\ created \in 0..MaxTasks
  BY DEF IInv, TypeOK, Op
<1>1. CASE SyncSelect(p)
  <2>1. /\ Alone(p) /\ lock = NoThread
        /\ \/ op'[p].at = "idle" /\ lock' = lock
           \/ op'[p].at = "sync_runs" /\ lock' = p
    BY <1>0, <1>1, Going DEF SyncSelect, Goes, GoesOn
  <2>2. \A q \in Threads : op[q].at \notin InSync
    BY <2>1 DEF DayInv, LockHeld
  <2>3. of' = of /\ created' = created /\ run' = run
    BY <1>1 DEF SyncSelect, tables
  <2>4. LockHeld' /\ NoOtherCall'
    BY <2>1, <2>2, <2>3 DEF DayInv, LockHeld, NoOtherCall, Alone, InSync
  <2>5. ASSUME NEW t \in 1..created
        PROVE  Accounted(t)'
    BY <2>2, <2>3 DEF DayInv, Accounted, Recorded, InSync
  <2>6. QED
    BY <2>3, <2>4, <2>5 DEF DayInv
<1>2. ASSUME NEW m \in Monitors, SyncRuns(p, m)
      PROVE  DayInv'
  <2>0. lock = p /\ \A q \in Threads : op[q].at \in InSync => q = p
    BY <1>2 DEF SyncRuns, DayInv, LockHeld, InSync
  <2>1. /\ Alone(p)
        /\ \/ /\ run' = run
              /\ \/ op'[p].at = "idle"
                 \/ op'[p].at = "sync_runs" /\ lock' = p
           \/ /\ run[m][op[p].day] \notin Tasks
              /\ run' = [run EXCEPT ![m][op[p].day] = NoTask]
              /\ op'[p].at = "sync_create" /\ lock' = p
              /\ op'[p].m = m /\ op'[p].day = op[p].day
    <3>1. CASE run[m][op[p].day] \in Tasks
      <4>1. NextMonitor(p, m) /\ run' = run
        BY <1>2, <3>1 DEF SyncRuns
      <4>2. Goes(p, "idle") \/ (Goes(p, "sync_runs") /\ lock' = p)
        BY <1>0, <2>0, <4>1, Going DEF NextMonitor
      <4>3. QED
        BY <4>1, <4>2 DEF Goes
    <3>2. CASE run[m][op[p].day] \notin Tasks
      <4>1. /\ run' = [run EXCEPT ![m][op[p].day] = NoTask] /\ lock' = p
            /\ Become(p, [op[p] EXCEPT !.at = "sync_create", !.m = m])
        BY <1>2, <2>0, <3>2 DEF SyncRuns
      <4>2. Goes(p, "sync_create") /\ op'[p].m = m /\ op'[p].day = op[p].day
        BY <1>0, <4>1, Going
      <4>3. QED
        BY <3>2, <4>1, <4>2 DEF Goes
    <3>3. QED
      BY <3>1, <3>2
  <2>2. of' = of /\ created' = created
    BY <1>2 DEF SyncRuns
  <2>3. LockHeld' /\ NoOtherCall'
    BY <1>0, <2>0, <2>1 DEF DayInv, LockHeld, NoOtherCall, Alone, InSync
  <2>4. ASSUME NEW t \in 1..created
        PROVE  Accounted(t)'
    <3>1. Recorded(t)
      BY <1>2, <2>0 DEF SyncRuns, DayInv, Accounted, InSync
    <3>2. t \in Tasks
      BY <1>0 DEF Tasks
    <3>3. QED
      BY <1>0, <2>1, <2>2, <3>1, <3>2 DEF Accounted, Recorded
  <2>5. QED
    BY <2>2, <2>3, <2>4 DEF DayInv
<1>3. CASE SyncCreate(p)
  <2>0. /\ lock = p /\ \A q \in Threads : op[q].at \in InSync => q = p
        /\ run[op[p].m][op[p].day] = NoTask
    BY <1>3 DEF SyncCreate, DayInv, LockHeld, InSync
  <2>1. /\ Alone(p) /\ op'[p].at = "sync_record" /\ op'[p].fresh = created + 1
        /\ op'[p].m = op[p].m /\ op'[p].day = op[p].day
    <3>1. op'[p] = [op[p] EXCEPT !.at = "sync_record", !.fresh = created + 1] /\ Alone(p)
      BY <1>0, <1>3, BecomeIs DEF SyncCreate, CreateTask
    <3>2. LET n == [op[p] EXCEPT !.at = "sync_record", !.fresh = created + 1]
          IN  n.at = "sync_record" /\ n.fresh = created + 1 /\ n.m = op[p].m /\ n.day = op[p].day
      BY <1>0 DEF Op
    <3>3. QED
      BY <3>1, <3>2
  <2>2. /\ run' = run /\ lock' = lock /\ created' = created + 1
        /\ \A t \in 1..created : of'[t] = of[t]
    BY <1>0, <1>3 DEF SyncCreate, CreateTask, Tasks
  <2>3. LockHeld' /\ NoOtherCall'
    BY <2>0, <2>1, <2>2 DEF DayInv, LockHeld, NoOtherCall, Alone, InSync
  <2>4. ASSUME NEW t \in 1..created
        PROVE  Accounted(t)'
    <3>1. Recorded(t)
      BY <1>3, <2>0 DEF SyncCreate, DayInv, Accounted, InSync
    <3>2. QED
      BY <2>2, <3>1 DEF Accounted, Recorded
  <2>5. ASSUME NEW t \in Tasks, t = created + 1
        PROVE  Accounted(t)'
    BY <2>1, <2>5 DEF Accounted
  <2>6. created + 1 \in Tasks
    BY <1>0, <1>3 DEF SyncCreate, CreateTask, Tasks
  <2>7. \A t \in 1..(created + 1) : t \in 1..created \/ (t \in Tasks /\ t = created + 1)
    BY <1>0, <2>6
  <2>8. \A t \in 1..created' : Accounted(t)'
    BY <2>2, <2>4, <2>5, <2>7
  <2>9. QED
    BY <2>3, <2>8 DEF DayInv
<1>4. CASE SyncRecord(p)
  <2>0. /\ lock = p /\ \A q \in Threads : op[q].at \in InSync => q = p
        /\ run[op[p].m][op[p].day] = NoTask /\ op[p].m \in Monitors
        /\ op[p].fresh \in Tasks /\ of[op[p].fresh] = [m |-> op[p].m, day |-> op[p].day]
    BY <1>4 DEF SyncRecord, DayInv, LockHeld, InSync, IInv, ThreadOK
  <2>1. /\ Alone(p)
        /\ \/ op'[p].at = "idle"
           \/ op'[p].at = "sync_runs" /\ lock' = p
    BY <1>0, <1>4, <2>0, Going DEF SyncRecord, NextMonitor, Goes
  <2>2. /\ run' = [run EXCEPT ![op[p].m][op[p].day] = op[p].fresh]
        /\ of' = of /\ created' = created
    BY <1>0, <1>4, <2>0 DEF SyncRecord
  <2>3. LockHeld' /\ NoOtherCall'
    BY <2>0, <2>1, <2>2 DEF DayInv, LockHeld, NoOtherCall, Alone, InSync
  <2>4. ASSUME NEW t \in 1..created
        PROVE  Accounted(t)'
    <3>1. t \in Tasks /\ NoTask \notin Tasks
      BY <1>0 DEF Tasks, NoTask
    <3>2. CASE Recorded(t)
      BY <1>0, <2>0, <2>2, <3>1, <3>2 DEF Accounted, Recorded
    <3>3. CASE t = op[p].fresh
      BY <1>0, <2>0, <2>2, <3>3 DEF Accounted, Recorded
    <3>4. QED
      BY <2>0, <3>2, <3>3 DEF DayInv, Accounted, InSync
  <2>5. QED
    BY <2>2, <2>3, <2>4 DEF DayInv
<1>5. QED
  BY <1>1, <1>2, <1>3, <1>4 DEF Sync

LEMMA CallKeepsDay ==
    ASSUME IInv, DayInv, DayAssume, NEW p \in Threads,
           \/ Poll(p)
           \/ \E m \in Monitors : CreateMonitor(p, m) \/ \E call \in AllCalls : Call(p, m, call)
    PROVE  DayInv'
<1>0. op[p] \in Op /\ op \in [Threads -> Op]
  BY DEF IInv, TypeOK
<1>1. /\ of' = of /\ created' = created /\ run' = run /\ lock' = lock
      /\ op[p].at = "idle"
  BY DEF Poll, CreateMonitor, Call, tables
<1>2. Goes(p, "sync") \/ (Goes(p, "read") /\ op'[p].call \in {"pause", "resume"})
  <2>1. ASSUME NEW m \in Monitors, NEW call \in AllCalls, Call(p, m, call)
        PROVE  Goes(p, "read") /\ op'[p].call \in {"pause", "resume"}
    <3>1. op'[p] = [op[p] EXCEPT !.at = "read", !.call = call, !.m = m] /\ Alone(p)
      BY <1>0, <2>1, BecomeIs DEF Call
    <3>2. LET n == [op[p] EXCEPT !.at = "read", !.call = call, !.m = m]
          IN  n.at = "read" /\ n.call = call
      BY <1>0 DEF Op
    <3>3. call \in {"pause", "resume"}
      BY <2>1 DEF Call, DayAssume
    <3>4. QED
      BY <3>1, <3>2, <3>3 DEF Goes
  <2>2. GoSync(p) => Goes(p, "sync")
    BY <1>0, Going
  <2>3. QED
    BY <2>1, <2>2 DEF Poll, CreateMonitor
<1>3. QED
  BY <1>1, <1>2, OutsideKeepsDay DEF Goes, InSync

LEMMA ContinueKeepsDay ==
    ASSUME IInv, IInv', DayInv, NEW p \in Threads, Continue(p)
    PROVE  DayInv'
<1>0. /\ op[p] \in Op /\ op \in [Threads -> Op]
      /\ op[p].at \notin {"rerun", "rerun_create", "rerun_record", "update", "clear"}
      /\ op[p].at \in {"read", "runs"} => op[p].call \in {"pause", "resume"}
  BY DEF IInv, TypeOK, DayInv, NoOtherCall
<1>1. CASE Read(p)
  <2>1. op'[p] = [op[p] EXCEPT !.at = "runs", !.seen = monitor[op[p].m]] /\ Alone(p)
    BY <1>0, <1>1, BecomeIs DEF Read
  <2>2. LET n == [op[p] EXCEPT !.at = "runs", !.seen = monitor[op[p].m]]
        IN  n.at = "runs" /\ n.call = op[p].call
    BY <1>0 DEF Op
  <2>3. QED
    BY <1>0, <1>1, <2>1, <2>2, OutsideKeepsDay DEF Read, tables, InSync
<1>2. CASE ReadRuns(p)
  <2>1. GoesOn(p, op[p].call)
    BY <1>0, <1>2, Going DEF ReadRuns
  <2>2. QED
    BY <1>0, <1>2, <2>1, OutsideKeepsDay DEF ReadRuns, tables, Goes, GoesOn, InSync
<1>3. CASE PauseMonitor(p) \/ PauseTask(p) \/ ResumeMonitor(p) \/ ResumeTask(p)
  <2>1. Goes(p, "idle") \/ Goes(p, "sync") \/ Goes(p, "pause_task") \/ Goes(p, "resume_task")
    BY <1>0, <1>3, Going DEF PauseMonitor, PauseTask, ResumeMonitor, ResumeTask, GoesOn
  <2>2. /\ of' = of /\ created' = created /\ run' = run /\ lock' = lock
        /\ op[p].at \notin InSync
    BY <1>3 DEF PauseMonitor, PauseTask, ResumeMonitor, ResumeTask, InSync
  <2>3. QED
    BY <2>1, <2>2, OutsideKeepsDay DEF Goes, InSync
<1>4. QED
  BY <1>0, <1>1, <1>2, <1>3, SyncKeepsDay
  DEF Continue, RerunCancel, RerunCreate, RerunRecord, UpdateMonitor, ClearMonitor

LEMMA StepKeepsDay == DayAssume /\ IInv /\ IInv' /\ DayInv /\ [Next]_vars => DayInv'
<1> SUFFICES ASSUME DayAssume, IInv, IInv', DayInv, [Next]_vars
             PROVE  DayInv'
  OBVIOUS
<1>1. CASE \E t \in Tasks : TaskMoves(t)
  BY <1>1 DEF DayInv, LockHeld, NoOtherCall, Accounted, Recorded, TaskMoves
<1>2. CASE Midnight \/ UNCHANGED vars
  BY <1>2 DEF DayInv, LockHeld, NoOtherCall, Accounted, Recorded, Midnight, tables, vars
<1>3. ~Crash
  BY DEF DayAssume, Crash, IInv, TypeOK
<1>4. QED
  BY <1>1, <1>2, <1>3, CallKeepsDay, ContinueKeepsDay DEF Next

\* The polls of all the workers together, with midnights, pauses and resumes
\* between any two of their steps, create one task per monitor and day.
THEOREM OneTaskADay ==
    ASSUME DayAssume
    PROVE  Spec => []OneTaskPerDay
<1>1. Init => DayInv
  BY InitDay
<1>2. IInv /\ IInv' /\ DayInv /\ [Next]_vars => DayInv'
  BY StepKeepsDay
<1>3. QED
  BY <1>1, <1>2, DayInvImplies, MonitorInvariant, PTL DEF Spec

=============================================================================
