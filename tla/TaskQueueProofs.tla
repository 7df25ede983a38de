-------------------------- MODULE TaskQueueProofs --------------------------
(***************************************************************************)
(* Theorems about TaskQueue for every set of models, workers and tokens,   *)
(* every number of rounds and every bound on the tasks: types, the yields  *)
(* the code means to keep, the lease and the life cycle the queue          *)
(* implements, exact counters, whole diagnoses and the order of starts.    *)
(***************************************************************************)
EXTENDS TaskQueue, FiniteSetTheorems, TLAPS

-----------------------------------------------------------------------------
(* Rows stay rows under every UPDATE of the code.                          *)

LEMMA NewRowIsRow ==
    ASSUME NEW s \in Statuses, NEW k \in Kinds
    PROVE  NewRow(s, k) \in Row
BY DEF NewRow, Row, Leases

LEMMA ReleasedIsRow ==
    ASSUME NEW row \in Row, NEW s \in Statuses
    PROVE  Released(row, s) \in Row
BY DEF Released, Row, Leases

LEMMA WithFlagsIsRow ==
    ASSUME NEW row \in Row, NEW c \in BOOLEAN, NEW p \in BOOLEAN, NEW y \in BOOLEAN
    PROVE  WithFlags(row, c, p, y) \in Row
BY DEF WithFlags, Row

LEMMA ReapedIsRow ==
    ASSUME NEW row \in Row
    PROVE  Reaped(row) \in Row
<1>1. /\ "cancelled" \in Statuses
      /\ "paused" \in Statuses
      /\ "queued" \in Statuses
  BY DEF Statuses, DeletableStates, FinalStates
<1>2. Released(row, "queued") \in Row /\ Released(row, "paused") \in Row
  BY <1>1, ReleasedIsRow
<1>3. WithFlags(Released(row, "queued"), FALSE, FALSE, FALSE) \in Row
  BY <1>2, WithFlagsIsRow
<1>4. [Released(row, "paused") EXCEPT !.pause_requested = FALSE] \in Row
  BY <1>2 DEF Row
<1>5. [row EXCEPT !.status = "cancelled", !.lease_token = NoToken, !.lease = "none"] \in Row
  BY <1>1 DEF Row, Leases
<1>6. QED
  BY <1>2, <1>3, <1>4, <1>5 DEF Reaped

LEMMA LeasedIsRow ==
    ASSUME NEW row \in Row, NEW token \in Tokens
    PROVE  Leased(row, token) \in Row
BY DEF Leased, Row, Leases

LEMMA StartedIsRow ==
    ASSUME NEW row \in Row, NEW w \in Workers
    PROVE  Started(row, w) \in Row
BY DEF Started, Row, Statuses

LEMMA StepsFinite ==
    /\ IsFiniteSet(Steps)
    /\ TotalSteps \in Nat
<1>1. IsFiniteSet(1..Rounds)
  BY BoundsAssumption, FS_Interval
<1>2. IsFiniteSet(Steps)
  BY <1>1, ModelsAssumption, FS_Product DEF Steps
<1>3. QED
  BY <1>2, FS_CardinalityType DEF TotalSteps

LEMMA CountedIsRow ==
    ASSUME NEW row \in Row
    PROVE  Counted(row) \in Row
<1> DEFINE count == IF row.completed_steps < TotalSteps
                    THEN row.completed_steps + 1 ELSE TotalSteps
<1>1. count \in Nat
  BY StepsFinite DEF Row
<1>2. Counted(row) = [row EXCEPT !.completed_steps = count, !.lease = "live"]
  BY DEF Counted
<1> HIDE DEF count
<1>3. QED
  BY <1>1, <1>2 DEF Row, Leases

LEMMA OutcomeIsReport ==
    ASSUME NEW row \in Row, NEW requested \in Reports
    PROVE  Outcome(row, requested) \in Reports
BY DEF Outcome, Reports

LEMMA FinishedIsRow ==
    ASSUME NEW row \in Row, NEW outcome \in Reports
    PROVE  Finished(row, outcome) \in Row
<1> DEFINE yields == /\ outcome = "paused"
                     /\ row.preempt_requested
                     /\ row.kind = "paid_monitor"
           status == IF yields \/ outcome = "retrying" THEN "queued" ELSE outcome
<1>1. status \in Statuses
  BY DEF Reports, Statuses, DeletableStates, FinalStates
<1>2. WithFlags(Released(row, status), FALSE, FALSE, FALSE) \in Row
  BY <1>1, ReleasedIsRow, WithFlagsIsRow
<1>3. (outcome = "retrying") \in BOOLEAN
  OBVIOUS
<1> HIDE DEF status
<1>4. [WithFlags(Released(row, status), FALSE, FALSE, FALSE)
         EXCEPT !.backoff = (outcome = "retrying")] \in Row
  BY <1>2, <1>3 DEF Row
<1>5. QED
  BY <1>4 DEF Finished, status

-----------------------------------------------------------------------------
(* Type correctness.                                                       *)

LEMMA SetRowKeepsType ==
    ASSUME TypeOK, NEW t \in Tasks, NEW row \in Row, SetRow(t, row)
    PROVE  TypeOK'
BY DEF TypeOK, SetRow

LEMMA ReapedTasksType ==
    TypeOK => ReapedTasks \in [Tasks -> Row]
BY ReapedIsRow DEF TypeOK, ReapedTasks

LEMMA AnswerKeepsType ==
    ASSUME TypeOK, NEW rows \in [Tasks -> Row], AnswerNothing(rows)
    PROVE  TypeOK'
BY DEF TypeOK, AnswerNothing

LEMMA GrantKeepsType ==
    ASSUME TypeOK, NEW t \in Tasks, NEW rows \in [Tasks -> Row],
           NEW token \in Tokens, Grant(t, rows, token)
    PROVE  TypeOK'
<1>1. Leased(rows[t], token) \in Row
  BY LeasedIsRow
<1>2. task' \in [Tasks -> Row]
  BY <1>1 DEF Grant
<1>3. QED
  BY <1>2 DEF TypeOK, Grant

(* One lemma per family of actions.                                        *)

LEMMA OperatorKeepsType ==
    ASSUME TypeOK, Operator
    PROVE  TypeOK'
<1>1. ASSUME NEW k \in Kinds, Create(k)
      PROVE  TypeOK'
  <2>1. NewRow("queued", k) \in Row
    BY NewRowIsRow DEF Statuses
  <2>2. \A t \in Tasks : Preempted(task[t]) \in Row
    BY DEF TypeOK, Preempted, Row
  <2>3. task' \in [Tasks -> Row]
    BY <1>1, <2>1, <2>2 DEF Create, TypeOK
  <2>4. QED
    BY <1>1, <2>3, BoundsAssumption DEF Create, TypeOK
<1>2. ASSUME NEW t \in Tasks, CancelRunning(t) PROVE TypeOK'
  BY <1>2, WithFlagsIsRow, SetRowKeepsType DEF CancelRunning, TypeOK
<1>3. ASSUME NEW t \in Tasks, CancelIdle(t) PROVE TypeOK'
  <2>1. WithFlags(task[t], TRUE, FALSE, FALSE) \in Row
    BY WithFlagsIsRow DEF TypeOK
  <2>2. [WithFlags(task[t], TRUE, FALSE, FALSE) EXCEPT
           !.status = "cancelled", !.lease_token = NoToken, !.lease = "none"] \in Row
    BY <2>1 DEF Row, Statuses, DeletableStates, FinalStates, Leases
  <2>3. QED
    BY <1>3, <2>2, SetRowKeepsType DEF CancelIdle
<1>4. ASSUME NEW t \in Tasks, PauseRunning(t) PROVE TypeOK'
  <2>1. task[t].cancel_requested \in BOOLEAN
    BY DEF TypeOK, Row
  <2>2. QED
    BY <1>4, <2>1, WithFlagsIsRow, SetRowKeepsType DEF PauseRunning, TypeOK
<1>5. ASSUME NEW t \in Tasks, PauseQueued(t) PROVE TypeOK'
  <2>1. task[t].cancel_requested \in BOOLEAN
    BY DEF TypeOK, Row
  <2>2. Released(task[t], "paused") \in Row
    BY ReleasedIsRow DEF TypeOK, Statuses, DeletableStates
  <2>3. QED
    BY <1>5, <2>1, <2>2, WithFlagsIsRow, SetRowKeepsType DEF PauseQueued
<1>6. ASSUME NEW t \in Tasks, Resume(t) PROVE TypeOK'
  <2>1. Released(task[t], "queued") \in Row
    BY ReleasedIsRow DEF TypeOK, Statuses
  <2>2. WithFlags(Released(task[t], "queued"), FALSE, FALSE, FALSE) \in Row
    BY <2>1, WithFlagsIsRow
  <2>3. [WithFlags(Released(task[t], "queued"), FALSE, FALSE, FALSE)
           EXCEPT !.backoff = FALSE] \in Row
    BY <2>2 DEF Row
  <2>4. QED
    BY <1>6, <2>3, SetRowKeepsType DEF Resume
<1>7. ASSUME NEW t \in Tasks, NEW kept \in SUBSET results[t], KeepResults(t, kept)
      PROVE  TypeOK'
  <2>1. kept \in SUBSET Steps
    BY DEF TypeOK
  <2>2. Cardinality(kept) \in Nat
    BY <2>1, StepsFinite, FS_Subset, FS_CardinalityType
  <2>3. Released(task[t], "paused") \in Row
    BY ReleasedIsRow DEF TypeOK, Statuses, DeletableStates
  <2>4. WithFlags(Released(task[t], "paused"), FALSE, FALSE, FALSE) \in Row
    BY <2>3, WithFlagsIsRow
  <2>5. [WithFlags(Released(task[t], "paused"), FALSE, FALSE, FALSE)
           EXCEPT !.completed_steps = Cardinality(kept)] \in Row
    BY <2>2, <2>4 DEF Row
  <2>6. QED
    BY <1>7, <2>1, <2>5 DEF KeepResults, TypeOK
<1>8. ASSUME NEW t \in Tasks, Delete(t) PROVE TypeOK'
  <2>1. NewRow("absent", "other") \in Row
    BY NewRowIsRow DEF Statuses, Kinds
  <2>2. QED
    BY <1>8, <2>1 DEF Delete, TypeOK
<1>9. ASSUME NEW gone \in SUBSET MonitorTasks, ClearMonitorData(gone) PROVE TypeOK'
  <2>1. NewRow("absent", "other") \in Row
    BY NewRowIsRow DEF Statuses, Kinds
  <2>2. QED
    BY <1>9, <2>1 DEF ClearMonitorData, TypeOK
<1>10. QED
  BY <1>1, <1>2, <1>3, <1>4, <1>5, <1>6, <1>7, <1>8, <1>9
     DEF Operator, ClearResults, DeleteResult

LEMMA ClaimKeepsType ==
    ASSUME TypeOK, NEW w \in Workers, Claim(w)
    PROVE  TypeOK'
<1>1. ReapedTasks \in [Tasks -> Row]
  BY ReapedTasksType
<1>2. \A t \in Tasks, s \in Statuses :
         [ReapedTasks EXCEPT ![t] = Released(task[t], s)] \in [Tasks -> Row]
  BY <1>1, ReleasedIsRow DEF TypeOK
<1>3. /\ "queued" \in Statuses
      /\ "paused" \in Statuses
      /\ "cancelled" \in Statuses
  BY DEF Statuses, DeletableStates, FinalStates
<1>4. PICK ready \in SUBSET Models :
        \/ ReclaimUnready(w, ready)
        \/ ReclaimCancelled(w, ready)
        \/ ReclaimPaused(w, ready)
        \/ ClaimNothing(w, ready)
        \/ \E token \in Tokens : ReclaimOwn(w, ready, token) \/ ClaimHead(w, ready, token)
  BY DEF Claim
<1>5. CASE ReclaimUnready(w, ready)
  BY <1>2, <1>3, <1>5, AnswerKeepsType DEF ReclaimUnready
<1>6. CASE ReclaimCancelled(w, ready)
  BY <1>2, <1>3, <1>6, AnswerKeepsType DEF ReclaimCancelled
<1>7. CASE ReclaimPaused(w, ready)
  <2>1. PICK t \in Tasks :
          LET status == IF task[t].preempt_requested THEN "queued" ELSE "paused" IN
          AnswerNothing([ReapedTasks EXCEPT ![t] =
                              WithFlags(Released(task[t], status), FALSE, FALSE, FALSE)])
    BY <1>7 DEF ReclaimPaused
  <2> DEFINE status == IF task[t].preempt_requested THEN "queued" ELSE "paused"
  <2>2. status \in Statuses
    BY <1>3
  <2>3. WithFlags(Released(task[t], status), FALSE, FALSE, FALSE) \in Row
    BY <2>2, ReleasedIsRow, WithFlagsIsRow DEF TypeOK
  <2>4. QED
    BY <1>1, <2>1, <2>3, AnswerKeepsType
<1>8. CASE ClaimNothing(w, ready)
  BY <1>1, <1>8, AnswerKeepsType DEF ClaimNothing
<1>9. ASSUME NEW token \in Tokens, ReclaimOwn(w, ready, token)
      PROVE  TypeOK'
  BY <1>1, <1>9, GrantKeepsType DEF ReclaimOwn
<1>10. ASSUME NEW token \in Tokens, ClaimHead(w, ready, token)
       PROVE  TypeOK'
  <2>1. PICK t \in Tasks :
          Grant(t, [ReapedTasks EXCEPT ![t] = Started(@, w)], token)
    BY <1>10 DEF ClaimHead
  <2>2. [ReapedTasks EXCEPT ![t] = Started(@, w)] \in [Tasks -> Row]
    BY <1>1, StartedIsRow
  <2>3. QED
    BY <2>1, <2>2, GrantKeepsType
<1>11. QED
  BY <1>4, <1>5, <1>6, <1>7, <1>8, <1>9, <1>10

LEMMA LeaseCallKeepsType ==
    ASSUME TypeOK, NEW t \in Tasks, NEW token \in known
    PROVE  /\ Heartbeat(t, token) => TypeOK'
           /\ \A step \in Steps : AcceptResult(t, token, step) => TypeOK'
           /\ \A requested \in Reports : Finish(t, token, requested) => TypeOK'
<1>1. ASSUME Heartbeat(t, token) PROVE TypeOK'
  <2>1. [task[t] EXCEPT !.lease = "live"] \in Row
    BY DEF TypeOK, Row, Leases
  <2>2. QED
    BY <1>1, <2>1 DEF Heartbeat, TypeOK
<1>2. ASSUME NEW step \in Steps, AcceptResult(t, token, step) PROVE TypeOK'
  BY <1>2, CountedIsRow DEF AcceptResult, TypeOK
<1>3. ASSUME NEW requested \in Reports, Finish(t, token, requested) PROVE TypeOK'
  <2>1. Finished(task[t], Outcome(task[t], requested)) \in Row
    BY OutcomeIsReport, FinishedIsRow DEF TypeOK
  <2>2. QED
    BY <1>3, <2>1 DEF Finish, TypeOK
<1>4. QED
  BY <1>1, <1>2, <1>3

LEMMA TimeKeepsType ==
    ASSUME TypeOK, Time
    PROVE  TypeOK'
<1>1. ASSUME NEW t \in Tasks, NEW l \in Leases, SetRow(t, [task[t] EXCEPT !.lease = l])
      PROVE  TypeOK'
  <2>1. [task[t] EXCEPT !.lease = l] \in Row
    BY DEF TypeOK, Row
  <2>2. QED
    BY <1>1, <2>1, SetRowKeepsType
<1>2. ASSUME NEW t \in Tasks, BackoffPasses(t) PROVE TypeOK'
  <2>1. [task[t] EXCEPT !.backoff = FALSE] \in Row
    BY DEF TypeOK, Row
  <2>2. QED
    BY <1>2, <2>1, SetRowKeepsType DEF BackoffPasses
<1>3. ASSUME NEW token \in known, Forget(token) PROVE TypeOK'
  BY <1>3 DEF Forget, TypeOK
<1>4. QED
  BY <1>1, <1>2, <1>3 DEF Time, LeasePasses, Leases

\* Every reachable state has the declared types, for every instance.
THEOREM TypeCorrect == Spec => []TypeOK
<1>1. Init => TypeOK
  <2>1. NewRow("absent", "other") \in Row
    BY NewRowIsRow DEF Statuses, Kinds
  <2>2. QED
    BY <2>1, BoundsAssumption DEF Init, TypeOK
<1>2. TypeOK /\ [Next]_vars => TypeOK'
  <2> SUFFICES ASSUME TypeOK, [Next]_vars PROVE TypeOK'
    OBVIOUS
  <2>1. CASE Operator
    BY <2>1, OperatorKeepsType
  <2>2. CASE Worker
    BY <2>2, ClaimKeepsType, LeaseCallKeepsType DEF Worker
  <2>3. CASE Time
    BY <2>3, TimeKeepsType
  <2>4. CASE UNCHANGED vars
    BY <2>4 DEF vars, TypeOK
  <2>5. QED
    BY <2>1, <2>2, <2>3, <2>4 DEF Next
<1>3. QED
  BY <1>1, <1>2, PTL DEF Spec

-----------------------------------------------------------------------------
(* Leases.  The inductive invariant joins the fencing of tokens with the    *)
(* single active task: a claim needs the first to know that a reaped row    *)
(* is out of every worker's reach, the others need the second.              *)

LeaseInv ==
    /\ TypeOK
    /\ TokenFencesTask
    /\ OneRunningTask
    /\ \A t \in Tasks : task[t].lease # "edge"

\* What a step without a grant does to the leases: it may end some.
KeepsLease(t) ==
    Running(t)' => /\ Running(t)
                   /\ task'[t].lease_token = task[t].lease_token
                   /\ task'[t].worker_id = task[t].worker_id

LeaseStep ==
    \A t \in Tasks :
        /\ RowFenced(task'[t])
        /\ KeepsLease(t)
        /\ task'[t].lease # "edge"

LEMMA NoGrantStep ==
    ASSUME LeaseInv, TypeOK', LeaseStep,
           \A t \in Tasks : Running(t)' => task[t].lease_token \in known'
    PROVE  LeaseInv'
<1>1. TokenFencesTask'
  <2>1. ASSUME NEW t \in Tasks PROVE RowFenced(task'[t]) /\ (Running(t)' => task'[t].lease_token \in known')
    BY DEF LeaseStep, KeepsLease
  <2>2. ASSUME NEW t \in Tasks, NEW u \in Tasks, Running(t)', t # u
        PROVE  task'[u].lease_token # task'[t].lease_token
    <3>1. Running(t) /\ task'[t].lease_token = task[t].lease_token
      BY <2>2 DEF LeaseStep, KeepsLease
    <3>2. ~Running(u)
      BY <3>1, <2>2 DEF LeaseInv, OneRunningTask
    <3>3. ~Running(u)'
      BY <3>2 DEF LeaseStep, KeepsLease
    <3>4. task'[u].lease_token = NoToken /\ task'[t].lease_token # NoToken
      BY <2>2, <3>3 DEF LeaseStep, RowFenced, Running
    <3>5. QED
      BY <3>4
  <2>3. QED
    BY <2>1, <2>2 DEF TokenFencesTask, RowFenced, Running
<1>2. OneRunningTask'
  BY DEF LeaseInv, OneRunningTask, LeaseStep, KeepsLease
<1>3. QED
  BY <1>1, <1>2 DEF LeaseInv, LeaseStep

LEMMA SetRowStep ==
    ASSUME LeaseInv, TypeOK', NEW t \in Tasks, NEW row \in Row, SetRow(t, row),
           RowFenced(row), row.lease # "edge",
           row.status = "running" =>
              /\ Running(t)
              /\ row.lease_token = task[t].lease_token
              /\ row.worker_id = task[t].worker_id
    PROVE  LeaseInv'
<1>1. \A u \in Tasks : task'[u] = IF u = t THEN row ELSE task[u]
  BY DEF SetRow, LeaseInv, TypeOK
<1>2. LeaseStep
  BY <1>1 DEF LeaseStep, KeepsLease, Running, LeaseInv, TokenFencesTask
<1>3. \A u \in Tasks : Running(u)' => task[u].lease_token \in known'
  BY <1>2 DEF SetRow, LeaseStep, KeepsLease, LeaseInv, TokenFencesTask
<1>4. QED
  BY <1>2, <1>3, NoGrantStep

LEMMA OperatorKeepsLease ==
    ASSUME LeaseInv, TypeOK', Operator
    PROVE  LeaseInv'
<1> USE DEF Statuses, DeletableStates, FinalStates
<1>0. \A t \in Tasks : task[t] \in Row /\ RowFenced(task[t]) /\ task[t].lease # "edge"
  BY DEF LeaseInv, TypeOK, TokenFencesTask
<1>1. ASSUME NEW k \in Kinds, Create(k)
      PROVE  LeaseInv'
  <2>1. \A t \in Tasks : task'[t] = IF t = created + 1 THEN NewRow("queued", k)
                                    ELSE IF k = "diagnosis" THEN Preempted(task[t])
                                    ELSE task[t]
    BY <1>1 DEF Create
  <2>2. ASSUME NEW t \in Tasks
        PROVE  /\ Preempted(task[t]).status = task[t].status
               /\ Preempted(task[t]).lease_token = task[t].lease_token
               /\ Preempted(task[t]).lease = task[t].lease
               /\ Preempted(task[t]).worker_id = task[t].worker_id
    BY <1>0 DEF Preempted, Row
  <2>3. LeaseStep
    BY <1>0, <2>1, <2>2 DEF LeaseStep, KeepsLease, Running, RowFenced, NewRow
  <2>4. QED
    BY <1>1, <2>3, NoGrantStep
       DEF Create, LeaseStep, KeepsLease, LeaseInv, TokenFencesTask
<1>2. ASSUME NEW t \in Tasks, CancelRunning(t) PROVE LeaseInv'
  <2> DEFINE row == WithFlags(task[t], TRUE, FALSE, FALSE)
  <2>1. row \in Row
    BY <1>0, WithFlagsIsRow
  <2>2. row.status = task[t].status /\ row.lease_token = task[t].lease_token
        /\ row.lease = task[t].lease /\ row.worker_id = task[t].worker_id
    BY <1>0 DEF WithFlags, Row
  <2>3. QED
    BY <1>0, <1>2, <2>1, <2>2, SetRowStep DEF CancelRunning, RowFenced, Running
<1>3. ASSUME NEW t \in Tasks, CancelIdle(t) PROVE LeaseInv'
  <2> DEFINE row == [WithFlags(task[t], TRUE, FALSE, FALSE) EXCEPT
                       !.status = "cancelled", !.lease_token = NoToken, !.lease = "none"]
  <2>1. row \in Row /\ row.status = "cancelled" /\ row.lease_token = NoToken
        /\ row.lease = "none"
    BY <1>0 DEF WithFlags, Row, Leases
  <2>2. QED
    BY <1>3, <2>1, SetRowStep DEF CancelIdle, RowFenced
<1>4. ASSUME NEW t \in Tasks, PauseRunning(t) PROVE LeaseInv'
  <2> DEFINE row == WithFlags(task[t], task[t].cancel_requested, TRUE, FALSE)
  <2>1. row \in Row
    BY <1>0, WithFlagsIsRow DEF Row
  <2>2. row.status = task[t].status /\ row.lease_token = task[t].lease_token
        /\ row.lease = task[t].lease /\ row.worker_id = task[t].worker_id
    BY <1>0 DEF WithFlags, Row
  <2>3. QED
    BY <1>0, <1>4, <2>1, <2>2, SetRowStep DEF PauseRunning, RowFenced, Running
<1>5. ASSUME NEW t \in Tasks, PauseQueued(t) PROVE LeaseInv'
  <2> DEFINE row == WithFlags(Released(task[t], "paused"),
                              task[t].cancel_requested, FALSE, FALSE)
  <2>1. row \in Row /\ row.status = "paused" /\ row.lease_token = NoToken /\ row.lease = "none"
    BY <1>0 DEF WithFlags, Released, Row, Leases
  <2>2. QED
    BY <1>5, <2>1, SetRowStep DEF PauseQueued, RowFenced
<1>6. ASSUME NEW t \in Tasks, Resume(t) PROVE LeaseInv'
  <2> DEFINE row == [WithFlags(Released(task[t], "queued"), FALSE, FALSE, FALSE)
                       EXCEPT !.backoff = FALSE]
  <2>1. row \in Row /\ row.status = "queued" /\ row.lease_token = NoToken /\ row.lease = "none"
    BY <1>0 DEF WithFlags, Released, Row, Leases
  <2>2. QED
    BY <1>6, <2>1, SetRowStep DEF Resume, RowFenced
<1>7. ASSUME NEW t \in Tasks, NEW row \in Row, task' = [task EXCEPT ![t] = row],
             row.status # "running", row.lease_token = NoToken, row.lease = "none",
             UNCHANGED known
      PROVE  LeaseInv'
  <2>1. \A u \in Tasks : task'[u] = IF u = t THEN row ELSE task[u]
    BY <1>7 DEF LeaseInv, TypeOK
  <2>2. LeaseStep
    BY <1>0, <1>7, <2>1 DEF LeaseStep, KeepsLease, Running, RowFenced
  <2>3. QED
    BY <1>7, <2>2, NoGrantStep
       DEF LeaseStep, KeepsLease, LeaseInv, TokenFencesTask
<1>8. ASSUME NEW t \in Tasks, NEW kept \in SUBSET results[t], KeepResults(t, kept)
      PROVE  LeaseInv'
  <2> DEFINE row == [WithFlags(Released(task[t], "paused"), FALSE, FALSE, FALSE)
                       EXCEPT !.completed_steps = Cardinality(kept)]
  <2>1. kept \in SUBSET Steps
    BY DEF LeaseInv, TypeOK
  <2>2. Cardinality(kept) \in Nat
    BY <2>1, StepsFinite, FS_Subset, FS_CardinalityType
  <2>3. row \in Row /\ row.status = "paused" /\ row.lease_token = NoToken /\ row.lease = "none"
    BY <1>0, <2>2 DEF WithFlags, Released, Row, Leases
  <2>4. QED
    BY <1>7, <1>8, <2>3 DEF KeepResults
<1>9. ASSUME NEW t \in Tasks, Delete(t) PROVE LeaseInv'
  <2>1. NewRow("absent", "other") \in Row
    BY NewRowIsRow DEF Kinds
  <2>2. QED
    BY <1>7, <1>9, <2>1 DEF Delete, NewRow
<1>10. ASSUME NEW gone \in SUBSET MonitorTasks, ClearMonitorData(gone) PROVE LeaseInv'
  <2>1. \A t \in Tasks : task'[t] = IF t \in gone THEN NewRow("absent", "other") ELSE task[t]
    BY <1>10 DEF ClearMonitorData
  <2>2. LeaseStep
    BY <1>0, <2>1 DEF LeaseStep, KeepsLease, Running, RowFenced, NewRow
  <2>3. QED
    BY <1>10, <2>2, NoGrantStep
       DEF ClearMonitorData, LeaseStep, KeepsLease, LeaseInv, TokenFencesTask
<1>11. QED
  BY <1>1, <1>2, <1>3, <1>4, <1>5, <1>6, <1>8, <1>9, <1>10
     DEF Operator, ClearResults, DeleteResult

LEMMA ReapedIsFenced ==
    ASSUME NEW row \in Row, RowFenced(row), row.lease # "edge"
    PROVE  /\ RowFenced(Reaped(row))
           /\ Reaped(row).lease # "edge"
           /\ Reaped(row).status = "running" => Reaped(row) = row /\ row.lease = "live"
<1>1. row.status = "running" /\ row.lease # "expired" => row.lease = "live"
  BY DEF RowFenced, Row, Leases
<1>2. CASE row.status # "running" \/ row.lease # "expired"
  BY <1>1, <1>2 DEF Reaped
<1>3. CASE row.status = "running" /\ row.lease = "expired"
  <2>1. /\ Reaped(row).status \in {"cancelled", "queued", "paused"}
        /\ Reaped(row).lease_token = NoToken
        /\ Reaped(row).lease = "none"
    BY <1>3 DEF Reaped, Released, WithFlags, Row, Leases
  <2>2. QED
    BY <2>1 DEF RowFenced
<1>4. QED
  BY <1>2, <1>3

\* With fenced tokens and no edge instants, claim's notion of the active task
\* is the running row that survives the reaping.
LEMMA ActiveIsRunning ==
    ASSUME LeaseInv
    PROVE  /\ ReapedTasks \in [Tasks -> Row]
           /\ \A t \in Tasks : RowFenced(ReapedTasks[t]) /\ ReapedTasks[t].lease # "edge"
           /\ \A t \in Tasks : ReapedTasks[t].status = "running" =>
                 t \in Active(ReapedTasks) /\ Running(t) /\ ReapedTasks[t] = task[t]
           /\ \A t \in Tasks : IsActive(ReapedTasks, t) =>
                 Running(t) /\ \A u \in Tasks : u # t => ~Running(u)
<1>1. ReapedTasks \in [Tasks -> Row]
  BY ReapedTasksType DEF LeaseInv
<1>2. \A t \in Tasks : task[t] \in Row /\ RowFenced(task[t]) /\ task[t].lease # "edge"
  BY DEF LeaseInv, TypeOK, TokenFencesTask
<1>3. ASSUME NEW t \in Tasks
      PROVE  /\ RowFenced(ReapedTasks[t]) /\ ReapedTasks[t].lease # "edge"
             /\ ReapedTasks[t].status = "running" =>
                  t \in Active(ReapedTasks) /\ Running(t) /\ ReapedTasks[t] = task[t]
  BY <1>2, ReapedIsFenced DEF ReapedTasks, Active, Running
<1>4. ASSUME NEW t \in Tasks, IsActive(ReapedTasks, t)
      PROVE  Running(t) /\ \A u \in Tasks : u # t => ~Running(u)
  <2>1. Running(t)
    BY <1>3, <1>4 DEF IsActive, Active
  <2>2. QED
    BY <2>1 DEF LeaseInv, OneRunningTask
<1>5. QED
  BY <1>1, <1>3, <1>4

\* Ending the active task while answering nothing.
LEMMA EndActiveStep ==
    ASSUME LeaseInv, TypeOK', NEW t \in Tasks, NEW row \in Row,
           IsActive(ReapedTasks, t),
           AnswerNothing([ReapedTasks EXCEPT ![t] = row]),
           row.status # "running", row.lease_token = NoToken, row.lease = "none"
    PROVE  LeaseInv'
<1>1. \A u \in Tasks : task'[u] = IF u = t THEN row ELSE ReapedTasks[u]
  BY ActiveIsRunning DEF AnswerNothing
<1>2. \A u \in Tasks : ~Running(u)'
  BY <1>1, ActiveIsRunning DEF Running
<1>3. LeaseStep
  BY <1>1, <1>2, ActiveIsRunning DEF LeaseStep, KeepsLease, RowFenced
<1>4. QED
  BY <1>2, <1>3, NoGrantStep

\* Granting a task when no other task is left running.
LEMMA GrantStep ==
    ASSUME LeaseInv, TypeOK', NEW w \in Workers, NEW t \in Tasks, NEW token \in Tokens,
           NEW rows \in [Tasks -> Row], Grant(t, rows, token),
           rows[t].status = "running", rows[t].worker_id = w,
           \A u \in Tasks : RowFenced(rows[u]) \/ u = t,
           \A u \in Tasks : rows[u].lease # "edge",
           \A u \in Tasks : u # t => rows[u].status # "running"
    PROVE  LeaseInv'
<1>1. \A u \in Tasks : task'[u] = IF u = t THEN Leased(rows[t], token) ELSE rows[u]
  BY DEF Grant
<1>2. /\ Leased(rows[t], token).status = "running"
      /\ Leased(rows[t], token).lease_token = token
      /\ Leased(rows[t], token).lease = "live"
      /\ Leased(rows[t], token).worker_id = w
  BY DEF Leased, Row
<1>3. token # NoToken /\ w # NoWorker
  BY NullAssumption
<1>4. \A u \in Tasks : RowFenced(task'[u]) /\ task'[u].lease # "edge"
  BY <1>1, <1>2, <1>3 DEF RowFenced
<1>5. \A u \in Tasks : Running(u)' => u = t
  BY <1>1 DEF Running
<1>6. TokenFencesTask'
  BY <1>1, <1>2, <1>3, <1>4, <1>5 DEF TokenFencesTask, Grant, RowFenced, Running
<1>7. QED
  BY <1>4, <1>5, <1>6 DEF LeaseInv, OneRunningTask

LEMMA ClaimKeepsLease ==
    ASSUME LeaseInv, TypeOK', NEW w \in Workers, Claim(w)
    PROVE  LeaseInv'
<1>0. /\ \A t \in Tasks : task[t] \in Row
      /\ ReapedTasks \in [Tasks -> Row]
  BY ActiveIsRunning DEF LeaseInv, TypeOK
<1>1. ASSUME NEW t \in Tasks, NEW s \in {"queued", "paused", "cancelled"}
      PROVE  /\ Released(task[t], s) \in Row
             /\ Released(task[t], s).status # "running"
             /\ Released(task[t], s).lease_token = NoToken
             /\ Released(task[t], s).lease = "none"
  BY <1>0 DEF Released, Row, Leases, Statuses, DeletableStates, FinalStates
<1>2. PICK ready \in SUBSET Models :
        \/ ReclaimUnready(w, ready)
        \/ ReclaimCancelled(w, ready)
        \/ ReclaimPaused(w, ready)
        \/ ClaimNothing(w, ready)
        \/ \E token \in Tokens : ReclaimOwn(w, ready, token) \/ ClaimHead(w, ready, token)
  BY DEF Claim
<1>3. CASE ReclaimUnready(w, ready)
  BY <1>1, <1>3, EndActiveStep DEF ReclaimUnready
<1>4. CASE ReclaimCancelled(w, ready)
  BY <1>1, <1>4, EndActiveStep DEF ReclaimCancelled
<1>5. CASE ReclaimPaused(w, ready)
  <2>1. PICK t \in Tasks :
          /\ IsActive(ReapedTasks, t)
          /\ LET status == IF task[t].preempt_requested THEN "queued" ELSE "paused" IN
             AnswerNothing([ReapedTasks EXCEPT ![t] =
                                 WithFlags(Released(task[t], status), FALSE, FALSE, FALSE)])
    BY <1>5 DEF ReclaimPaused
  <2> DEFINE status == IF task[t].preempt_requested THEN "queued" ELSE "paused"
             row == WithFlags(Released(task[t], status), FALSE, FALSE, FALSE)
  <2>2. row \in Row /\ row.status # "running" /\ row.lease_token = NoToken /\ row.lease = "none"
    <3> DEFINE released == Released(task[t], status)
    <3>1. /\ released \in Row
          /\ released.status # "running"
          /\ released.lease_token = NoToken
          /\ released.lease = "none"
      BY <1>1
    <3> HIDE DEF status, released
    <3>2. row = WithFlags(released, FALSE, FALSE, FALSE)
      BY DEF released
    <3> HIDE DEF row
    <3>3. QED
      BY <3>1, <3>2 DEF WithFlags, Row
  <2>3. QED
    BY <2>1, <2>2, EndActiveStep
<1>6. CASE ClaimNothing(w, ready)
  <2>1. task' = ReapedTasks /\ known' = known
    BY <1>6 DEF ClaimNothing, AnswerNothing
  <2>2. LeaseStep
    BY <2>1, ActiveIsRunning DEF LeaseStep, KeepsLease, Running
  <2>3. QED
    BY <2>1, <2>2, NoGrantStep DEF LeaseStep, KeepsLease, LeaseInv, TokenFencesTask
<1>7. ASSUME NEW token \in Tokens, ReclaimOwn(w, ready, token)
      PROVE  LeaseInv'
  <2>1. PICK t \in Tasks : /\ IsActive(ReapedTasks, t)
                           /\ task[t].worker_id = w
                           /\ Grant(t, ReapedTasks, token)
    BY <1>7 DEF ReclaimOwn
  <2>2. ReapedTasks[t].status = "running" /\ ReapedTasks[t] = task[t]
    BY <2>1, ActiveIsRunning DEF IsActive, Active
  <2>3. \A u \in Tasks : u # t => ReapedTasks[u].status # "running"
    BY <2>1, ActiveIsRunning
  <2>4. QED
    BY <1>0, <2>1, <2>2, <2>3, ActiveIsRunning, GrantStep
<1>8. ASSUME NEW token \in Tokens, ClaimHead(w, ready, token)
      PROVE  LeaseInv'
  <2>1. PICK t \in Tasks : Grant(t, [ReapedTasks EXCEPT ![t] = Started(@, w)], token)
    BY <1>8 DEF ClaimHead
  <2> DEFINE rows == [ReapedTasks EXCEPT ![t] = Started(ReapedTasks[t], w)]
  <2>2. rows \in [Tasks -> Row]
    BY <1>0, StartedIsRow
  <2>3. \A u \in Tasks : rows[u] = IF u = t THEN Started(ReapedTasks[t], w)
                                   ELSE ReapedTasks[u]
    BY <1>0
  <2>4. /\ Started(ReapedTasks[t], w).status = "running"
        /\ Started(ReapedTasks[t], w).worker_id = w
        /\ Started(ReapedTasks[t], w).lease = ReapedTasks[t].lease
    BY <1>0 DEF Started, Row
  <2>5. \A u \in Tasks : ReapedTasks[u].status # "running"
    BY <1>8, ActiveIsRunning DEF ClaimHead
  <2>6. Grant(t, rows, token)
    BY <2>1
  <2> HIDE DEF rows
  <2>7. QED
    BY <2>2, <2>3, <2>4, <2>5, <2>6, ActiveIsRunning, GrantStep
<1>9. QED
  BY <1>2, <1>3, <1>4, <1>5, <1>6, <1>7, <1>8

LEMMA LeaseCallKeepsLease ==
    ASSUME LeaseInv, TypeOK', NEW t \in Tasks, NEW token \in known
    PROVE  /\ Heartbeat(t, token) => LeaseInv'
           /\ \A step \in Steps : AcceptResult(t, token, step) => LeaseInv'
           /\ \A requested \in Reports : Finish(t, token, requested) => LeaseInv'
<1>0. /\ \A u \in Tasks : task[u] \in Row /\ RowFenced(task[u]) /\ task[u].lease # "edge"
      /\ task \in [Tasks -> Row]
  BY DEF LeaseInv, TypeOK, TokenFencesTask
<1>1. HoldsLease(t, token) => Running(t)
  BY <1>0 DEF HoldsLease, RowFenced, Running, Row
<1>2. ASSUME NEW row \in Row, task' = [task EXCEPT ![t] = row], known' = known,
             HoldsLease(t, token),
             row.status = task[t].status, row.lease_token = task[t].lease_token,
             row.worker_id = task[t].worker_id, row.lease = "live"
      PROVE  LeaseInv'
  <2>1. \A u \in Tasks : task'[u] = IF u = t THEN row ELSE task[u]
    BY <1>0, <1>2
  <2>2. LeaseStep
    BY <1>0, <1>1, <1>2, <2>1 DEF LeaseStep, KeepsLease, Running, RowFenced
  <2>3. QED
    BY <1>2, <2>2, NoGrantStep
       DEF LeaseStep, KeepsLease, LeaseInv, TokenFencesTask
<1>3. ASSUME Heartbeat(t, token) PROVE LeaseInv'
  <2> DEFINE row == [task[t] EXCEPT !.lease = "live"]
  <2>1. /\ row \in Row /\ row.status = task[t].status
        /\ row.lease_token = task[t].lease_token
        /\ row.worker_id = task[t].worker_id /\ row.lease = "live"
    BY <1>0 DEF Row, Leases
  <2>2. task' = [task EXCEPT ![t] = row]
    BY <1>3 DEF Heartbeat
  <2> HIDE DEF row
  <2>3. QED
    BY <1>1, <1>2, <1>3, <2>1, <2>2 DEF Heartbeat
<1>4. ASSUME NEW step \in Steps, AcceptResult(t, token, step) PROVE LeaseInv'
  <2>1. /\ Counted(task[t]) \in Row
        /\ Counted(task[t]).status = task[t].status
        /\ Counted(task[t]).lease_token = task[t].lease_token
        /\ Counted(task[t]).worker_id = task[t].worker_id
        /\ Counted(task[t]).lease = "live"
    BY <1>0, CountedIsRow DEF Counted, Row
  <2>2. QED
    BY <1>2, <1>4, <2>1 DEF AcceptResult
<1>5. ASSUME NEW requested \in Reports, Finish(t, token, requested) PROVE LeaseInv'
  <2> DEFINE outcome == Outcome(task[t], requested)
             row == Finished(task[t], outcome)
  <2>1. outcome \in Reports
    BY <1>0, OutcomeIsReport
  <2>2. row \in Row
    BY <1>0, <2>1, FinishedIsRow
  <2>3. row.status # "running" /\ row.lease_token = NoToken /\ row.lease = "none"
    BY <1>0, <2>1 DEF Finished, WithFlags, Released, Row, Reports
  <2>4. \A u \in Tasks : task'[u] = IF u = t THEN row ELSE task[u]
    BY <1>0, <1>5 DEF Finish
  <2>5. \A u \in Tasks : ~Running(u)'
    BY <1>1, <1>5, <2>3, <2>4 DEF Finish, LeaseInv, OneRunningTask, Running
  <2>6. LeaseStep
    BY <1>0, <2>3, <2>4, <2>5 DEF LeaseStep, KeepsLease, RowFenced
  <2>7. QED
    BY <2>5, <2>6, NoGrantStep
<1>6. QED
  BY <1>3, <1>4, <1>5

LEMMA TimeKeepsLease ==
    ASSUME LeaseInv, TypeOK', Time, EdgeInstants = FALSE
    PROVE  LeaseInv'
<1>0. \A t \in Tasks : task[t] \in Row /\ RowFenced(task[t]) /\ task[t].lease # "edge"
  BY DEF LeaseInv, TypeOK, TokenFencesTask
<1>1. ASSUME NEW t \in Tasks, LeasePasses(t) PROVE LeaseInv'
  <2> DEFINE row == [task[t] EXCEPT !.lease = "expired"]
  <2>1. Running(t) /\ SetRow(t, row)
    BY <1>1 DEF LeasePasses
  <2>2. /\ row \in Row /\ row.status = task[t].status
        /\ row.lease_token = task[t].lease_token
        /\ row.worker_id = task[t].worker_id /\ row.lease = "expired"
    BY <1>0 DEF Row, Leases
  <2> HIDE DEF row
  <2>3. RowFenced(row)
    BY <1>0, <2>1, <2>2 DEF RowFenced, Running
  <2>4. QED
    BY <2>1, <2>2, <2>3, SetRowStep
<1>2. ASSUME NEW t \in Tasks, BackoffPasses(t) PROVE LeaseInv'
  <2> DEFINE row == [task[t] EXCEPT !.backoff = FALSE]
  <2>1. /\ row \in Row /\ row.status = task[t].status
        /\ row.lease_token = task[t].lease_token
        /\ row.worker_id = task[t].worker_id /\ row.lease = task[t].lease
    BY <1>0 DEF Row
  <2>2. SetRow(t, row)
    BY <1>2 DEF BackoffPasses
  <2> HIDE DEF row
  <2>3. RowFenced(row) /\ row.lease # "edge"
    BY <1>0, <2>1 DEF RowFenced
  <2>4. QED
    BY <2>1, <2>2, <2>3, SetRowStep DEF Running
<1>3. ASSUME NEW token \in known, Forget(token) PROVE LeaseInv'
  BY <1>3 DEF Forget, LeaseInv, TokenFencesTask, OneRunningTask, Running
<1>4. QED
  BY <1>1, <1>2, <1>3 DEF Time

\* The exact instant lease_expires = now aside, the lease invariant holds in
\* every reachable state of every instance.
THEOREM LeaseInvariant ==
    ASSUME EdgeInstants = FALSE
    PROVE  Spec => []LeaseInv
<1>1. Init => LeaseInv
  <2> SUFFICES ASSUME Init PROVE LeaseInv
    OBVIOUS
  <2>1. NewRow("absent", "other") \in Row
    BY NewRowIsRow DEF Statuses, Kinds
  <2>2. TypeOK
    BY <2>1, BoundsAssumption DEF Init, TypeOK
  <2>3. QED
    BY <2>2 DEF Init, LeaseInv, TokenFencesTask, RowFenced, OneRunningTask,
                Running, NewRow
<1>2. LeaseInv /\ TypeOK' /\ [Next]_vars => LeaseInv'
  <2> SUFFICES ASSUME LeaseInv, TypeOK', [Next]_vars PROVE LeaseInv'
    OBVIOUS
  <2>1. CASE Operator
    BY <2>1, OperatorKeepsLease
  <2>2. CASE Worker
    BY <2>2, ClaimKeepsLease, LeaseCallKeepsLease DEF Worker
  <2>3. CASE Time
    BY <2>3, TimeKeepsLease
  <2>4. CASE UNCHANGED vars
    BY <2>4 DEF vars, LeaseInv, TokenFencesTask, OneRunningTask, Running
  <2>5. QED
    BY <2>1, <2>2, <2>3, <2>4 DEF Next
<1>3. QED
  BY <1>1, <1>2, TypeCorrect, PTL DEF Spec

\* One active task at a time: the reaping, the search for an active task and
\* the grant of claim are one transaction, and no other call starts a task.
THEOREM OneTaskRuns ==
    ASSUME EdgeInstants = FALSE
    PROVE  Spec => []OneRunningTask
BY LeaseInvariant, PTL DEF LeaseInv

\* Exactly the running task has a token, its own, still known to a client.
THEOREM TokensFence ==
    ASSUME EdgeInstants = FALSE
    PROVE  Spec => []TokenFencesTask
BY LeaseInvariant, PTL DEF LeaseInv

-----------------------------------------------------------------------------
(* Counting.  StepsCounted is not inductive alone: a new row must find no   *)
(* results under its id.                                                    *)

UnusedIsEmpty ==
    \A t \in Tasks :
        /\ t > created => task[t].status = "absent"
        /\ task[t].status = "absent" => results[t] = {}

StepsInv == TypeOK /\ StepsCounted /\ UnusedIsEmpty

\* A step that stores and discards nothing, and creates or removes no row.
LEMMA QuietStep ==
    ASSUME StepsInv, TypeOK', UNCHANGED <<created, results>>,
           \A t \in Tasks : /\ task'[t].completed_steps = task[t].completed_steps
                            /\ task'[t].status = "absent" <=> task[t].status = "absent"
    PROVE  StepsInv'
BY DEF StepsInv, StepsCounted, UnusedIsEmpty

LEMMA ReapedKeepsCount ==
    ASSUME NEW row \in Row
    PROVE  /\ Reaped(row).completed_steps = row.completed_steps
           /\ Reaped(row).status = "absent" <=> row.status = "absent"
BY DEF Reaped, Released, WithFlags, Row

\* A stored result is the only new one, so the total is not yet reached.
LEMMA CountedIsCardinality ==
    ASSUME NEW row \in Row, NEW S \in SUBSET Steps, NEW step \in Steps, step \notin S,
           row.completed_steps = Cardinality(S)
    PROVE  Counted(row).completed_steps = Cardinality(S \cup {step})
<1>1. IsFiniteSet(S) /\ Cardinality(S) <= TotalSteps /\ Cardinality(S) # TotalSteps
  BY StepsFinite, FS_Subset DEF TotalSteps
<1>2. Cardinality(S \cup {step}) = Cardinality(S) + 1
  BY <1>1, FS_AddElement
<1>3. Cardinality(S) \in Nat
  BY <1>1, FS_CardinalityType
<1>4. row.completed_steps < TotalSteps
  BY <1>1, <1>3, StepsFinite
<1>5. Counted(row).completed_steps = row.completed_steps + 1
  BY <1>4 DEF Counted, Row
<1>6. QED
  BY <1>2, <1>5

LEMMA ClaimKeepsCount ==
    ASSUME StepsInv, TypeOK', NEW w \in Workers, Claim(w)
    PROVE  StepsInv'
<1>0. /\ \A t \in Tasks : task[t] \in Row
      /\ ReapedTasks \in [Tasks -> Row]
  BY ReapedTasksType DEF StepsInv, TypeOK
<1>1. \A t \in Tasks :
         /\ ReapedTasks[t].completed_steps = task[t].completed_steps
         /\ ReapedTasks[t].status = "absent" <=> task[t].status = "absent"
  BY <1>0, ReapedKeepsCount DEF ReapedTasks
<1>2. ASSUME NEW t \in Tasks, NEW row \in Row, NEW v \in Workers,
             ReapedTasks[t].status # "absent",
             row.status # "absent", row.completed_steps = task[t].completed_steps,
             AnswerNothing([ReapedTasks EXCEPT ![t] = row])
      PROVE  StepsInv'
  BY <1>0, <1>1, <1>2, QuietStep DEF AnswerNothing
<1>3. ASSUME NEW t \in Tasks, NEW s \in {"queued", "paused", "cancelled"}
      PROVE  /\ Released(task[t], s) \in Row
             /\ Released(task[t], s).status # "absent"
             /\ Released(task[t], s).completed_steps = task[t].completed_steps
             /\ WithFlags(Released(task[t], s), FALSE, FALSE, FALSE) \in Row
             /\ WithFlags(Released(task[t], s), FALSE, FALSE, FALSE).status # "absent"
             /\ WithFlags(Released(task[t], s), FALSE, FALSE, FALSE).completed_steps
                  = task[t].completed_steps
  BY <1>0 DEF Released, WithFlags, Row, Leases, Statuses, DeletableStates, FinalStates
<1>4. \A t \in Tasks : IsActive(ReapedTasks, t) => ReapedTasks[t].status # "absent"
  BY DEF IsActive, Active
<1>5. PICK ready \in SUBSET Models :
        \/ ReclaimUnready(w, ready)
        \/ ReclaimCancelled(w, ready)
        \/ ReclaimPaused(w, ready)
        \/ ClaimNothing(w, ready)
        \/ \E token \in Tokens : ReclaimOwn(w, ready, token) \/ ClaimHead(w, ready, token)
  BY DEF Claim
<1>6. CASE ReclaimUnready(w, ready)
  BY <1>2, <1>3, <1>4, <1>6 DEF ReclaimUnready
<1>7. CASE ReclaimCancelled(w, ready)
  BY <1>2, <1>3, <1>4, <1>7 DEF ReclaimCancelled
<1>8. CASE ReclaimPaused(w, ready)
  <2>1. PICK t \in Tasks :
          /\ IsActive(ReapedTasks, t)
          /\ LET status == IF task[t].preempt_requested THEN "queued" ELSE "paused" IN
             AnswerNothing([ReapedTasks EXCEPT ![t] =
                                 WithFlags(Released(task[t], status), FALSE, FALSE, FALSE)])
    BY <1>8 DEF ReclaimPaused
  <2>2. PICK s \in {"queued", "paused", "cancelled"} :
          AnswerNothing([ReapedTasks EXCEPT ![t] =
                              WithFlags(Released(task[t], s), FALSE, FALSE, FALSE)])
    BY <2>1
  <2>3. QED
    BY <1>2, <1>3, <1>4, <2>1, <2>2
<1>9. CASE ClaimNothing(w, ready)
  BY <1>1, <1>9, QuietStep DEF ClaimNothing, AnswerNothing
<1>10. ASSUME NEW t \in Tasks, NEW token \in Tokens, NEW rows \in [Tasks -> Row],
              Grant(t, rows, token),
              \A u \in Tasks : /\ rows[u].completed_steps = task[u].completed_steps
                               /\ rows[u].status = "absent" <=> task[u].status = "absent"
       PROVE  StepsInv'
  <2>1. /\ Leased(rows[t], token).status = rows[t].status
        /\ Leased(rows[t], token).completed_steps = rows[t].completed_steps
    BY DEF Leased, Row
  <2>2. \A u \in Tasks : task'[u] = IF u = t THEN Leased(rows[t], token) ELSE rows[u]
    BY <1>10 DEF Grant
  <2>3. QED
    BY <1>10, <2>1, <2>2, QuietStep DEF Grant
<1>11. ASSUME NEW token \in Tokens, ReclaimOwn(w, ready, token)
       PROVE  StepsInv'
  BY <1>0, <1>1, <1>10, <1>11 DEF ReclaimOwn
<1>12. ASSUME NEW token \in Tokens, ClaimHead(w, ready, token)
       PROVE  StepsInv'
  <2>1. PICK t \in Tasks :
          /\ IsHead(ReapedTasks, t)
          /\ Grant(t, [ReapedTasks EXCEPT ![t] = Started(@, w)], token)
    BY <1>12 DEF ClaimHead
  <2> DEFINE rows == [ReapedTasks EXCEPT ![t] = Started(ReapedTasks[t], w)]
  <2>2. rows \in [Tasks -> Row]
    BY <1>0, StartedIsRow
  <2>3. \A u \in Tasks : rows[u] = IF u = t THEN Started(ReapedTasks[t], w)
                                   ELSE ReapedTasks[u]
    BY <1>0
  <2>4. /\ Started(ReapedTasks[t], w).completed_steps = ReapedTasks[t].completed_steps
        /\ Started(ReapedTasks[t], w).status # "absent"
    BY <1>0 DEF Started, Row
  <2>5. ReapedTasks[t].status # "absent"
    BY <2>1 DEF IsHead, Eligible
  <2>6. Grant(t, rows, token)
    BY <2>1
  <2> HIDE DEF rows
  <2>7. QED
    BY <1>1, <1>10, <2>2, <2>3, <2>4, <2>5, <2>6
<1>13. QED
  BY <1>5, <1>6, <1>7, <1>8, <1>9, <1>11, <1>12

LEMMA OperatorKeepsCount ==
    ASSUME StepsInv, TypeOK', Operator
    PROVE  StepsInv'
<1>0. /\ \A t \in Tasks : task[t] \in Row /\ results[t] \in SUBSET Steps
      /\ task \in [Tasks -> Row]
      /\ results \in [Tasks -> SUBSET Steps]
  BY DEF StepsInv, TypeOK
<1>1. ASSUME NEW k \in Kinds, Create(k)
      PROVE  StepsInv'
  <2>1. \A t \in Tasks : task'[t] = IF t = created + 1 THEN NewRow("queued", k)
                                    ELSE IF k = "diagnosis" THEN Preempted(task[t])
                                    ELSE task[t]
    BY <1>1 DEF Create
  <2>2. \A t \in Tasks : /\ Preempted(task[t]).status = task[t].status
                         /\ Preempted(task[t]).completed_steps = task[t].completed_steps
    BY <1>0 DEF Preempted, Row
  <2>3. created \in Nat /\ created' = created + 1 /\ results' = results
    BY <1>1, BoundsAssumption DEF Create, StepsInv, TypeOK
  <2>4. \A t \in Tasks : t = created + 1 => results[t] = {}
    BY <2>3 DEF StepsInv, UnusedIsEmpty, Tasks
  <2>5. StepsCounted'
    <3>1. \A t \in Tasks : task'[t].completed_steps = IF t = created + 1 THEN 0
                                                      ELSE task[t].completed_steps
      BY <2>1, <2>2 DEF NewRow
    <3>2. QED
      BY <2>3, <2>4, <3>1, FS_EmptySet DEF StepsInv, StepsCounted
  <2>6. UnusedIsEmpty'
    BY <2>1, <2>2, <2>3 DEF StepsInv, UnusedIsEmpty, NewRow, Tasks
  <2>7. QED
    BY <2>5, <2>6 DEF StepsInv
<1>2. ASSUME NEW t \in Tasks, NEW row, SetRow(t, row),
             row.status # "absent", task[t].status # "absent",
             row.completed_steps = task[t].completed_steps
      PROVE  StepsInv'
  BY <1>0, <1>2, QuietStep DEF SetRow
<1>3. ASSUME NEW t \in Tasks, CancelRunning(t) \/ CancelIdle(t) \/ PauseRunning(t)
                                \/ PauseQueued(t) \/ Resume(t)
      PROVE  StepsInv'
  BY <1>0, <1>2, <1>3
     DEF CancelRunning, CancelIdle, PauseRunning, PauseQueued, Resume,
         WithFlags, Released, Row, Running
<1>4. ASSUME NEW t \in Tasks, NEW kept \in SUBSET results[t], KeepResults(t, kept)
      PROVE  StepsInv'
  <2> DEFINE released == WithFlags(Released(task[t], "paused"), FALSE, FALSE, FALSE)
             row == [released EXCEPT !.completed_steps = Cardinality(kept)]
  <2>1. released \in Row /\ released.status = "paused"
    BY <1>0 DEF WithFlags, Released, Row, Leases, Statuses, DeletableStates
  <2> HIDE DEF released
  <2>2. row.status = "paused" /\ row.completed_steps = Cardinality(kept)
    BY <2>1 DEF Row
  <2>3. task' = [task EXCEPT ![t] = row]
    BY <1>4 DEF KeepResults, released
  <2> HIDE DEF row
  <2>4. \A u \in Tasks : /\ task'[u] = IF u = t THEN row ELSE task[u]
                         /\ results'[u] = IF u = t THEN kept ELSE results[u]
    BY <1>0, <1>4, <2>3 DEF KeepResults
  <2>5. task[t].status # "absent" /\ created' = created
    BY <1>4 DEF KeepResults, DeletableStates, FinalStates
  <2>6. QED
    BY <2>2, <2>4, <2>5 DEF StepsInv, StepsCounted, UnusedIsEmpty
<1>5. ASSUME NEW t \in Tasks, Delete(t)
      PROVE  StepsInv'
  <2>1. \A u \in Tasks : /\ task'[u] = IF u = t THEN NewRow("absent", "other") ELSE task[u]
                         /\ results'[u] = IF u = t THEN {} ELSE results[u]
    BY <1>0, <1>5 DEF Delete
  <2>2. QED
    BY <1>5, <2>1, FS_EmptySet DEF Delete, StepsInv, StepsCounted, UnusedIsEmpty, NewRow
<1>6. ASSUME NEW gone \in SUBSET MonitorTasks, ClearMonitorData(gone)
      PROVE  StepsInv'
  <2>1. \A u \in Tasks :
           /\ task'[u] = IF u \in gone THEN NewRow("absent", "other") ELSE task[u]
           /\ results'[u] = IF u \in gone THEN {} ELSE results[u]
    BY <1>6 DEF ClearMonitorData
  <2>2. QED
    BY <1>6, <2>1, FS_EmptySet
       DEF ClearMonitorData, StepsInv, StepsCounted, UnusedIsEmpty, NewRow
<1>7. QED
  BY <1>1, <1>3, <1>4, <1>5, <1>6 DEF Operator, ClearResults, DeleteResult

LEMMA LeaseCallKeepsCount ==
    ASSUME StepsInv, TypeOK', NEW t \in Tasks, NEW token \in known
    PROVE  /\ Heartbeat(t, token) => StepsInv'
           /\ \A step \in Steps : AcceptResult(t, token, step) => StepsInv'
           /\ \A requested \in Reports : Finish(t, token, requested) => StepsInv'
<1>0. /\ task \in [Tasks -> Row]
      /\ results \in [Tasks -> SUBSET Steps]
  BY DEF StepsInv, TypeOK
<1>1. ASSUME Heartbeat(t, token) PROVE StepsInv'
  BY <1>0, <1>1, QuietStep DEF Heartbeat, Row
<1>2. ASSUME NEW step \in Steps, AcceptResult(t, token, step) PROVE StepsInv'
  <2>1. \A u \in Tasks : /\ task'[u] = IF u = t THEN Counted(task[t]) ELSE task[u]
                         /\ results'[u] = IF u = t THEN results[t] \cup {step}
                                          ELSE results[u]
    BY <1>0, <1>2 DEF AcceptResult
  <2>2. Counted(task[t]).completed_steps = Cardinality(results[t] \cup {step})
    BY <1>0, <1>2, CountedIsCardinality DEF AcceptResult, StepsInv, StepsCounted
  <2>3. Counted(task[t]).status = task[t].status /\ task[t].status # "absent"
    BY <1>0, <1>2 DEF AcceptResult, HoldsLease, Counted, Row
  <2>4. QED
    BY <1>2, <2>1, <2>2, <2>3 DEF AcceptResult, StepsInv, StepsCounted, UnusedIsEmpty
<1>3. ASSUME NEW requested \in Reports, Finish(t, token, requested) PROVE StepsInv'
  <2> DEFINE outcome == Outcome(task[t], requested)
             row == Finished(task[t], outcome)
  <2>1. outcome \in Reports
    BY <1>0, OutcomeIsReport
  <2> HIDE DEF outcome
  <2>2. row.status # "absent" /\ row.completed_steps = task[t].completed_steps
    BY <1>0, <2>1 DEF Finished, WithFlags, Released, Row, Reports
  <2>3. \A u \in Tasks : task'[u] = IF u = t THEN row ELSE task[u]
    BY <1>0, <1>3 DEF Finish, outcome
  <2>4. task[t].status # "absent"
    BY <1>3 DEF Finish, HoldsLease
  <2> HIDE DEF row
  <2>5. QED
    BY <1>3, <2>2, <2>3, <2>4, QuietStep DEF Finish
<1>4. QED
  BY <1>1, <1>2, <1>3

\* StepsInv is inductive, edge instants included.
THEOREM StepsInvariant == Spec => []StepsInv
<1>1. Init => StepsInv
  <2> SUFFICES ASSUME Init PROVE StepsInv
    OBVIOUS
  <2>1. NewRow("absent", "other") \in Row
    BY NewRowIsRow DEF Statuses, Kinds
  <2>2. TypeOK
    BY <2>1, BoundsAssumption DEF Init, TypeOK
  <2>3. \A t \in Tasks : results[t] = {} /\ task[t] = NewRow("absent", "other")
    BY DEF Init
  <2>4. NewRow("absent", "other").completed_steps = 0
        /\ NewRow("absent", "other").status = "absent"
    BY DEF NewRow
  <2>5. StepsCounted
    BY <2>3, <2>4, FS_EmptySet DEF StepsCounted
  <2>6. UnusedIsEmpty
    BY <2>3, <2>4 DEF UnusedIsEmpty
  <2>7. QED
    BY <2>2, <2>5, <2>6 DEF StepsInv
<1>2. StepsInv /\ TypeOK' /\ [Next]_vars => StepsInv'
  <2> SUFFICES ASSUME StepsInv, TypeOK', [Next]_vars PROVE StepsInv'
    OBVIOUS
  <2>1. CASE Operator
    BY <2>1, OperatorKeepsCount
  <2>2. CASE Worker
    BY <2>2, ClaimKeepsCount, LeaseCallKeepsCount DEF Worker
  <2>3. CASE Time
    <3>1. \/ task' = task
          \/ \E t \in Tasks, l \in Leases : task' = [task EXCEPT ![t] = [task[t] EXCEPT !.lease = l]]
          \/ \E t \in Tasks : task' = [task EXCEPT ![t] = [task[t] EXCEPT !.backoff = FALSE]]
      <4>1. CASE \E t \in Tasks : LeasePasses(t)
        BY <4>1 DEF LeasePasses, SetRow, Leases
      <4>2. CASE \E t \in Tasks : BackoffPasses(t)
        BY <4>2 DEF BackoffPasses, SetRow
      <4>3. CASE \E token \in known : Forget(token)
        BY <4>3 DEF Forget
      <4>4. QED
        BY <2>3, <4>1, <4>2, <4>3 DEF Time
    <3>4. \A t \in Tasks : /\ task'[t].completed_steps = task[t].completed_steps
                           /\ task'[t].status = task[t].status
      BY <3>1 DEF StepsInv, TypeOK, Row
    <3>2. UNCHANGED <<created, results>>
      BY <2>3 DEF Time, LeasePasses, BackoffPasses, Forget, SetRow
    <3>3. QED
      BY <3>2, <3>4, QuietStep
  <2>4. CASE UNCHANGED vars
    BY <2>4 DEF vars, StepsInv, StepsCounted, UnusedIsEmpty
  <2>5. QED
    BY <2>1, <2>2, <2>3, <2>4 DEF Next
<1>3. QED
  BY <1>1, <1>2, TypeCorrect, PTL DEF Spec

\* The progress counter equals the stored results in every reachable state of
\* every instance, edge instants included.
THEOREM CountIsExact == Spec => []StepsCounted
BY StepsInvariant, PTL DEF StepsInv

-----------------------------------------------------------------------------
(* The changes of a row that leave its results alone, one disjunct for each *)
(* UPDATE of the code.                                                      *)

ByOperator(old, new) ==
    \/ old.status = "absent" /\ \E k \in Kinds : new = NewRow("queued", k)
    \/ new = Preempted(old)
    \/ old.status = "running" /\ new = WithFlags(old, TRUE, FALSE, FALSE)
    \/ /\ old.status \in {"queued", "paused"}
       /\ new = [WithFlags(old, TRUE, FALSE, FALSE) EXCEPT
                   !.status = "cancelled", !.lease_token = NoToken, !.lease = "none"]
    \/ old.status = "running" /\ new = WithFlags(old, old.cancel_requested, TRUE, FALSE)
    \/ /\ old.status = "queued"
       /\ new = WithFlags(Released(old, "paused"), old.cancel_requested, FALSE, FALSE)
    \/ /\ old.status \in {"paused", "failed"}
       /\ new = [WithFlags(Released(old, "queued"), FALSE, FALSE, FALSE)
                   EXCEPT !.backoff = FALSE]

ByClaim(old, new) ==
    \/ new = Reaped(old)
    \/ old.status = "running" /\ new = Released(old, "queued")
    \/ old.status = "running" /\ old.cancel_requested /\ new = Released(old, "cancelled")
    \/ /\ old.status = "running"
       /\ ~old.cancel_requested
       /\ old.pause_requested
       /\ \E status \in {"queued", "paused"} :
             /\ status = IF old.preempt_requested THEN "queued" ELSE "paused"
             /\ new = WithFlags(Released(old, status), FALSE, FALSE, FALSE)

ByGrant(old, new) ==
    \E token \in Tokens :
        \/ /\ old.status = "running"
           /\ ~old.cancel_requested
           /\ new = Leased(old, token)
        \/ \E w \in Workers :
              /\ Reaped(old).status = "queued"
              /\ ~Reaped(old).cancel_requested
              /\ new = Leased(Started(Reaped(old), w), token)

ByLease(old, new) ==
    \/ \E l \in Leases \ {"none"} : old.status = "running" /\ new = [old EXCEPT !.lease = l]
    \/ old.lease_token # NoToken /\ \E requested \in Reports :
          new = Finished(old, Outcome(old, requested))
    \/ new = [old EXCEPT !.backoff = FALSE]

\* The changes that come with a change of the results.
Kept(old, new) ==
    /\ old.status \in DeletableStates
    /\ \E n \in Nat : new = [WithFlags(Released(old, "paused"), FALSE, FALSE, FALSE)
                               EXCEPT !.completed_steps = n]

Gone(old, new) ==
    /\ old.status \in DeletableStates \/ old.kind = "paid_monitor"
    /\ new = NewRow("absent", "other")

Stored(old, new) ==
    /\ old.lease_token # NoToken
    /\ ~old.cancel_requested
    /\ new = Counted(old)

RowStep(t) ==
    \/ /\ results'[t] = results[t]
       /\ \/ task'[t] = task[t]
          \/ ByOperator(task[t], task'[t])
          \/ ByClaim(task[t], task'[t])
          \/ ByGrant(task[t], task'[t])
          \/ ByLease(task[t], task'[t])
    \/ results'[t] \subseteq results[t] /\ Kept(task[t], task'[t])
    \/ results'[t] = {} /\ Gone(task[t], task'[t])
    \/ Stored(task[t], task'[t])

-----------------------------------------------------------------------------
(* Every step is a RowStep of every task.                                   *)

LEMMA OneRowStep ==
    ASSUME TypeOK, NEW t \in Tasks, NEW row, task' = [task EXCEPT ![t] = row],
           UNCHANGED results,
           \/ ByOperator(task[t], row)
           \/ ByClaim(task[t], row)
           \/ ByGrant(task[t], row)
           \/ ByLease(task[t], row)
    PROVE  \A u \in Tasks : RowStep(u)
<1>1. \A u \in Tasks : task'[u] = IF u = t THEN row ELSE task[u]
  BY DEF TypeOK
<1>2. QED
  BY <1>1 DEF RowStep

LEMMA OperatorRowStep ==
    ASSUME StepsInv, Operator
    PROVE  \A t \in Tasks : RowStep(t)
<1>0. /\ TypeOK
      /\ task \in [Tasks -> Row]
      /\ results \in [Tasks -> SUBSET Steps]
  BY DEF StepsInv, TypeOK
<1>1. ASSUME NEW k \in Kinds, Create(k), NEW t \in Tasks
      PROVE  RowStep(t)
  <2>1. task'[t] = IF t = created + 1 THEN NewRow("queued", k)
                   ELSE IF k = "diagnosis" THEN Preempted(task[t])
                   ELSE task[t]
    BY <1>1 DEF Create
  <2>2. t = created + 1 => task[t].status = "absent"
    BY <1>0, BoundsAssumption DEF StepsInv, UnusedIsEmpty, TypeOK, Tasks
  <2>3. \/ task'[t] = task[t]
        \/ ByOperator(task[t], task'[t])
    BY <2>1, <2>2 DEF ByOperator
  <2>4. QED
    BY <1>1, <2>3 DEF Create, RowStep
<1>2. ASSUME NEW t \in Tasks,
             CancelRunning(t) \/ CancelIdle(t) \/ PauseRunning(t) \/ PauseQueued(t) \/ Resume(t)
      PROVE  \A u \in Tasks : RowStep(u)
  <2>1. PICK row : SetRow(t, row) /\ ByOperator(task[t], row)
    BY <1>2 DEF CancelRunning, CancelIdle, PauseRunning, PauseQueued, Resume, ByOperator, Running
  <2>2. QED
    BY <1>0, <2>1, OneRowStep DEF SetRow
<1>3. ASSUME NEW t \in Tasks, NEW kept \in SUBSET results[t], KeepResults(t, kept), NEW u \in Tasks
      PROVE  RowStep(u)
  <2> DEFINE row == [WithFlags(Released(task[t], "paused"), FALSE, FALSE, FALSE)
                       EXCEPT !.completed_steps = Cardinality(kept)]
  <2>1. /\ task'[u] = IF u = t THEN row ELSE task[u]
        /\ results'[u] = IF u = t THEN kept ELSE results[u]
    BY <1>0, <1>3 DEF KeepResults
  <2>2. Cardinality(kept) \in Nat
    BY <1>0, StepsFinite, FS_Subset, FS_CardinalityType
  <2>3. Kept(task[t], row)
    BY <1>3, <2>2 DEF Kept, KeepResults
  <2> HIDE DEF row
  <2>4. QED
    BY <2>1, <2>3 DEF RowStep
<1>4. ASSUME NEW t \in Tasks, Delete(t), NEW u \in Tasks
      PROVE  RowStep(u)
  <2>1. /\ task'[u] = IF u = t THEN NewRow("absent", "other") ELSE task[u]
        /\ results'[u] = IF u = t THEN {} ELSE results[u]
    BY <1>0, <1>4 DEF Delete
  <2>2. QED
    BY <1>4, <2>1 DEF RowStep, Delete, Gone
<1>5. ASSUME NEW gone \in SUBSET MonitorTasks, ClearMonitorData(gone), NEW u \in Tasks
      PROVE  RowStep(u)
  BY <1>5 DEF ClearMonitorData, MonitorTasks, RowStep, Gone
<1>6. QED
  BY <1>1, <1>2, <1>3, <1>4, <1>5 DEF Operator, ClearResults, DeleteResult

\* What the poll leaves alone is reaped; an active row is not.
LEMMA ReapingStep ==
    ASSUME TypeOK, NEW t \in Tasks
    PROVE  /\ ByClaim(task[t], ReapedTasks[t])
           /\ IsActive(ReapedTasks, t) => Running(t) /\ ReapedTasks[t] = task[t]
<1>1. ReapedTasks[t] = Reaped(task[t]) /\ task[t] \in Row
  BY DEF ReapedTasks, TypeOK
<1>2. ASSUME IsActive(ReapedTasks, t) PROVE Running(t) /\ ReapedTasks[t] = task[t]
  <2>1. Reaped(task[t]).status = "running"
    BY <1>1, <1>2 DEF IsActive, Active
  <2>2. task[t].status # "running" => Reaped(task[t]) = task[t]
    BY DEF Reaped
  <2>3. task[t].status = "running" /\ task[t].lease = "expired"
          => Reaped(task[t]).status # "running"
    BY <1>1 DEF Reaped, Released, WithFlags, Row
  <2>4. QED
    BY <1>1, <2>1, <2>2, <2>3 DEF Reaped, Running
<1>3. QED
  BY <1>1, <1>2 DEF ByClaim

LEMMA ClaimRowStep ==
    ASSUME TypeOK, NEW w \in Workers, Claim(w)
    PROVE  \A t \in Tasks : RowStep(t)
<1>1. ReapedTasks \in [Tasks -> Row]
  BY ReapedTasksType
<1>2. results' = results
  BY DEF Claim, ReclaimUnready, ReclaimCancelled, ReclaimPaused, ReclaimOwn, ClaimNothing,
         ClaimHead, AnswerNothing, Grant
<1>3. ASSUME NEW t \in Tasks, NEW row, task' = [ReapedTasks EXCEPT ![t] = row],
             ByClaim(task[t], row) \/ ByGrant(task[t], row), NEW u \in Tasks
      PROVE  RowStep(u)
  <2>1. task'[u] = IF u = t THEN row ELSE ReapedTasks[u]
    BY <1>1, <1>3
  <2>2. QED
    BY <1>2, <1>3, <2>1, ReapingStep DEF RowStep
<1>4. PICK ready \in SUBSET Models :
        \/ ReclaimUnready(w, ready)
        \/ ReclaimCancelled(w, ready)
        \/ ReclaimPaused(w, ready)
        \/ ClaimNothing(w, ready)
        \/ \E token \in Tokens : ReclaimOwn(w, ready, token) \/ ClaimHead(w, ready, token)
  BY DEF Claim
<1>5. CASE ReclaimUnready(w, ready)
  <2>1. PICK t \in Tasks : /\ IsActive(ReapedTasks, t)
                           /\ task' = [ReapedTasks EXCEPT ![t] = Released(task[t], "queued")]
    BY <1>5 DEF ReclaimUnready, AnswerNothing
  <2>2. ByClaim(task[t], Released(task[t], "queued"))
    BY <2>1, ReapingStep DEF ByClaim, Running
  <2>3. QED
    BY <1>3, <2>1, <2>2
<1>6. CASE ReclaimCancelled(w, ready)
  <2>1. PICK t \in Tasks : /\ IsActive(ReapedTasks, t)
                           /\ task[t].cancel_requested
                           /\ task' = [ReapedTasks EXCEPT ![t] = Released(task[t], "cancelled")]
    BY <1>6 DEF ReclaimCancelled, AnswerNothing
  <2>2. ByClaim(task[t], Released(task[t], "cancelled"))
    BY <2>1, ReapingStep DEF ByClaim, Running
  <2>3. QED
    BY <1>3, <2>1, <2>2
<1>7. CASE ReclaimPaused(w, ready)
  <2>1. PICK t \in Tasks, status \in {"queued", "paused"} :
          /\ IsActive(ReapedTasks, t)
          /\ ~task[t].cancel_requested
          /\ task[t].pause_requested
          /\ status = IF task[t].preempt_requested THEN "queued" ELSE "paused"
          /\ task' = [ReapedTasks EXCEPT ![t] =
                        WithFlags(Released(task[t], status), FALSE, FALSE, FALSE)]
    BY <1>7 DEF ReclaimPaused, AnswerNothing
  <2>2. ByClaim(task[t], WithFlags(Released(task[t], status), FALSE, FALSE, FALSE))
    BY <2>1, ReapingStep DEF ByClaim, Running
  <2>3. QED
    BY <1>3, <2>1, <2>2
<1>8. CASE ClaimNothing(w, ready)
  BY <1>2, <1>8, ReapingStep DEF ClaimNothing, AnswerNothing, RowStep
<1>9. ASSUME NEW token \in Tokens, ReclaimOwn(w, ready, token)
      PROVE  \A u \in Tasks : RowStep(u)
  <2>1. PICK t \in Tasks : /\ IsActive(ReapedTasks, t)
                           /\ ~task[t].cancel_requested
                           /\ task' = [ReapedTasks EXCEPT ![t] = Leased(ReapedTasks[t], token)]
    BY <1>9 DEF ReclaimOwn, Grant
  <2>2. ByGrant(task[t], Leased(ReapedTasks[t], token))
    BY <2>1, ReapingStep DEF ByGrant, Running
  <2>3. QED
    BY <1>3, <2>1, <2>2
<1>10. ASSUME NEW token \in Tokens, ClaimHead(w, ready, token)
       PROVE  \A u \in Tasks : RowStep(u)
  <2>1. PICK t \in Tasks :
          /\ IsHead(ReapedTasks, t)
          /\ Grant(t, [ReapedTasks EXCEPT ![t] = Started(@, w)], token)
    BY <1>10 DEF ClaimHead
  <2>2. task' = [ReapedTasks EXCEPT ![t] = Leased(Started(ReapedTasks[t], w), token)]
    BY <1>1, <2>1 DEF Grant
  <2>3. ReapedTasks[t] = Reaped(task[t])
    BY DEF ReapedTasks
  <2>4. ByGrant(task[t], Leased(Started(ReapedTasks[t], w), token))
    BY <2>1, <2>3 DEF ByGrant, IsHead, Eligible
  <2>5. QED
    BY <1>3, <2>2, <2>4
<1>11. QED
  BY <1>4, <1>5, <1>6, <1>7, <1>8, <1>9, <1>10

LEMMA LeaseCallRowStep ==
    ASSUME TypeOK, NEW t \in Tasks, NEW token \in known
    PROVE  /\ Heartbeat(t, token) => \A u \in Tasks : RowStep(u)
           /\ \A step \in Steps : AcceptResult(t, token, step) => \A u \in Tasks : RowStep(u)
           /\ \A requested \in Reports :
                 Finish(t, token, requested) => \A u \in Tasks : RowStep(u)
<1>0. task \in [Tasks -> Row] /\ results \in [Tasks -> SUBSET Steps]
  BY DEF TypeOK
<1>1. ASSUME Heartbeat(t, token) PROVE \A u \in Tasks : RowStep(u)
  <2>1. ByLease(task[t], [task[t] EXCEPT !.lease = "live"])
    BY <1>1 DEF ByLease, Heartbeat, Running, Leases
  <2>2. QED
    BY <1>1, <2>1, OneRowStep DEF Heartbeat
<1>2. ASSUME NEW step \in Steps, AcceptResult(t, token, step), NEW u \in Tasks
      PROVE  RowStep(u)
  <2>1. /\ task'[u] = IF u = t THEN Counted(task[t]) ELSE task[u]
        /\ u # t => results'[u] = results[u]
    BY <1>0, <1>2 DEF AcceptResult
  <2>2. Stored(task[t], Counted(task[t]))
    BY <1>2 DEF Stored, AcceptResult, HoldsLease
  <2>3. QED
    BY <2>1, <2>2 DEF RowStep
<1>3. ASSUME NEW requested \in Reports, Finish(t, token, requested)
      PROVE  \A u \in Tasks : RowStep(u)
  <2>1. ByLease(task[t], Finished(task[t], Outcome(task[t], requested)))
    BY <1>3 DEF ByLease, Finish, HoldsLease
  <2>2. QED
    BY <1>3, <2>1, OneRowStep DEF Finish
<1>4. QED
  BY <1>1, <1>2, <1>3

LEMMA TimeRowStep ==
    ASSUME TypeOK, Time
    PROVE  \A t \in Tasks : RowStep(t)
<1>1. ASSUME NEW t \in Tasks, LeasePasses(t) \/ BackoffPasses(t)
      PROVE  \A u \in Tasks : RowStep(u)
  <2>1. PICK row : SetRow(t, row) /\ ByLease(task[t], row)
    BY <1>1 DEF LeasePasses, BackoffPasses, ByLease, Running, Leases
  <2>2. QED
    BY <2>1, OneRowStep DEF SetRow
<1>2. ASSUME NEW token \in known, Forget(token)
      PROVE  \A u \in Tasks : RowStep(u)
  BY <1>2 DEF Forget, RowStep
<1>3. QED
  BY <1>1, <1>2 DEF Time

LEMMA EveryRowStep ==
    ASSUME StepsInv, [Next]_vars
    PROVE  \A t \in Tasks : RowStep(t)
<1>0. TypeOK
  BY DEF StepsInv
<1>1. CASE Operator
  BY <1>1, OperatorRowStep
<1>2. CASE Worker
  BY <1>0, <1>2, ClaimRowStep, LeaseCallRowStep DEF Worker
<1>3. CASE Time
  BY <1>0, <1>3, TimeRowStep
<1>4. CASE UNCHANGED vars
  BY <1>4 DEF vars, RowStep
<1>5. QED
  BY <1>1, <1>2, <1>3, <1>4 DEF Next

-----------------------------------------------------------------------------
(* Cancels and final states: properties of single rows.                     *)

LEMMA RowKeepsCancel ==
    ASSUME NEW t \in Tasks, task[t] \in Row, RowStep(t), Running(t), task[t].cancel_requested
    PROVE  /\ results'[t] \subseteq results[t]
           /\ \/ task'[t].status \in {"running", "cancelled", "absent"}
              \/ task'[t].status = "queued" /\ task'[t].cancel_requested
<1> DEFINE old == task[t]
           new == task'[t]
<1>1. CASE new = old
  BY <1>1 DEF Running, RowStep, Stored, Counted, Row
<1>2. CASE results'[t] = results[t] /\ ByOperator(old, new)
  BY <1>2 DEF ByOperator, Running, Preempted, WithFlags, Row
<1>3. CASE results'[t] = results[t] /\ ByClaim(old, new)
  BY <1>3 DEF ByClaim, Running, Reaped, Released, WithFlags, Row
<1>4. CASE results'[t] = results[t] /\ ByGrant(old, new)
  BY <1>4 DEF ByGrant, Running, Reaped
<1>5. CASE results'[t] = results[t] /\ ByLease(old, new)
  <2>1. \A requested \in Reports : Outcome(old, requested) = "cancelled"
    BY DEF Outcome
  <2>2. Finished(old, "cancelled").status = "cancelled"
    BY DEF Finished, Released, WithFlags, Row
  <2>3. QED
    BY <1>5, <2>1, <2>2 DEF ByLease, Running, Row
<1>6. CASE Kept(old, new)
  BY <1>6 DEF Kept, Running, DeletableStates, FinalStates
<1>7. CASE results'[t] = {} /\ Gone(old, new)
  BY <1>7 DEF Gone, NewRow
<1>8. CASE Stored(old, new)
  BY <1>8 DEF Stored
<1>9. QED
  BY <1>1, <1>2, <1>3, <1>4, <1>5, <1>6, <1>7, <1>8 DEF RowStep

\* A task asked to stop stores nothing more and ends only as cancelled, for
\* every instance and every interleaving.
THEOREM CancelPrevails == Spec => CancelWins
<1>1. StepsInv /\ [Next]_vars =>
        [\A t \in Tasks :
           Running(t) /\ task[t].cancel_requested =>
              /\ results'[t] \subseteq results[t]
              /\ \/ task'[t].status \in {"running", "cancelled", "absent"}
                 \/ task'[t].status = "queued" /\ task'[t].cancel_requested]_vars
  BY EveryRowStep, RowKeepsCancel DEF StepsInv, TypeOK
<1>2. QED
  BY <1>1, StepsInvariant, PTL DEF Spec, CancelWins

\* Every row is fenced, edge instants included: the release of a lease clears
\* token and expiry together, and only a grant sets them.
FencedInv == \A t \in Tasks : RowFenced(task[t])

\* YieldIsAPause, of one row.
YieldRow(row) ==
    row.preempt_requested =>
        /\ row.kind = "paid_monitor"
        /\ row.pause_requested
        /\ ~row.cancel_requested
        /\ row.status \in {"running", "queued"}

LEMMA GrantedFields ==
    ASSUME NEW row \in Row, NEW token \in Tokens, NEW w \in Workers
    PROVE  /\ Leased(row, token).status = row.status
           /\ Leased(row, token).kind = row.kind
           /\ Leased(row, token).cancel_requested = row.cancel_requested
           /\ Leased(row, token).pause_requested = row.pause_requested
           /\ Leased(row, token).preempt_requested = row.preempt_requested
           /\ Leased(row, token).worker_id = row.worker_id
           /\ Leased(row, token).lease_token = token
           /\ Leased(row, token).lease = "live"
           /\ Started(row, w).status = "running"
           /\ Started(row, w).kind = row.kind
           /\ Started(row, w).cancel_requested = row.cancel_requested
           /\ Started(row, w).pause_requested = row.pause_requested
           /\ Started(row, w).preempt_requested = row.preempt_requested
           /\ Started(row, w).worker_id = w
BY DEF Leased, Started, Row

LEMMA ReapedFields ==
    ASSUME NEW row \in Row
    PROVE  /\ Reaped(row).kind = row.kind
           /\ \/ Reaped(row) = row
              \/ /\ row.status = "running"
                 /\ Reaped(row).status \in {"cancelled", "queued", "paused"}
                 /\ Reaped(row).lease_token = NoToken
                 /\ Reaped(row).lease = "none"
           /\ Reaped(row).preempt_requested /\ Reaped(row) # row
                 => row.cancel_requested \/ ~row.pause_requested
           /\ Reaped(row).preempt_requested => row.preempt_requested
<1>1. CASE row.status # "running" \/ row.lease # "expired"
  BY <1>1 DEF Reaped
<1>2. CASE row.status = "running" /\ row.lease = "expired"
  BY <1>2 DEF Reaped, Released, WithFlags, Row
<1>3. QED
  BY <1>1, <1>2

LEMMA OperatorRow ==
    ASSUME NEW old \in Row, NEW new, ByOperator(old, new)
    PROVE  /\ RowFenced(old) => RowFenced(new)
           /\ YieldRow(old) => YieldRow(new)
<1>1. CASE \E k \in Kinds : new = NewRow("queued", k)
  BY <1>1 DEF NewRow, RowFenced, YieldRow
<1>2. CASE new = Preempted(old)
  BY <1>2 DEF Preempted, Row, RowFenced, YieldRow
<1>3. CASE new = WithFlags(old, TRUE, FALSE, FALSE)
  <2>1. /\ new.status = old.status /\ new.worker_id = old.worker_id
        /\ new.lease_token = old.lease_token /\ new.lease = old.lease
        /\ new.preempt_requested = FALSE
    BY <1>3 DEF WithFlags, Row
  <2>2. QED
    BY <2>1 DEF RowFenced, YieldRow
<1>4. CASE new = [WithFlags(old, TRUE, FALSE, FALSE) EXCEPT
                    !.status = "cancelled", !.lease_token = NoToken, !.lease = "none"]
  <2>1. /\ new.status = "cancelled" /\ new.lease_token = NoToken
        /\ new.lease = "none" /\ new.preempt_requested = FALSE
    BY <1>4 DEF WithFlags, Row
  <2>2. QED
    BY <2>1 DEF RowFenced, YieldRow
<1>5. CASE new = WithFlags(old, old.cancel_requested, TRUE, FALSE)
  <2>1. /\ new.status = old.status /\ new.worker_id = old.worker_id
        /\ new.lease_token = old.lease_token /\ new.lease = old.lease
        /\ new.preempt_requested = FALSE
    BY <1>5 DEF WithFlags, Row
  <2>2. QED
    BY <2>1 DEF RowFenced, YieldRow
<1>6. CASE new = WithFlags(Released(old, "paused"), old.cancel_requested, FALSE, FALSE)
  <2>1. /\ new.status = "paused" /\ new.lease_token = NoToken
        /\ new.lease = "none" /\ new.preempt_requested = FALSE
    BY <1>6 DEF WithFlags, Released, Row
  <2>2. QED
    BY <2>1 DEF RowFenced, YieldRow
<1>7. CASE new = [WithFlags(Released(old, "queued"), FALSE, FALSE, FALSE) EXCEPT !.backoff = FALSE]
  <2>1. /\ new.status = "queued" /\ new.lease_token = NoToken
        /\ new.lease = "none" /\ new.preempt_requested = FALSE
    BY <1>7 DEF WithFlags, Released, Row
  <2>2. QED
    BY <2>1 DEF RowFenced, YieldRow
<1>8. QED
  BY <1>1, <1>2, <1>3, <1>4, <1>5, <1>6, <1>7 DEF ByOperator

LEMMA ClaimRow ==
    ASSUME NEW old \in Row, NEW new, ByClaim(old, new)
    PROVE  /\ RowFenced(old) => RowFenced(new)
           /\ YieldRow(old) => YieldRow(new)
<1>1. CASE new = Reaped(old)
  BY <1>1, ReapedFields DEF RowFenced, YieldRow
<1>2. CASE new = Released(old, "queued")
  <2>1. /\ new.status = "queued" /\ new.lease_token = NoToken /\ new.lease = "none"
        /\ new.kind = old.kind
        /\ new.cancel_requested = old.cancel_requested
        /\ new.pause_requested = old.pause_requested
        /\ new.preempt_requested = old.preempt_requested
    BY <1>2 DEF Released, Row
  <2>2. QED
    BY <2>1 DEF RowFenced, YieldRow
<1>3. CASE old.cancel_requested /\ new = Released(old, "cancelled")
  <2>1. /\ new.status = "cancelled" /\ new.lease_token = NoToken /\ new.lease = "none"
        /\ new.preempt_requested = old.preempt_requested
    BY <1>3 DEF Released, Row
  <2>2. QED
    BY <1>3, <2>1 DEF RowFenced, YieldRow
<1>4. ASSUME NEW status \in {"queued", "paused"},
             new = WithFlags(Released(old, status), FALSE, FALSE, FALSE)
      PROVE  RowFenced(new) /\ YieldRow(new)
  <2>1. /\ new.status = status /\ new.lease_token = NoToken
        /\ new.lease = "none" /\ new.preempt_requested = FALSE
    BY <1>4 DEF WithFlags, Released, Row
  <2>2. QED
    BY <2>1 DEF RowFenced, YieldRow
<1>5. QED
  BY <1>1, <1>2, <1>3, <1>4 DEF ByClaim

LEMMA RowStaysFenced ==
    ASSUME NEW t \in Tasks, task[t] \in Row, RowStep(t), RowFenced(task[t])
    PROVE  RowFenced(task'[t])
<1> DEFINE old == task[t]
           new == task'[t]
<1>1. CASE new = old
  BY <1>1
<1>2. CASE ByOperator(old, new)
  BY <1>2, OperatorRow
<1>3. CASE ByClaim(old, new)
  BY <1>3, ClaimRow
<1>4. CASE ByGrant(old, new)
  <2>1. PICK token \in Tokens :
          \/ old.status = "running" /\ new = Leased(old, token)
          \/ \E w \in Workers : new = Leased(Started(Reaped(old), w), token)
    BY <1>4 DEF ByGrant
  <2>2. CASE old.status = "running" /\ new = Leased(old, token)
    <3>1. /\ new.status = "running" /\ new.lease_token = token
          /\ new.lease = "live" /\ new.worker_id = old.worker_id
      BY <2>2, GrantedFields DEF Leased, Row
    <3>2. QED
      BY <2>2, <3>1, NullAssumption DEF RowFenced
  <2>3. ASSUME NEW w \in Workers, new = Leased(Started(Reaped(old), w), token)
        PROVE  RowFenced(new)
    <3>1. Started(Reaped(old), w) \in Row
      BY ReapedIsRow, StartedIsRow
    <3>2. Reaped(old) \in Row
      BY ReapedIsRow
    <3>3. /\ new.status = "running" /\ new.lease_token = token
          /\ new.lease = "live" /\ new.worker_id = w
      BY <2>3, <3>1, <3>2, GrantedFields
    <3>4. QED
      BY <3>3, NullAssumption DEF RowFenced
  <2>4. QED
    BY <2>1, <2>2, <2>3
<1>5. CASE ByLease(old, new)
  <2>1. ASSUME NEW requested \in Reports, new = Finished(old, Outcome(old, requested))
        PROVE  new.status # "running" /\ new.lease_token = NoToken /\ new.lease = "none"
    <3>1. Outcome(old, requested) \in Reports
      BY OutcomeIsReport
    <3>2. QED
      BY <2>1, <3>1 DEF Finished, Released, WithFlags, Row, Reports
  <2>2. CASE \E requested \in Reports : new = Finished(old, Outcome(old, requested))
    BY <2>1, <2>2 DEF RowFenced
  <2>3. CASE \E l \in Leases \ {"none"} : old.status = "running" /\ new = [old EXCEPT !.lease = l]
    BY <2>3 DEF Row, RowFenced
  <2>4. CASE new = [old EXCEPT !.backoff = FALSE]
    BY <2>4 DEF Row, RowFenced
  <2>5. QED
    BY <1>5, <2>2, <2>3, <2>4 DEF ByLease
<1>6. CASE Kept(old, new)
  BY <1>6 DEF Kept, Released, WithFlags, Row, RowFenced
<1>7. CASE Gone(old, new)
  BY <1>7 DEF Gone, NewRow, RowFenced
<1>8. CASE Stored(old, new)
  BY <1>8 DEF Stored, Counted, Row, RowFenced
<1>9. QED
  BY <1>1, <1>2, <1>3, <1>4, <1>5, <1>6, <1>7, <1>8 DEF RowStep

THEOREM FencedInvariant == Spec => []FencedInv
<1>1. Init => FencedInv
  BY DEF Init, FencedInv, RowFenced, NewRow
<1>2. StepsInv /\ StepsInv' /\ FencedInv /\ [Next]_vars => FencedInv'
  BY EveryRowStep, RowStaysFenced, NullAssumption DEF StepsInv, TypeOK, FencedInv
<1>3. QED
  BY <1>1, <1>2, StepsInvariant, PTL DEF Spec

-----------------------------------------------------------------------------
(* Yields.                                                                  *)

LEMMA RowStaysYield ==
    ASSUME NEW t \in Tasks, task[t] \in Row, RowStep(t),
           YieldRow(task[t])
    PROVE  YieldRow(task'[t])
<1> DEFINE old == task[t]
           new == task'[t]
<1>1. CASE new = old
  BY <1>1
<1>2. CASE ByOperator(old, new)
  BY <1>2, OperatorRow
<1>3. CASE ByClaim(old, new)
  BY <1>3, ClaimRow
<1>4. CASE ByGrant(old, new)
  <2>1. PICK token \in Tokens :
          \/ old.status = "running" /\ new = Leased(old, token)
          \/ \E w \in Workers : new = Leased(Started(Reaped(old), w), token)
    BY <1>4 DEF ByGrant
  <2>2. CASE old.status = "running" /\ new = Leased(old, token)
    BY <2>2 DEF Leased, Row, YieldRow
  <2>3. ASSUME NEW w \in Workers, new = Leased(Started(Reaped(old), w), token)
        PROVE  YieldRow(new)
    <3>1. Started(Reaped(old), w) \in Row /\ Reaped(old) \in Row
      BY ReapedIsRow, StartedIsRow
    <3>2. /\ new.status = "running" /\ new.kind = Reaped(old).kind
          /\ new.cancel_requested = Reaped(old).cancel_requested
          /\ new.pause_requested = Reaped(old).pause_requested
          /\ new.preempt_requested = Reaped(old).preempt_requested
      BY <2>3, <3>1, GrantedFields
    <3>3. Reaped(old).preempt_requested => Reaped(old) = old
      BY ReapedFields DEF YieldRow
    <3>4. QED
      BY <3>2, <3>3 DEF YieldRow
  <2>4. QED
    BY <2>1, <2>2, <2>3
<1>5. CASE ByLease(old, new)
  BY <1>5 DEF ByLease, Finished, Released, WithFlags, Row, YieldRow
<1>6. CASE Kept(old, new)
  BY <1>6 DEF Kept, Released, WithFlags, Row, YieldRow
<1>7. CASE Gone(old, new)
  BY <1>7 DEF Gone, NewRow, YieldRow
<1>8. CASE Stored(old, new)
  BY <1>8 DEF Stored, Counted, Row, YieldRow
<1>9. QED
  BY <1>1, <1>2, <1>3, <1>4, <1>5, <1>6, <1>7, <1>8 DEF RowStep

\* A yield is asked of a daily monitor only, with a pause, and a cancel or an
\* operator's pause withdraws it.
THEOREM YieldFlagsAgree == Spec => []YieldIsAPause
<1>1. YieldIsAPause <=> \A t \in Tasks : YieldRow(task[t])
  BY DEF YieldIsAPause, YieldRow
<1>2. Init => YieldIsAPause
  BY <1>1 DEF Init, NewRow, YieldRow
<1>3. StepsInv /\ StepsInv' /\ FencedInv /\ YieldIsAPause /\ [Next]_vars => YieldIsAPause'
  BY EveryRowStep, RowStaysYield DEF StepsInv, TypeOK, FencedInv, YieldIsAPause, YieldRow
<1>4. QED
  BY <1>2, <1>3, StepsInvariant, FencedInvariant, PTL DEF Spec

LEMMA RowYields ==
    ASSUME NEW t \in Tasks, task[t] \in Row, RowStep(t), YieldRow(task[t]),
           Running(t), task[t].preempt_requested, task'[t].status # "running"
    PROVE  \/ task'[t].status = "queued" /\ results'[t] = results[t]
           \/ task'[t].status = "absent" /\ task[t].kind = "paid_monitor"
<1> DEFINE old == task[t]
           new == task'[t]
<1>0. /\ old.status = "running" /\ old.kind = "paid_monitor"
      /\ old.pause_requested /\ ~old.cancel_requested
  BY DEF YieldRow, Running
<1>2. CASE results'[t] = results[t] /\ ByOperator(old, new)
  BY <1>0, <1>2 DEF ByOperator, Preempted, WithFlags, Row
<1>3. CASE results'[t] = results[t] /\ ByClaim(old, new)
  BY <1>0, <1>3 DEF ByClaim, Reaped, Released, WithFlags, Row
<1>4. CASE ByGrant(old, new)
  <2>1. Reaped(old) \in Row
    BY ReapedIsRow
  <2>2. \A token \in Tokens : Leased(old, token).status = old.status
    BY DEF Leased, Row
  <2>3. \A token \in Tokens, w \in Workers :
           Leased(Started(Reaped(old), w), token).status = "running"
    BY <2>1, GrantedFields, StartedIsRow
  <2>4. QED
    BY <1>0, <1>4, <2>2, <2>3 DEF ByGrant
<1>5. CASE results'[t] = results[t] /\ ByLease(old, new)
  <2>1. \A requested \in Reports : Outcome(old, requested) = "paused"
    BY <1>0 DEF Outcome
  <2>2. Finished(old, "paused").status = "queued"
    BY <1>0 DEF Finished, Released, WithFlags, Row
  <2>3. QED
    BY <1>0, <1>5, <2>1, <2>2 DEF ByLease, Row
<1>6. CASE Kept(old, new)
  BY <1>0, <1>6 DEF Kept, DeletableStates, FinalStates
<1>7. CASE Gone(old, new)
  BY <1>0, <1>7 DEF Gone, NewRow
<1>8. CASE Stored(old, new)
  BY <1>0, <1>8 DEF Stored, Counted, Row
<1>9. QED
  BY <1>0, <1>2, <1>3, <1>4, <1>5, <1>6, <1>7, <1>8 DEF RowStep

\* A monitor that yields is queued again with all its rounds, on every path on
\* which its run can end.
THEOREM YieldsReturn == Spec => YieldReturnsToQueue
<1>1. StepsInv /\ YieldIsAPause /\ [Next]_vars =>
        [\A t \in Tasks :
           Running(t) /\ task[t].preempt_requested /\ ~Running(t)'
              => \/ task'[t].status = "queued" /\ results'[t] = results[t]
                 \/ task'[t].status = "absent" /\ task[t].kind = "paid_monitor"]_vars
  BY EveryRowStep, RowYields DEF StepsInv, TypeOK, YieldIsAPause, YieldRow, Running
<1>2. QED
  BY <1>1, StepsInvariant, YieldFlagsAgree, PTL DEF Spec, YieldReturnsToQueue

-----------------------------------------------------------------------------
(* The queue implements the single collector lease.                         *)

LEMMA HeldByRunning ==
    ASSUME OneRunningTask
    PROVE  /\ \A t \in Tasks : Running(t) => HeldLease = [task |-> t, token |-> task[t].lease_token]
           /\ (\A t \in Tasks : ~Running(t)) => HeldLease = NoLease
<1>1. ASSUME NEW t \in Tasks, Running(t)
      PROVE  HeldLease = [task |-> t, token |-> task[t].lease_token]
  <2>1. (CHOOSE u \in Tasks : Running(u)) = t
    BY <1>1 DEF OneRunningTask
  <2>2. QED
    BY <1>1, <2>1 DEF HeldLease
<1>2. ASSUME \A t \in Tasks : ~Running(t)
      PROVE  HeldLease = NoLease
  BY <1>2 DEF HeldLease
<1>3. QED
  BY <1>1, <1>2

\* The same of the state after a step.
LEMMA HeldByRunningNext ==
    ASSUME OneRunningTask'
    PROVE  /\ \A t \in Tasks :
                 Running(t)' => HeldLease' = [task |-> t, token |-> task'[t].lease_token]
           /\ (\A t \in Tasks : ~Running(t)') => HeldLease' = NoLease
<1>1. ASSUME NEW t \in Tasks, Running(t)'
      PROVE  HeldLease' = [task |-> t, token |-> task'[t].lease_token]
  <2>1. (CHOOSE u \in Tasks : Running(u)') = t
    BY <1>1 DEF OneRunningTask
  <2>2. QED
    BY <1>1, <2>1 DEF HeldLease
<1>2. ASSUME \A t \in Tasks : ~Running(t)'
      PROVE  HeldLease' = NoLease
  BY <1>2 DEF HeldLease
<1>3. QED
  BY <1>1, <1>2

LEMMA HeldIsNotNone ==
    ASSUME NEW t \in Tasks, NEW token
    PROVE  /\ [task |-> t, token |-> token] # NoLease
           /\ [task |-> t, token |-> token].task = t
           /\ [task |-> t, token |-> token].token = token
<1>1. t # NoTask
  BY BoundsAssumption DEF Tasks, NoTask
<1>2. [task |-> t, token |-> token].task # NoLease.task
  BY <1>1 DEF NoLease
<1>3. QED
  BY <1>2

\* A step that grants no token keeps the lease or ends it.
LEMMA HeldKeptOrEnded ==
    ASSUME LeaseInv, LeaseInv',
           \A t \in Tasks : task'[t].lease_token \in {task[t].lease_token, NoToken}
    PROVE  /\ HeldLease' \in {HeldLease, NoLease}
           /\ \A t \in Tasks : Running(t)' =>
                 Running(t) /\ task'[t].lease_token = task[t].lease_token
<1>1. ASSUME NEW t \in Tasks, Running(t)'
      PROVE  Running(t) /\ task'[t].lease_token = task[t].lease_token
  <2>1. task'[t].lease_token # NoToken
    BY <1>1 DEF LeaseInv, TokenFencesTask, RowFenced, Running
  <2>2. QED
    BY <2>1 DEF LeaseInv, TokenFencesTask, RowFenced, Running
<1>2. CASE \E t \in Tasks : Running(t)'
  BY <1>1, <1>2, HeldByRunning, HeldByRunningNext DEF LeaseInv
<1>3. CASE \A t \in Tasks : ~Running(t)'
  BY <1>3, HeldByRunningNext DEF LeaseInv
<1>4. QED
  BY <1>1, <1>2, <1>3

\* The steps of the lease, spelled out over the state of the queue.
LeaseMove == Lease!LeaseNext \/ UNCHANGED Lease!leaseVars

LEMMA EndsLease ==
    ASSUME LeaseInv, LeaseInv', UNCHANGED <<results, known>>,
           \A t \in Tasks : task'[t].lease_token \in {task[t].lease_token, NoToken}
    PROVE  LeaseMove
<1>1. CASE HeldLease' = HeldLease
  BY <1>1 DEF LeaseMove, Lease!leaseVars
<1>2. CASE HeldLease' = NoLease /\ HeldLease # NoLease
  BY <1>2 DEF LeaseMove, Lease!LeaseNext, Lease!EndLease
<1>3. QED
  BY <1>1, <1>2, HeldKeptOrEnded

LEMMA GrantsLease ==
    ASSUME LeaseInv, LeaseInv', NEW w \in Workers, NEW t \in Tasks, NEW token \in Tokens,
           NEW rows \in [Tasks -> Row], Grant(t, rows, token)
    PROVE  LeaseMove
<1>1. task'[t].lease_token = token
  BY DEF Grant, Leased, Row
<1>2. Running(t)'
  BY <1>1, NullAssumption DEF LeaseInv, TokenFencesTask, RowFenced, Running
<1>3. HeldLease' = [task |-> t, token |-> token]
  BY <1>1, <1>2, HeldByRunningNext DEF LeaseInv
<1>4. QED
  BY <1>3 DEF Grant, LeaseMove, Lease!LeaseNext, Lease!GrantLease

\* Operators and the reaping only ever take tokens away.
LEMMA OperatorToken ==
    ASSUME NEW old \in Row, NEW new, ByOperator(old, new)
    PROVE  new.lease_token \in {old.lease_token, NoToken}
<1>1. CASE \E k \in Kinds : new = NewRow("queued", k)
  BY <1>1 DEF NewRow
<1>2. CASE new = Preempted(old)
  BY <1>2 DEF Preempted, Row
<1>3. CASE \E c \in BOOLEAN, p \in BOOLEAN : new = WithFlags(old, c, p, FALSE)
  BY <1>3 DEF WithFlags, Row
<1>4. CASE new = [WithFlags(old, TRUE, FALSE, FALSE) EXCEPT
                    !.status = "cancelled", !.lease_token = NoToken, !.lease = "none"]
  BY <1>4 DEF WithFlags, Row
<1>5. CASE new = WithFlags(Released(old, "paused"), old.cancel_requested, FALSE, FALSE)
  BY <1>5 DEF WithFlags, Released, Row
<1>6. CASE new = [WithFlags(Released(old, "queued"), FALSE, FALSE, FALSE) EXCEPT !.backoff = FALSE]
  BY <1>6 DEF WithFlags, Released, Row
<1>7. old.cancel_requested \in BOOLEAN
  BY DEF Row
<1>8. QED
  BY <1>1, <1>2, <1>3, <1>4, <1>5, <1>6, <1>7 DEF ByOperator

LEMMA ClaimToken ==
    ASSUME NEW old \in Row, NEW new, ByClaim(old, new)
    PROVE  new.lease_token \in {old.lease_token, NoToken}
<1>1. CASE new = Reaped(old)
  BY <1>1, ReapedFields
<1>2. ASSUME NEW s \in {"queued", "cancelled", "paused"}
      PROVE  /\ Released(old, s).lease_token = NoToken
             /\ WithFlags(Released(old, s), FALSE, FALSE, FALSE).lease_token = NoToken
  BY DEF WithFlags, Released, Row
<1>3. QED
  BY <1>1, <1>2 DEF ByClaim

LEMMA OperatorLeaseMove ==
    ASSUME LeaseInv, LeaseInv', StepsInv, Operator
    PROVE  LeaseMove
<1>0. task \in [Tasks -> Row] /\ results \in [Tasks -> SUBSET Steps]
  BY DEF LeaseInv, TypeOK
<1>1. ASSUME NEW k \in Kinds, Create(k)
      PROVE  LeaseMove
  <2>1. ASSUME NEW t \in Tasks
        PROVE  task'[t].lease_token \in {task[t].lease_token, NoToken}
    <3>1. Preempted(task[t]).lease_token = task[t].lease_token
      BY <1>0 DEF Preempted, Row
    <3>2. QED
      BY <1>1, <3>1 DEF Create, NewRow
  <2>2. QED
    BY <1>1, <2>1, EndsLease DEF Create
<1>2. ASSUME NEW t \in Tasks,
             CancelRunning(t) \/ CancelIdle(t) \/ PauseRunning(t) \/ PauseQueued(t) \/ Resume(t)
      PROVE  LeaseMove
  <2>0. PICK row : SetRow(t, row) /\ ByOperator(task[t], row)
    BY <1>2 DEF CancelRunning, CancelIdle, PauseRunning, PauseQueued, Resume, ByOperator, Running
  <2>1. SetRow(t, row) /\ row.lease_token \in {task[t].lease_token, NoToken}
    BY <1>0, <2>0, OperatorToken
  <2>2. \A u \in Tasks : task'[u] = IF u = t THEN row ELSE task[u]
    BY <1>0, <2>1 DEF SetRow
  <2>3. QED
    BY <2>1, <2>2, EndsLease DEF SetRow
<1>3. ASSUME NEW t \in Tasks, NEW kept \in SUBSET Steps, kept \subseteq results[t],
             NEW row, row.status # "running",
             ~Running(t),
             task' = [task EXCEPT ![t] = row],
             results' = [results EXCEPT ![t] = kept],
             known' = known
      PROVE  LeaseMove
  <2>1. \A u \in Tasks : task'[u] = IF u = t THEN row ELSE task[u]
    BY <1>0, <1>3
  <2>2. \A u \in Tasks : /\ Running(u)' <=> Running(u)
                         /\ Running(u) => task'[u] = task[u]
    BY <1>3, <2>1 DEF Running
  <2>3. HeldLease' = HeldLease
    <3>1. CASE \E u \in Tasks : Running(u)
      BY <2>2, <3>1, HeldByRunning, HeldByRunningNext DEF LeaseInv
    <3>2. CASE \A u \in Tasks : ~Running(u)
      BY <2>2, <3>2, HeldByRunning, HeldByRunningNext DEF LeaseInv
    <3>3. QED
      BY <3>1, <3>2
  <2>4. HeldLease = NoLease \/ HeldLease.task # t
    <3>1. ASSUME NEW u \in Tasks, Running(u) PROVE HeldLease.task # t
      BY <1>3, <3>1, HeldByRunning DEF LeaseInv
    <3>2. QED
      BY <3>1, HeldByRunning DEF LeaseInv
  <2>5. Lease!Discard(t, kept)
    BY <1>3, <2>3, <2>4 DEF Lease!Discard
  <2>6. QED
    BY <2>5 DEF LeaseMove, Lease!LeaseNext
<1>4. ASSUME NEW t \in Tasks, NEW kept \in SUBSET results[t], KeepResults(t, kept)
      PROVE  LeaseMove
  <2> DEFINE row == [WithFlags(Released(task[t], "paused"), FALSE, FALSE, FALSE)
                       EXCEPT !.completed_steps = Cardinality(kept)]
  <2>1. row.status = "paused"
    BY <1>0 DEF WithFlags, Released, Row
  <2>2. ~Running(t) /\ kept \in SUBSET Steps
    BY <1>0, <1>4 DEF KeepResults, DeletableStates, FinalStates, Running
  <2>3. task' = [task EXCEPT ![t] = row]
    BY <1>4 DEF KeepResults
  <2> HIDE DEF row
  <2>4. QED
    BY <1>3, <1>4, <2>1, <2>2, <2>3 DEF KeepResults
<1>5. ASSUME NEW t \in Tasks, Delete(t)
      PROVE  LeaseMove
  <2>1. ~Running(t)
    BY <1>5 DEF Delete, DeletableStates, FinalStates, Running
  <2>2. NewRow("absent", "other").status # "running"
    BY DEF NewRow
  <2>3. QED
    BY <1>3, <1>5, <2>1, <2>2 DEF Delete
<1>6. ASSUME NEW gone \in SUBSET MonitorTasks, ClearMonitorData(gone)
      PROVE  LeaseMove
  <2>1. \A u \in Tasks : task'[u] = IF u \in gone THEN NewRow("absent", "other") ELSE task[u]
    BY <1>6 DEF ClearMonitorData
  <2>2. \A u \in Tasks : /\ Running(u)' <=> Running(u) /\ u \notin gone
                         /\ u \notin gone => task'[u] = task[u]
    BY <2>1 DEF Running, NewRow
  <2>3. HeldLease' = IF HeldLease # NoLease /\ HeldLease.task \in gone THEN NoLease ELSE HeldLease
    <3>1. ASSUME NEW u \in Tasks, Running(u), u \in gone
          PROVE  /\ HeldLease # NoLease /\ HeldLease.task \in gone
                 /\ HeldLease' = NoLease
      <4>1. HeldLease = [task |-> u, token |-> task[u].lease_token]
        BY <3>1, HeldByRunning DEF LeaseInv
      <4>2. HeldLease # NoLease /\ HeldLease.task = u
        BY <4>1, HeldIsNotNone
      <4>3. \A v \in Tasks : ~Running(v)'
        BY <2>2, <3>1 DEF LeaseInv, OneRunningTask
      <4>4. QED
        BY <3>1, <4>2, <4>3, HeldByRunningNext DEF LeaseInv
    <3>2. ASSUME NEW u \in Tasks, Running(u), u \notin gone
          PROVE  HeldLease.task \notin gone /\ HeldLease' = HeldLease
      BY <2>2, <3>2, HeldByRunning, HeldByRunningNext DEF LeaseInv
    <3>3. ASSUME \A u \in Tasks : ~Running(u)
          PROVE  HeldLease = NoLease /\ HeldLease' = NoLease
      BY <2>2, <3>3, HeldByRunning, HeldByRunningNext DEF LeaseInv
    <3>4. QED
      BY <3>1, <3>2, <3>3
  <2>4. gone \in SUBSET Tasks
    BY DEF MonitorTasks
  <2>5. Lease!Erase(gone)
    BY <1>6, <2>3 DEF ClearMonitorData, Lease!Erase
  <2>6. QED
    BY <2>4, <2>5 DEF LeaseMove, Lease!LeaseNext
<1>7. QED
  BY <1>0, <1>1, <1>2, <1>4, <1>5, <1>6 DEF Operator, ClearResults, DeleteResult

LEMMA ClaimLeaseMove ==
    ASSUME LeaseInv, LeaseInv', NEW w \in Workers, Claim(w)
    PROVE  LeaseMove
<1>0. TypeOK /\ task \in [Tasks -> Row] /\ ReapedTasks \in [Tasks -> Row]
  BY ReapedTasksType DEF LeaseInv, TypeOK
<1>1. \A t \in Tasks : ReapedTasks[t].lease_token \in {task[t].lease_token, NoToken}
  BY <1>0, ReapingStep, ClaimToken
<1>2. ASSUME NEW rows \in [Tasks -> Row], AnswerNothing(rows),
             \A t \in Tasks : rows[t].lease_token \in {task[t].lease_token, NoToken}
      PROVE  LeaseMove
  BY <1>2, EndsLease DEF AnswerNothing
<1>3. ASSUME NEW t \in Tasks, NEW s \in {"queued", "paused", "cancelled"},
             NEW row \in {Released(task[t], s), WithFlags(Released(task[t], s), FALSE, FALSE, FALSE)},
             AnswerNothing([ReapedTasks EXCEPT ![t] = row])
      PROVE  LeaseMove
  <2>1. s \in Statuses
    BY DEF Statuses, DeletableStates, FinalStates
  <2>2. row \in Row
    BY <1>0, <2>1, ReleasedIsRow, WithFlagsIsRow
  <2>3. row.lease_token = NoToken
    BY <1>0 DEF WithFlags, Released, Row
  <2> DEFINE rows == [ReapedTasks EXCEPT ![t] = row]
  <2>4. rows \in [Tasks -> Row] /\ \A u \in Tasks : rows[u] = IF u = t THEN row ELSE ReapedTasks[u]
    BY <1>0, <2>2
  <2>5. AnswerNothing(rows)
    BY <1>3
  <2> HIDE DEF rows
  <2>6. QED
    BY <1>1, <1>2, <2>3, <2>4, <2>5
<1>4. PICK ready \in SUBSET Models :
        \/ ReclaimUnready(w, ready)
        \/ ReclaimCancelled(w, ready)
        \/ ReclaimPaused(w, ready)
        \/ ClaimNothing(w, ready)
        \/ \E token \in Tokens : ReclaimOwn(w, ready, token) \/ ClaimHead(w, ready, token)
  BY DEF Claim
<1>5. CASE ReclaimUnready(w, ready)
  BY <1>3, <1>5 DEF ReclaimUnready
<1>6. CASE ReclaimCancelled(w, ready)
  BY <1>3, <1>6 DEF ReclaimCancelled
<1>7. CASE ReclaimPaused(w, ready)
  <2>1. PICK t \in Tasks, s \in {"queued", "paused"} :
          AnswerNothing([ReapedTasks EXCEPT ![t] =
                              WithFlags(Released(task[t], s), FALSE, FALSE, FALSE)])
    BY <1>7 DEF ReclaimPaused
  <2>2. QED
    BY <1>3, <2>1
<1>8. CASE ClaimNothing(w, ready)
  BY <1>0, <1>1, <1>2, <1>8 DEF ClaimNothing
<1>9. ASSUME NEW token \in Tokens, ReclaimOwn(w, ready, token)
      PROVE  LeaseMove
  BY <1>0, <1>9, GrantsLease DEF ReclaimOwn
<1>10. ASSUME NEW token \in Tokens, ClaimHead(w, ready, token)
       PROVE  LeaseMove
  <2>1. PICK t \in Tasks : Grant(t, [ReapedTasks EXCEPT ![t] = Started(@, w)], token)
    BY <1>10 DEF ClaimHead
  <2>2. [ReapedTasks EXCEPT ![t] = Started(@, w)] \in [Tasks -> Row]
    BY <1>0, StartedIsRow
  <2>3. QED
    BY <2>1, <2>2, GrantsLease
<1>11. QED
  BY <1>4, <1>5, <1>6, <1>7, <1>8, <1>9, <1>10

LEMMA LeaseCallMove ==
    ASSUME LeaseInv, LeaseInv', NEW t \in Tasks, NEW token \in known
    PROVE  /\ Heartbeat(t, token) => LeaseMove
           /\ \A step \in Steps : AcceptResult(t, token, step) => LeaseMove
           /\ \A requested \in Reports : Finish(t, token, requested) => LeaseMove
<1>0. task \in [Tasks -> Row] /\ results \in [Tasks -> SUBSET Steps]
  BY DEF LeaseInv, TypeOK
<1>1. ASSUME Heartbeat(t, token) PROVE LeaseMove
  <2>1. \A u \in Tasks : task'[u].lease_token = task[u].lease_token
    BY <1>0, <1>1 DEF Heartbeat, Row
  <2>2. QED
    BY <1>1, <2>1, EndsLease DEF Heartbeat
<1>2. ASSUME NEW step \in Steps, AcceptResult(t, token, step) PROVE LeaseMove
  <2>1. \A u \in Tasks : task'[u] = IF u = t THEN Counted(task[t]) ELSE task[u]
    BY <1>0, <1>2 DEF AcceptResult
  <2>2. /\ Counted(task[t]).status = task[t].status
        /\ Counted(task[t]).lease_token = task[t].lease_token
    BY <1>0 DEF Counted, Row
  <2>3. Running(t)
    BY <1>2 DEF AcceptResult, HoldsLease, LeaseInv, TokenFencesTask, RowFenced, Running
  <2>4. Running(t)' /\ task'[t].lease_token = task[t].lease_token
    BY <2>1, <2>2, <2>3 DEF Running
  <2>5. HeldLease = [task |-> t, token |-> task[t].lease_token] /\ HeldLease' = HeldLease
    BY <2>3, <2>4, HeldByRunning, HeldByRunningNext DEF LeaseInv
  <2>6. HeldLease # NoLease /\ HeldLease.task = t
    BY <2>5, HeldIsNotNone
  <2>7. Lease!Store(t, step)
    BY <1>2, <2>5, <2>6 DEF AcceptResult, Lease!Store
  <2>8. QED
    BY <2>7 DEF LeaseMove, Lease!LeaseNext
<1>3. ASSUME NEW requested \in Reports, Finish(t, token, requested) PROVE LeaseMove
  <2> DEFINE row == Finished(task[t], Outcome(task[t], requested))
  <2>1. row.lease_token = NoToken
    BY <1>0 DEF Finished, WithFlags, Released, Row
  <2>2. \A u \in Tasks : task'[u] = IF u = t THEN row ELSE task[u]
    BY <1>0, <1>3 DEF Finish
  <2> HIDE DEF row
  <2>3. QED
    BY <1>3, <2>1, <2>2, EndsLease DEF Finish
<1>4. QED
  BY <1>1, <1>2, <1>3

LEMMA TimeLeaseMove ==
    ASSUME LeaseInv, LeaseInv', Time
    PROVE  LeaseMove
<1>0. task \in [Tasks -> Row] /\ known \in SUBSET Tokens
  BY DEF LeaseInv, TypeOK
<1>1. ASSUME NEW t \in Tasks, LeasePasses(t) \/ BackoffPasses(t)
      PROVE  LeaseMove
  <2>1. \A u \in Tasks : task'[u].lease_token = task[u].lease_token
    BY <1>0, <1>1 DEF LeasePasses, BackoffPasses, SetRow, Row
  <2>2. QED
    BY <1>1, <2>1, EndsLease DEF LeasePasses, BackoffPasses, SetRow
<1>2. ASSUME NEW token \in known, Forget(token)
      PROVE  LeaseMove
  <2>1. HeldLease' = HeldLease
    BY <1>2 DEF Forget, HeldLease, Running
  <2>2. HeldLease = NoLease \/ HeldLease.token # token
    <3>1. ASSUME NEW u \in Tasks, Running(u) PROVE HeldLease.token # token
      BY <1>2, <3>1, HeldByRunning DEF LeaseInv, Forget
    <3>2. QED
      BY <3>1, HeldByRunning DEF LeaseInv
  <2>3. Lease!ForgetToken(token)
    BY <1>2, <2>1, <2>2 DEF Forget, Lease!ForgetToken
  <2>4. QED
    BY <1>0, <2>3 DEF LeaseMove, Lease!LeaseNext
<1>3. QED
  BY <1>1, <1>2 DEF Time

\* The queue, with its flags, workers, priorities and expiries, is one lease and
\* a ledger: results enter only under the lease, once each, and leave only with
\* it ended.
THEOREM QueueIsALease ==
    ASSUME EdgeInstants = FALSE
    PROVE  Spec => ImplementsLease
<1>1. Init => Lease!LeaseInit
  <2> SUFFICES ASSUME Init PROVE Lease!LeaseInit
    OBVIOUS
  <2>1. \A t \in Tasks : ~Running(t)
    BY DEF Init, Running, NewRow
  <2>2. HeldLease = NoLease
    BY <2>1 DEF HeldLease
  <2>3. QED
    BY <2>2 DEF Init, Lease!LeaseInit
<1>2. LeaseInv /\ LeaseInv' /\ StepsInv /\ [Next]_vars => [Lease!LeaseNext]_(Lease!leaseVars)
  <2> SUFFICES ASSUME LeaseInv, LeaseInv', StepsInv, [Next]_vars
               PROVE  LeaseMove
    BY DEF LeaseMove
  <2>1. CASE Operator
    BY <2>1, OperatorLeaseMove
  <2>2. CASE Worker
    BY <2>2, ClaimLeaseMove, LeaseCallMove DEF Worker
  <2>3. CASE Time
    BY <2>3, TimeLeaseMove
  <2>4. CASE UNCHANGED vars
    BY <2>4 DEF vars, LeaseMove, Lease!leaseVars, HeldLease, Running
  <2>5. QED
    BY <2>1, <2>2, <2>3, <2>4 DEF Next
<1>3. QED
  BY <1>1, <1>2, LeaseInvariant, StepsInvariant, PTL DEF Spec, ImplementsLease, Lease!LeaseSpec

-----------------------------------------------------------------------------
(* The life of a task.                                                      *)

LifeStep(old, new) == LifeOf(new) \in {LifeOf(old), "absent"} \cup Life!LifeMoves[LifeOf(old)]

LEMMA RowKeepsLife ==
    ASSUME NEW t \in Tasks, task[t] \in Row, RowStep(t),
           task[t].lease_token # NoToken => Running(t)
    PROVE  LifeStep(task[t], task'[t])
<1> DEFINE old == task[t]
           new == task'[t]
<1> USE DEF LifeStep, LifeOf, Life!LifeMoves, Life!FinalLife
<1>0. old.status \in {"absent", "queued", "running", "paused", "completed", "failed", "cancelled"}
  BY DEF Row, Statuses, DeletableStates, FinalStates
<1>1. CASE new = old
  BY <1>1
<1>2. CASE ByOperator(old, new)
  <2>1. CASE old.status = "absent" /\ \E k \in Kinds : new = NewRow("queued", k)
    BY <2>1 DEF NewRow
  <2>2. CASE new = Preempted(old)
    BY <1>0, <2>2 DEF Preempted, Row
  <2>3. CASE old.status = "running" /\ new = WithFlags(old, TRUE, FALSE, FALSE)
    BY <2>3 DEF WithFlags, Row
  <2>4. CASE old.status = "running" /\ new = WithFlags(old, old.cancel_requested, TRUE, FALSE)
    BY <2>4 DEF WithFlags, Row
  <2>5. CASE old.status \in {"queued", "paused"} /\ new.status = "cancelled"
    BY <2>5
  <2>6. CASE old.status = "queued" /\ new.status = "paused"
    BY <2>6
  <2>7. CASE old.status \in {"paused", "failed"} /\ new.status = "queued"
    BY <2>7
  <2>8. QED
    BY <1>2, <2>1, <2>2, <2>3, <2>4, <2>5, <2>6, <2>7
    DEF ByOperator, Released, WithFlags, Row
<1>3. CASE ByClaim(old, new)
  <2>1. CASE new = Reaped(old)
    BY <1>0, <2>1 DEF Reaped, Released, WithFlags, Row
  <2>2. CASE old.status = "running" /\ new = Released(old, "queued")
    BY <2>2 DEF Released, Row
  <2>3. CASE old.status = "running" /\ old.cancel_requested /\ new = Released(old, "cancelled")
    BY <2>3 DEF Released, Row
  <2>4. ASSUME old.status = "running", old.pause_requested, NEW status \in {"queued", "paused"},
               new = WithFlags(Released(old, status), FALSE, FALSE, FALSE)
        PROVE  LifeStep(old, new)
    BY <2>4 DEF Released, WithFlags, Row
  <2>5. QED
    BY <1>3, <2>1, <2>2, <2>3, <2>4 DEF ByClaim
<1>4. CASE ByGrant(old, new)
  <2>1. ASSUME NEW token \in Tokens, old.status = "running", new = Leased(old, token)
        PROVE  LifeStep(old, new)
    BY <2>1 DEF Leased, Row
  <2>2. ASSUME NEW token \in Tokens, NEW w \in Workers, Reaped(old).status = "queued",
               new = Leased(Started(Reaped(old), w), token)
        PROVE  LifeStep(old, new)
    <3>1. Reaped(old) \in Row
      BY ReapedIsRow
    <3>2. /\ new.status = "running"
          /\ new.cancel_requested = Reaped(old).cancel_requested
          /\ new.pause_requested = Reaped(old).pause_requested
      BY <2>2, <3>1 DEF Leased, Started, Row
    <3>3. CASE old.status = "queued"
      BY <3>2, <3>3
    <3>4. CASE old.status = "running"
      <4>1. ~old.cancel_requested
        BY <2>2, <3>4 DEF Reaped, Row
      <4>2. ~Reaped(old).pause_requested /\ ~Reaped(old).cancel_requested
        BY <2>2, <3>4, <4>1 DEF Reaped, Released, WithFlags, Row
      <4>3. QED
        BY <3>2, <3>4, <4>1, <4>2
    <3>5. old.status \in {"queued", "running"}
      BY <2>2 DEF Reaped
    <3>6. QED
      BY <3>3, <3>4, <3>5
  <2>3. QED
    BY <1>4, <2>1, <2>2 DEF ByGrant
<1>5. CASE ByLease(old, new)
  <2>1. CASE \E l \in Leases \ {"none"} : old.status = "running" /\ new = [old EXCEPT !.lease = l]
    BY <2>1 DEF Row
  <2>2. CASE new = [old EXCEPT !.backoff = FALSE]
    BY <2>2 DEF Row
  <2>3. ASSUME NEW requested \in Reports, old.status = "running",
               new = Finished(old, Outcome(old, requested))
        PROVE  LifeStep(old, new)
    <3>1. Outcome(old, requested) \in Reports
      BY OutcomeIsReport
    <3>2. new.status \in {Outcome(old, requested), "queued"} /\ new.status # "retrying"
      BY <2>3, <3>1 DEF Finished, Released, WithFlags, Row, Reports
    <3>3. /\ old.cancel_requested => Outcome(old, requested) = "cancelled"
          /\ ~old.cancel_requested /\ old.pause_requested => Outcome(old, requested) = "paused"
      BY DEF Outcome
    <3>4. QED
      BY <2>3, <3>1, <3>2, <3>3 DEF Reports
  <2>4. QED
    BY <1>5, <2>1, <2>2, <2>3 DEF ByLease, Running
<1>6. CASE Kept(old, new)
  BY <1>6 DEF Kept, Released, WithFlags, Row, DeletableStates, FinalStates
<1>7. CASE Gone(old, new)
  BY <1>7 DEF Gone, NewRow
<1>8. CASE Stored(old, new)
  BY <1>8 DEF Stored, Counted, Running, Row
<1>9. QED
  BY <1>1, <1>2, <1>3, <1>4, <1>5, <1>6, <1>7, <1>8 DEF RowStep

\* Every task lives as TaskLife says, whatever operators, workers and clocks do:
\* what the daily monitors assume of the tasks they create is what the queue does.
THEOREM QueueLives == Spec => ImplementsLife
<1> DEFINE lives == [t \in Tasks |-> LifeOf(task[t])]
<1>1. Init => Life!LifeInit
  BY DEF Init, Life!LifeInit, LifeOf, NewRow
<1>2. StepsInv /\ FencedInv /\ [Next]_vars => [Life!LifeNext]_lives
  BY EveryRowStep, RowKeepsLife
  DEF StepsInv, TypeOK, FencedInv, RowFenced, Running, LifeStep, Life!LifeNext
<1>3. QED
  BY <1>1, <1>2, StepsInvariant, FencedInvariant, PTL DEF Spec, ImplementsLife, Life!LifeSpec

-----------------------------------------------------------------------------
(* Completed diagnoses.                                                     *)

\* CompletedDiagnosisIsWhole, of one row: what finish() compares is the counter.
WholeRow(row) ==
    row.status = "completed" /\ row.kind = "diagnosis" => row.completed_steps = TotalSteps

WholeInv == \A t \in Tasks : WholeRow(task[t])

LEMMA RowStaysWhole ==
    ASSUME NEW t \in Tasks, task[t] \in Row, RowStep(t), WholeRow(task[t]),
           task[t].completed_steps <= TotalSteps
    PROVE  WholeRow(task'[t])
<1> DEFINE old == task[t]
           new == task'[t]
<1>0. TotalSteps \in Nat
  BY StepsFinite, FS_CardinalityType DEF TotalSteps
<1>1. CASE new = old
  BY <1>1
<1>2. CASE ByOperator(old, new)
  <2>1. CASE new = Preempted(old)
    BY <2>1 DEF Preempted, Row, WholeRow
  <2>2. ASSUME NEW c, NEW p, old.status = "running", new = WithFlags(old, c, p, FALSE)
        PROVE  new.status = "running"
    BY <2>2 DEF WithFlags, Row
  <2>3. CASE new = [WithFlags(old, TRUE, FALSE, FALSE) EXCEPT
                      !.status = "cancelled", !.lease_token = NoToken, !.lease = "none"]
    BY <2>3 DEF WithFlags, Row, WholeRow
  <2>4. CASE new = WithFlags(Released(old, "paused"), old.cancel_requested, FALSE, FALSE)
    BY <2>4 DEF Released, WithFlags, Row, WholeRow
  <2>5. CASE new = [WithFlags(Released(old, "queued"), FALSE, FALSE, FALSE) EXCEPT !.backoff = FALSE]
    BY <2>5 DEF Released, WithFlags, Row, WholeRow
  <2>6. CASE \E k \in Kinds : new = NewRow("queued", k)
    BY <2>6 DEF NewRow, WholeRow
  <2>7. QED
    BY <1>2, <2>1, <2>2, <2>3, <2>4, <2>5, <2>6 DEF ByOperator, WholeRow
<1>3. CASE ByClaim(old, new)
  BY <1>3 DEF ByClaim, Reaped, Released, WithFlags, Row, WholeRow
<1>4. CASE ByGrant(old, new)
  <2>1. Reaped(old) \in Row
    BY ReapedIsRow
  <2>2. \A token \in Tokens : old.status = "running" => Leased(old, token).status = "running"
    BY GrantedFields DEF Leased, Row
  <2>3. \A token \in Tokens, w \in Workers :
           Leased(Started(Reaped(old), w), token).status = "running"
    BY <2>1, GrantedFields, StartedIsRow
  <2>4. QED
    BY <1>4, <2>2, <2>3 DEF ByGrant, WholeRow
<1>5. CASE ByLease(old, new)
  <2>1. ASSUME NEW requested \in Reports, new = Finished(old, Outcome(old, requested))
        PROVE  WholeRow(new)
    <3> DEFINE outcome == Outcome(old, requested)
    <3>1. outcome = "completed" /\ old.kind = "diagnosis" => old.completed_steps = TotalSteps
      BY <1>0 DEF Outcome, Row
    <3> HIDE DEF outcome
    <3>2. /\ new.kind = old.kind /\ new.completed_steps = old.completed_steps
          /\ new.status = "completed" => outcome = "completed"
      BY <2>1 DEF outcome, Finished, Released, WithFlags, Row
    <3>3. QED
      BY <3>1, <3>2 DEF WholeRow
  <2>2. CASE \E l \in Leases \ {"none"} : new = [old EXCEPT !.lease = l]
    BY <2>2 DEF Row, WholeRow
  <2>3. CASE new = [old EXCEPT !.backoff = FALSE]
    BY <2>3 DEF Row, WholeRow
  <2>4. QED
    BY <1>5, <2>1, <2>2, <2>3 DEF ByLease
<1>6. CASE Kept(old, new)
  BY <1>6 DEF Kept, Released, WithFlags, Row, WholeRow
<1>7. CASE Gone(old, new)
  BY <1>7 DEF Gone, NewRow, WholeRow
<1>8. CASE Stored(old, new)
  BY <1>0, <1>8 DEF Stored, Counted, Row, WholeRow
<1>9. QED
  BY <1>1, <1>2, <1>3, <1>4, <1>5, <1>6, <1>7, <1>8 DEF RowStep

\* The counter never passes the number of rounds, and reaches it only with all
\* of them stored.
LEMMA CountWithinTotal ==
    ASSUME StepsInv, NEW t \in Tasks
    PROVE  /\ task[t].completed_steps <= TotalSteps
           /\ task[t].completed_steps = TotalSteps => results[t] = Steps
<1>1. results[t] \in SUBSET Steps /\ task[t].completed_steps = Cardinality(results[t])
  BY DEF StepsInv, TypeOK, StepsCounted
<1>2. QED
  BY <1>1, StepsFinite, FS_Subset DEF TotalSteps

\* A diagnosis reported complete has every round of every model stored, however
\* results were removed, repeated or late before.
THEOREM CompletedIsWhole == Spec => []CompletedDiagnosisIsWhole
<1>1. Init => WholeInv
  BY DEF Init, NewRow, WholeInv, WholeRow
<1>2. StepsInv /\ WholeInv /\ [Next]_vars => WholeInv'
  BY EveryRowStep, RowStaysWhole, CountWithinTotal DEF StepsInv, TypeOK, WholeInv, WholeRow
<1>3. StepsInv /\ WholeInv => CompletedDiagnosisIsWhole
  BY CountWithinTotal DEF WholeInv, WholeRow, CompletedDiagnosisIsWhole
<1>4. QED
  BY <1>1, <1>2, <1>3, StepsInvariant, PTL DEF Spec

-----------------------------------------------------------------------------
(* Priorities.                                                              *)

\* Whatever is not a poll grants no token.
OtherCall ==
    \/ Operator \/ Time \/ UNCHANGED vars
    \/ \E t \in Tasks, token \in known :
          \/ Heartbeat(t, token)
          \/ \E step \in Steps : AcceptResult(t, token, step)
          \/ \E requested \in Reports : Finish(t, token, requested)

LEMMA OtherCallsGrantNothing ==
    ASSUME StepsInv, OtherCall, NEW u \in Tasks
    PROVE  task'[u].lease_token \in {task[u].lease_token, NoToken}
<1>0. task \in [Tasks -> Row]
  BY DEF StepsInv, TypeOK
<1>1. ASSUME NEW k \in Kinds, Create(k)
      PROVE  task'[u].lease_token \in {task[u].lease_token, NoToken}
  <2>1. Preempted(task[u]).lease_token = task[u].lease_token
    BY <1>0 DEF Preempted, Row
  <2>2. QED
    BY <1>1, <2>1 DEF Create, NewRow
<1>2. ASSUME NEW t \in Tasks, NEW row, task' = [task EXCEPT ![t] = row],
             row.lease_token \in {task[t].lease_token, NoToken}
      PROVE  task'[u].lease_token \in {task[u].lease_token, NoToken}
  BY <1>0, <1>2
<1>3. ASSUME NEW t \in Tasks,
             CancelRunning(t) \/ CancelIdle(t) \/ PauseRunning(t) \/ PauseQueued(t) \/ Resume(t)
      PROVE  task'[u].lease_token \in {task[u].lease_token, NoToken}
  <2>1. PICK row : SetRow(t, row) /\ ByOperator(task[t], row)
    BY <1>3 DEF CancelRunning, CancelIdle, PauseRunning, PauseQueued, Resume, ByOperator, Running
  <2>2. QED
    BY <1>0, <1>2, <2>1, OperatorToken DEF SetRow
<1>4. ASSUME NEW t \in Tasks, NEW kept \in SUBSET results[t], KeepResults(t, kept)
      PROVE  task'[u].lease_token \in {task[u].lease_token, NoToken}
  BY <1>0, <1>4 DEF KeepResults, Released, WithFlags, Row
<1>5. ASSUME NEW t \in Tasks, Delete(t)
      PROVE  task'[u].lease_token \in {task[u].lease_token, NoToken}
  BY <1>0, <1>5 DEF Delete, NewRow
<1>6. ASSUME NEW gone \in SUBSET MonitorTasks, ClearMonitorData(gone)
      PROVE  task'[u].lease_token \in {task[u].lease_token, NoToken}
  BY <1>6 DEF ClearMonitorData, NewRow
<1>7. ASSUME Operator
      PROVE  task'[u].lease_token \in {task[u].lease_token, NoToken}
  <2>1. \A t \in Tasks : {} \in SUBSET results[t] /\ \A step : results[t] \ {step} \in SUBSET results[t]
    OBVIOUS
  <2>2. QED
    BY <1>1, <1>3, <1>4, <1>5, <1>6, <1>7, <2>1 DEF Operator, ClearResults, DeleteResult
<1>8. ASSUME NEW t \in Tasks, NEW token \in known,
             \/ Heartbeat(t, token)
             \/ \E step \in Steps : AcceptResult(t, token, step)
             \/ \E requested \in Reports : Finish(t, token, requested)
      PROVE  task'[u].lease_token \in {task[u].lease_token, NoToken}
  <2>1. /\ Counted(task[t]).lease_token = task[t].lease_token
        /\ \A requested : Finished(task[t], Outcome(task[t], requested)).lease_token = NoToken
    BY <1>0 DEF Counted, Finished, Released, WithFlags, Row
  <2>2. QED
    BY <1>0, <1>8, <2>1 DEF Heartbeat, AcceptResult, Finish, Row
<1>9. ASSUME Time
      PROVE  task'[u].lease_token \in {task[u].lease_token, NoToken}
  BY <1>0, <1>9 DEF Time, LeasePasses, BackoffPasses, Forget, SetRow, Row
<1>10. QED
  BY <1>7, <1>8, <1>9 DEF OtherCall, vars

\* ServesByPriority, of one step.
StartsInOrder ==
    \A t, u \in Tasks :
        /\ Running(t)' /\ task'[t].lease_token # task[t].lease_token
        /\ ~(Running(t) /\ task[t].lease = "live")
        /\ u \in Eligible(task')
        => LET urgent(x) == task'[x].kind = "diagnosis" IN
           /\ urgent(u) => urgent(t)
           /\ (urgent(u) <=> urgent(t)) => t <= u

\* A poll that hands out task t in place of a queued row: t is the head.
LEMMA HeadStartsInOrder ==
    ASSUME TypeOK, FencedInv', NEW w \in Workers, NEW token \in Tokens,
           NEW ready \in SUBSET Models, ClaimHead(w, ready, token)
    PROVE  StartsInOrder
<1>1. ReapedTasks \in [Tasks -> Row]
  BY ReapedTasksType
<1>2. PICK h \in Tasks :
        /\ IsHead(ReapedTasks, h)
        /\ Grant(h, [ReapedTasks EXCEPT ![h] = Started(@, w)], token)
  BY DEF ClaimHead
<1>3. \A u \in Tasks : task'[u] = IF u = h THEN Leased(Started(ReapedTasks[h], w), token)
                                  ELSE ReapedTasks[u]
  BY <1>1, <1>2 DEF Grant
<1>4. /\ Started(ReapedTasks[h], w) \in Row
      /\ ReapedTasks[h] \in Row
  BY <1>1, StartedIsRow
<1>5. task'[h].status = "running" /\ task'[h].kind = ReapedTasks[h].kind
  BY <1>3, <1>4, GrantedFields
<1>6. ASSUME NEW t \in Tasks, Running(t)', task'[t].lease_token # task[t].lease_token
      PROVE  t = h
  <2>1. task'[t].lease_token # NoToken
    BY <1>6 DEF FencedInv, RowFenced, Running
  <2>2. t # h => task'[t].lease_token \in {task[t].lease_token, NoToken}
    BY <1>1, <1>3, ReapingStep, ClaimToken DEF TypeOK
  <2>3. QED
    BY <1>6, <2>1, <2>2
<1>7. ASSUME NEW u \in Tasks, u \in Eligible(task')
      PROVE  u # h /\ u \in Eligible(ReapedTasks) /\ task'[u] = ReapedTasks[u]
  BY <1>3, <1>5, <1>7 DEF Eligible
<1>8. ASSUME NEW u \in Tasks, u \in Eligible(task')
      PROVE  LET urgent(x) == task'[x].kind = "diagnosis" IN
             /\ urgent(u) => urgent(h)
             /\ (urgent(u) <=> urgent(h)) => h <= u
  <2>1. Before(ReapedTasks, h, u)
    BY <1>2, <1>7, <1>8 DEF IsHead
  <2>2. QED
    BY <1>5, <1>7, <1>8, <2>1 DEF Before, Priority
<1>9. QED
  BY <1>6, <1>8 DEF StartsInOrder

LEMMA ClaimStartsInOrder ==
    ASSUME TypeOK, FencedInv', NEW w \in Workers, Claim(w)
    PROVE  StartsInOrder
<1>0. task \in [Tasks -> Row] /\ ReapedTasks \in [Tasks -> Row]
  BY ReapedTasksType DEF TypeOK
<1>1. \A t \in Tasks : ReapedTasks[t].lease_token \in {task[t].lease_token, NoToken}
  BY <1>0, ReapingStep, ClaimToken
<1>2. ASSUME \A t \in Tasks : \/ task'[t].lease_token \in {task[t].lease_token, NoToken}
                              \/ Running(t) /\ task[t].lease = "live"
      PROVE  StartsInOrder
  BY <1>2 DEF StartsInOrder, FencedInv, RowFenced, Running
<1>3. PICK ready \in SUBSET Models :
        \/ ReclaimUnready(w, ready)
        \/ ReclaimCancelled(w, ready)
        \/ ReclaimPaused(w, ready)
        \/ ClaimNothing(w, ready)
        \/ \E token \in Tokens : ReclaimOwn(w, ready, token) \/ ClaimHead(w, ready, token)
  BY DEF Claim
<1>4. ASSUME NEW t \in Tasks, IsActive(ReapedTasks, t)
      PROVE  Running(t) /\ task[t].lease = "live"
  BY <1>4, ReapingStep DEF IsActive, Active
<1>5. ASSUME NEW t \in Tasks, IsActive(ReapedTasks, t), NEW row,
             task' = [ReapedTasks EXCEPT ![t] = row]
      PROVE  StartsInOrder
  <2>1. \A u \in Tasks : u # t => task'[u] = ReapedTasks[u]
    BY <1>0, <1>5
  <2>2. QED
    BY <1>1, <1>2, <1>4, <1>5, <2>1
<1>6. CASE \/ ReclaimUnready(w, ready)
           \/ ReclaimCancelled(w, ready)
           \/ ReclaimPaused(w, ready)
           \/ \E token \in Tokens : ReclaimOwn(w, ready, token)
  <2>1. PICK t \in Tasks : /\ IsActive(ReapedTasks, t)
                           /\ \E row : task' = [ReapedTasks EXCEPT ![t] = row]
    BY <1>6 DEF ReclaimUnready, ReclaimCancelled, ReclaimPaused, ReclaimOwn, AnswerNothing, Grant
  <2>2. QED
    BY <1>5, <2>1
<1>7. CASE ClaimNothing(w, ready)
  BY <1>1, <1>2, <1>7 DEF ClaimNothing, AnswerNothing
<1>8. QED
  BY <1>3, <1>6, <1>7, HeadStartsInOrder

\* A task is only started ahead of the due tasks behind it in the queue order,
\* at every instant and for any number of workers and tasks.
THEOREM StartsByPriority == Spec => ServesByPriority
<1>1. StepsInv /\ FencedInv' /\ [Next]_vars => StartsInOrder
  <2> SUFFICES ASSUME StepsInv, FencedInv', [Next]_vars PROVE StartsInOrder
    OBVIOUS
  <2>1. ASSUME NEW w \in Workers, Claim(w) PROVE StartsInOrder
    BY <2>1, ClaimStartsInOrder DEF StepsInv
  <2>2. CASE \A u \in Tasks : task'[u].lease_token \in {task[u].lease_token, NoToken}
    BY <2>2 DEF StartsInOrder, FencedInv, RowFenced, Running
  <2>3. CASE \A w \in Workers : ~Claim(w)
    <3>1. OtherCall
      BY <2>3 DEF Next, Worker, OtherCall
    <3>2. QED
      BY <2>2, <3>1, OtherCallsGrantNothing
  <2>4. QED
    BY <2>1, <2>3
<1>2. StepsInv /\ FencedInv' /\ [Next]_vars => [StartsInOrder]_vars
  BY <1>1
<1>3. QED
  BY <1>2, StepsInvariant, FencedInvariant, PTL DEF Spec, ServesByPriority, StartsInOrder

=============================================================================
