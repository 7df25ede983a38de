----------------------------- MODULE TaskQueue -----------------------------
(***************************************************************************)
(* The server side of the collection queue: RemoteTaskQueue of             *)
(* monitor_core/remote_tasks.py, restricted to the tables remote_tasks and *)
(* remote_task_results.  The table remote_workers is left out: the methods *)
(* below write it for the dashboard (last_seen, status, readiness) and     *)
(* none of them reads it back.                                             *)
(*                                                                         *)
(* Every write method of the class is one BEGIN IMMEDIATE transaction of   *)
(* SQLite, so each is one action here.  The callers are not modelled: any  *)
(* operator may call any method at any time, and a worker call may present *)
(* any lease token a client may still hold (a delayed or repeated request). *)
(* Calls the code rejects change nothing and are left to stuttering.       *)
(*                                                                         *)
(* Wall-clock time only reaches this code through two comparisons with     *)
(* time.time(): lease_expires and next_attempt_epoch.  A row therefore     *)
(* keeps the outcome of the comparison, and the actions LeasePasses and    *)
(* BackoffPasses change it.                                                *)
(***************************************************************************)
EXTENDS Integers, FiniteSets

CONSTANTS
    Models,         \* collection models of a task
    Rounds,         \* rounds per model (configured_model_rounds)
    Workers,        \* worker ids
    Tokens,         \* lease tokens; a token is reused once nobody holds it
    MaxTasks,       \* bound on the tasks ever created
    NoWorker,       \* worker_id = ''
    NoToken,        \* lease_token = ''
    EdgeInstants    \* are instants considered where lease_expires = now exactly?

ASSUME BoundsAssumption == MaxTasks \in Nat /\ Rounds \in Nat \ {0}
ASSUME ModelsAssumption == IsFiniteSet(Models)
ASSUME NullAssumption == NoWorker \notin Workers /\ NoToken \notin Tokens
ASSUME EdgeAssumption == EdgeInstants \in BOOLEAN

VARIABLES
    created,        \* number of tasks created so far
    task,           \* task[t]: the row of the t-th created task
    results,        \* results[t]: its rows of remote_task_results
    known           \* the lease tokens some client may still present

vars == <<created, task, results, known>>

-----------------------------------------------------------------------------
(* Rows.                                                                   *)

Tasks == 1..MaxTasks            \* in the order of (created_at, rowid)
NoTask == 0
Steps == Models \X (1..Rounds)  \* the request ids a task can store
TotalSteps == Cardinality(Steps)

Kinds == {"diagnosis", "paid_monitor", "other"}
FinalStates == {"completed", "failed", "cancelled"}
DeletableStates == FinalStates \cup {"paused"}
Statuses == DeletableStates \cup {"absent", "queued", "running"}

\* lease_expires compared with now: no lease, later, equal, earlier.
Leases == {"none", "live", "edge", "expired"}

Row == [status : Statuses,
        kind : Kinds,
        cancel_requested : BOOLEAN,
        pause_requested : BOOLEAN,
        preempt_requested : BOOLEAN,
        worker_id : Workers \cup {NoWorker},
        lease_token : Tokens \cup {NoToken},
        lease : Leases,
        backoff : BOOLEAN,              \* next_attempt_epoch > now
        completed_steps : Nat]

NewRow(status, kind) ==
    [status |-> status, kind |-> kind,
     cancel_requested |-> FALSE, pause_requested |-> FALSE,
     preempt_requested |-> FALSE,
     worker_id |-> NoWorker, lease_token |-> NoToken, lease |-> "none",
     backoff |-> FALSE, completed_steps |-> 0]

\* Mutant: the token survives the release.
ReleasedKeepsToken(row, status) ==
    [row EXCEPT !.status = status, !.worker_id = NoWorker, !.lease = "none"]

\* The SET clause every release of a lease shares.
Released(row, status) ==
    [row EXCEPT !.status = status, !.worker_id = NoWorker,
                !.lease_token = NoToken, !.lease = "none"]

Leased(row, token) == [row EXCEPT !.lease_token = token, !.lease = "live"]

Started(row, w) ==
    [row EXCEPT !.status = "running", !.worker_id = w, !.backoff = FALSE]

\* A stored result counts one step, never beyond the total, and renews the lease.
Counted(row) ==
    [row EXCEPT !.completed_steps = IF @ < TotalSteps THEN @ + 1 ELSE TotalSteps,
                !.lease = "live"]

WithFlags(row, cancel, pause, preempt) ==
    [row EXCEPT !.cancel_requested = cancel, !.pause_requested = pause,
                !.preempt_requested = preempt]

Running(t) == task[t].status = "running"

Init ==
    /\ created = 0
    /\ task = [t \in Tasks |-> NewRow("absent", "other")]
    /\ results = [t \in Tasks |-> {}]
    /\ known = {}

-----------------------------------------------------------------------------
(* Operator calls.                                                         *)

\* A running daily monitor gives way when a diagnosis is created.
Preempted(row) ==
    IF row.status = "running" /\ row.kind = "paid_monitor" /\ ~row.cancel_requested
    THEN [row EXCEPT !.pause_requested = TRUE, !.preempt_requested = TRUE]
    ELSE row

Create(kind) ==
    /\ created < MaxTasks
    /\ created' = created + 1
    /\ task' = [t \in Tasks |->
                  IF t = created + 1 THEN NewRow("queued", kind)
                  ELSE IF kind = "diagnosis" THEN Preempted(task[t])
                  ELSE task[t]]
    /\ UNCHANGED <<results, known>>

\* cancel, pause and resume touch only the row of the task.
SetRow(t, row) ==
    /\ task' = [task EXCEPT ![t] = row]
    /\ UNCHANGED <<created, results, known>>

\* Mutant: the yield asked for earlier is not withdrawn.
CancelRunningKeepsYield(t) ==
    /\ Running(t)
    /\ SetRow(t, [task[t] EXCEPT !.cancel_requested = TRUE])

CancelRunning(t) ==
    /\ Running(t)
    /\ SetRow(t, WithFlags(task[t], TRUE, FALSE, FALSE))

\* worker_id is the one lease column this UPDATE leaves alone.
CancelIdle(t) ==
    /\ task[t].status \in {"queued", "paused"}
    /\ SetRow(t, [WithFlags(task[t], TRUE, FALSE, FALSE) EXCEPT
                    !.status = "cancelled", !.lease_token = NoToken, !.lease = "none"])

PauseRunning(t) ==
    /\ Running(t)
    /\ SetRow(t, WithFlags(task[t], task[t].cancel_requested, TRUE, FALSE))

PauseQueued(t) ==
    /\ task[t].status = "queued"
    /\ SetRow(t, WithFlags(Released(task[t], "paused"),
                           task[t].cancel_requested, FALSE, FALSE))

Resume(t) ==
    /\ task[t].status \in {"paused", "failed"}
    /\ SetRow(t, [WithFlags(Released(task[t], "queued"), FALSE, FALSE, FALSE)
                    EXCEPT !.backoff = FALSE])

\* Mutant: the counter is not recomputed.
KeepResultsKeepsCount(t, kept) ==
    /\ task[t].status \in DeletableStates
    /\ results' = [results EXCEPT ![t] = kept]
    /\ task' = [task EXCEPT ![t] =
                  WithFlags(Released(task[t], "paused"), FALSE, FALSE, FALSE)]
    /\ UNCHANGED <<created, known>>

\* Mutant: results of a running task can be cleared.
KeepResultsAnyState(t, kept) ==
    /\ task[t].status # "absent"
    /\ results' = [results EXCEPT ![t] = kept]
    /\ task' = [task EXCEPT ![t].completed_steps = Cardinality(kept)]
    /\ UNCHANGED <<created, known>>

\* clear_results and delete_result leave the task paused with what is kept.
KeepResults(t, kept) ==
    /\ task[t].status \in DeletableStates
    /\ results' = [results EXCEPT ![t] = kept]
    /\ task' = [task EXCEPT ![t] =
                  [WithFlags(Released(task[t], "paused"), FALSE, FALSE, FALSE)
                     EXCEPT !.completed_steps = Cardinality(kept)]]
    /\ UNCHANGED <<created, known>>

ClearResults(t) == KeepResults(t, {})

DeleteResult(t, step) ==
    /\ step \in results[t]
    /\ KeepResults(t, results[t] \ {step})

Delete(t) ==
    /\ task[t].status \in DeletableStates
    /\ task' = [task EXCEPT ![t] = NewRow("absent", "other")]
    /\ results' = [results EXCEPT ![t] = {}]
    /\ UNCHANGED <<created, known>>

MonitorTasks == {t \in Tasks : task[t].kind = "paid_monitor"}

\* clear_paid_monitor_data erases the tasks of one monitor in whatever state
\* they are.  Which monitor owns which task is not kept here: any set of
\* monitoring tasks may be those of one.
ClearMonitorData(gone) ==
    /\ task' = [t \in Tasks |-> IF t \in gone THEN NewRow("absent", "other") ELSE task[t]]
    /\ results' = [t \in Tasks |-> IF t \in gone THEN {} ELSE results[t]]
    /\ UNCHANGED <<created, known>>

-----------------------------------------------------------------------------
(* claim: what a polling worker asks for.                                  *)

\* Mutant: expired leases are left alone.
NotReaped(row) == row

\* The four UPDATEs that end expired leases, in their order.
Reaped(row) ==
    IF row.status # "running" \/ row.lease # "expired" THEN row
    ELSE IF row.cancel_requested
         THEN [row EXCEPT !.status = "cancelled", !.lease_token = NoToken, !.lease = "none"]
    ELSE IF row.pause_requested /\ row.preempt_requested
         THEN WithFlags(Released(row, "queued"), FALSE, FALSE, FALSE)
    ELSE IF row.pause_requested
         THEN [Released(row, "paused") EXCEPT !.pause_requested = FALSE]
    ELSE Released(row, "queued")

ReapedTasks == [t \in Tasks |-> Reaped(task[t])]

Pending(t) == {m \in Models : \E r \in 1..Rounds : <<m, r>> \notin results[t]}

\* readiness reported with the poll covers the models still to be collected.
ModelsReady(t, ready) == Pending(t) \subseteq ready

Active(rows) == {t \in Tasks : rows[t].status = "running" /\ rows[t].lease = "live"}

\* Mutant: failed tasks are picked up again.
EligibleWithFailed(rows) == {t \in Tasks : /\ rows[t].status \in {"queued", "failed"}
                                           /\ ~rows[t].cancel_requested
                                           /\ ~rows[t].backoff}

Eligible(rows) == {t \in Tasks : /\ rows[t].status = "queued"
                                 /\ ~rows[t].cancel_requested
                                 /\ ~rows[t].backoff}

Priority(row) == IF row.kind = "diagnosis" THEN 100 ELSE 0

\* Mutant: creation order only.
BeforeByAge(rows, t, u) == t <= u

\* ORDER BY queue_priority DESC, created_at, rowid
Before(rows, t, u) ==
    \/ Priority(rows[t]) > Priority(rows[u])
    \/ Priority(rows[t]) = Priority(rows[u]) /\ t <= u

IsHead(rows, t) == t \in Eligible(rows) /\ \A u \in Eligible(rows) : Before(rows, t, u)

IsActive(rows, t) == t \in Active(rows) /\ \A u \in Active(rows) : t <= u

\* The caller gets nothing; the reaping stays.
AnswerNothing(rows) ==
    /\ task' = rows
    /\ UNCHANGED <<created, results, known>>

\* The caller gets task t under a fresh token.
Grant(t, rows, token) ==
    /\ token \notin known
    /\ known' = known \cup {token}
    /\ task' = [rows EXCEPT ![t] = Leased(@, token)]
    /\ UNCHANGED <<created, results>>

\* The worker already owns the active task (it restarted, or asked twice).
ReclaimUnready(w, ready) ==
    \E t \in Tasks :
        /\ IsActive(ReapedTasks, t)
        /\ task[t].worker_id = w
        /\ ~ModelsReady(t, ready)
        /\ AnswerNothing([ReapedTasks EXCEPT ![t] = Released(task[t], "queued")])

ReclaimCancelled(w, ready) ==
    \E t \in Tasks :
        /\ IsActive(ReapedTasks, t)
        /\ task[t].worker_id = w
        /\ ModelsReady(t, ready)
        /\ task[t].cancel_requested
        /\ AnswerNothing([ReapedTasks EXCEPT ![t] = Released(task[t], "cancelled")])

ReclaimPaused(w, ready) ==
    \E t \in Tasks :
        /\ IsActive(ReapedTasks, t)
        /\ task[t].worker_id = w
        /\ ModelsReady(t, ready)
        /\ ~task[t].cancel_requested
        /\ task[t].pause_requested
        /\ LET status == IF task[t].preempt_requested THEN "queued" ELSE "paused" IN
           AnswerNothing([ReapedTasks EXCEPT ![t] =
                               WithFlags(Released(task[t], status), FALSE, FALSE, FALSE)])

ReclaimOwn(w, ready, token) ==
    \E t \in Tasks :
        /\ IsActive(ReapedTasks, t)
        /\ task[t].worker_id = w
        /\ ModelsReady(t, ready)
        /\ ~task[t].cancel_requested
        /\ ~task[t].pause_requested
        /\ Grant(t, ReapedTasks, token)

\* Another worker runs the active task, nothing is due, or the head of the
\* queue waits for a model of this worker.
ClaimNothing(w, ready) ==
    /\ \/ \E t \in Tasks : IsActive(ReapedTasks, t) /\ task[t].worker_id # w
       \/ /\ Active(ReapedTasks) = {}
          /\ \A t \in Tasks : IsHead(ReapedTasks, t) => ~ModelsReady(t, ready)
    /\ AnswerNothing(ReapedTasks)

ClaimHead(w, ready, token) ==
    /\ Active(ReapedTasks) = {}
    /\ \E t \in Tasks :
        /\ IsHead(ReapedTasks, t)
        /\ ModelsReady(t, ready)
        /\ Grant(t, [ReapedTasks EXCEPT ![t] = Started(@, w)], token)

Claim(w) ==
    \E ready \in SUBSET Models :
        \/ ReclaimUnready(w, ready)
        \/ ReclaimCancelled(w, ready)
        \/ ReclaimPaused(w, ready)
        \/ ClaimNothing(w, ready)
        \/ \E token \in Tokens : ReclaimOwn(w, ready, token) \/ ClaimHead(w, ready, token)

-----------------------------------------------------------------------------
(* Worker calls that carry a lease token.                                  *)

\* _leased_row: an empty configured token never matches.
HoldsLease(t, token) ==
    /\ task[t].status # "absent"
    /\ task[t].lease_token # NoToken
    /\ task[t].lease_token = token

Heartbeat(t, token) ==
    /\ HoldsLease(t, token)
    /\ Running(t)
    /\ task' = [task EXCEPT ![t].lease = "live"]
    /\ UNCHANGED <<created, results, known>>

\* Mutant: results are stored although the task is being cancelled.
AcceptResultWhileCancelling(t, token, step) ==
    /\ HoldsLease(t, token)
    /\ step \notin results[t]
    /\ results' = [results EXCEPT ![t] = @ \cup {step}]
    /\ task' = [task EXCEPT ![t] = Counted(@)]
    /\ UNCHANGED <<created, known>>

\* A known request id is answered as a duplicate and changes nothing.
AcceptResult(t, token, step) ==
    /\ HoldsLease(t, token)
    /\ ~task[t].cancel_requested
    /\ step \notin results[t]
    /\ results' = [results EXCEPT ![t] = @ \cup {step}]
    /\ task' = [task EXCEPT ![t] = Counted(@)]
    /\ UNCHANGED <<created, known>>

\* The outcome the server settles on: its own requests override the worker's
\* report, and an incomplete diagnosis is never "completed".
Reports == {"completed", "failed", "cancelled", "paused", "retrying"}

\* Mutant: the worker's "completed" is taken at its word.
OutcomeTrusting(row, requested) ==
    IF row.cancel_requested THEN "cancelled"
    ELSE IF row.pause_requested THEN "paused"
    ELSE requested

Outcome(row, requested) ==
    IF row.cancel_requested THEN "cancelled"
    ELSE IF row.pause_requested THEN "paused"
    ELSE IF requested = "completed" /\ row.kind = "diagnosis"
            /\ row.completed_steps < TotalSteps THEN "retrying"
    ELSE requested

\* Mutant: a yield ends like an operator's pause.
FinishedWithoutYield(row, outcome) ==
    [WithFlags(Released(row, IF outcome = "retrying" THEN "queued" ELSE outcome),
               FALSE, FALSE, FALSE)
       EXCEPT !.backoff = (outcome = "retrying")]

\* Mutant: the report "retrying" is written as the status.
FinishedAsReported(row, outcome) ==
    [WithFlags(Released(row, outcome), FALSE, FALSE, FALSE)
       EXCEPT !.backoff = (outcome = "retrying")]

Finished(row, outcome) ==
    LET yields == /\ outcome = "paused"
                  /\ row.preempt_requested
                  /\ row.kind = "paid_monitor"
        status == IF yields \/ outcome = "retrying" THEN "queued" ELSE outcome
    IN  [WithFlags(Released(row, status), FALSE, FALSE, FALSE)
           EXCEPT !.backoff = (outcome = "retrying")]

Finish(t, token, requested) ==
    /\ HoldsLease(t, token)
    /\ task' = [task EXCEPT ![t] = Finished(task[t], Outcome(task[t], requested))]
    /\ UNCHANGED <<created, results, known>>

-----------------------------------------------------------------------------
(* Time.                                                                   *)

\* A lease reaches its end.  The exact instant lease_expires = now is
\* considered only when EdgeInstants is set.
LeasePasses(t) ==
    /\ Running(t)
    /\ \/ task[t].lease = "live" /\ EdgeInstants /\ SetRow(t, [task[t] EXCEPT !.lease = "edge"])
       \/ task[t].lease \in {"live", "edge"} /\ SetRow(t, [task[t] EXCEPT !.lease = "expired"])

BackoffPasses(t) ==
    /\ task[t].backoff
    /\ SetRow(t, [task[t] EXCEPT !.backoff = FALSE])

-----------------------------------------------------------------------------
Operator ==
    \/ \E kind \in Kinds : Create(kind)
    \/ \E t \in Tasks :
          \/ CancelRunning(t)
          \/ CancelIdle(t)
          \/ PauseRunning(t)
          \/ PauseQueued(t)
          \/ Resume(t)
          \/ ClearResults(t)
          \/ \E step \in Steps : DeleteResult(t, step)
          \/ Delete(t)
    \/ \E gone \in SUBSET MonitorTasks : ClearMonitorData(gone)

Worker ==
    \/ \E w \in Workers : Claim(w)
    \/ \E t \in Tasks, token \in known :
          \/ Heartbeat(t, token)
          \/ \E step \in Steps : AcceptResult(t, token, step)
          \/ \E requested \in Reports : Finish(t, token, requested)

\* The last request carrying a superseded token has been made.  Tokens of the
\* code are 256 random bits and never repeat; here one returns to the pool.
Forget(token) ==
    /\ token \in known
    /\ \A t \in Tasks : task[t].lease_token # token
    /\ known' = known \ {token}
    /\ UNCHANGED <<created, task, results>>

Time ==
    \/ \E t \in Tasks : LeasePasses(t) \/ BackoffPasses(t)
    \/ \E token \in known : Forget(token)

Next == Operator \/ Worker \/ Time

Spec == Init /\ [][Next]_vars

\* Workers poll for ever, a worker that holds a task reports its end at last,
\* and time passes.  Operators owe nothing.
Fairness ==
    /\ \A w \in Workers : WF_vars(Claim(w))
    /\ \A t \in Tasks :
          /\ WF_vars(\E token \in known, requested \in Reports : Finish(t, token, requested))
          /\ WF_vars(BackoffPasses(t))
    /\ \A token \in Tokens : WF_vars(Forget(token))

FairSpec == Spec /\ Fairness

-----------------------------------------------------------------------------
(* Properties.                                                             *)

\* Every variable has its type, and ids are handed out in order.
TypeOK ==
    /\ created \in 0..MaxTasks
    /\ task \in [Tasks -> Row]
    /\ results \in [Tasks -> SUBSET Steps]
    /\ known \in SUBSET Tokens

\* The queue keeps one active task at a time, whatever the workers present
\* and however leases expire: claim() reaps and looks for an active task in
\* the same transaction that starts the next one.
OneRunningTask ==
    \A t, u \in Tasks : Running(t) /\ Running(u) => t = u

\* A running row carries a worker, a token and a lease, any other row neither
\* token nor lease.
RowFenced(row) ==
    /\ row.status = "running" <=> row.lease_token # NoToken
    /\ row.status = "running" <=> row.lease # "none"
    /\ row.status = "running" => row.worker_id # NoWorker

\* A lease token exists exactly while its task runs, so every call of a worker
\* that lost its task (reaped, cancelled, reclaimed, finished) is refused by
\* _leased_row, and no two tasks ever share a token.
TokenFencesTask ==
    /\ \A t \in Tasks : RowFenced(task[t]) /\ (Running(t) => task[t].lease_token \in known)
    /\ \A t, u \in Tasks :
          Running(t) /\ t # u => task[u].lease_token # task[t].lease_token

\* completed_steps is maintained by +1, COUNT(*) and 0 in three methods and is
\* what finish() trusts: it always equals the number of stored results.
StepsCounted ==
    \A t \in Tasks : task[t].completed_steps = Cardinality(results[t])

\* A diagnosis is only closed as completed with every round stored, and stays
\* so until an operator clears some of it.
CompletedDiagnosisIsWhole ==
    \A t \in Tasks :
        task[t].status = "completed" /\ task[t].kind = "diagnosis" => results[t] = Steps

\* A yield to a diagnosis is only ever asked of a daily monitor, together with
\* a pause, and never of a task being cancelled.
YieldIsAPause ==
    \A t \in Tasks :
        task[t].preempt_requested =>
            /\ task[t].kind = "paid_monitor"
            /\ task[t].pause_requested
            /\ ~task[t].cancel_requested
            /\ task[t].status \in {"running", "queued"}

\* Once a running task is asked to stop, nothing more is stored for it and it
\* never becomes paused, completed or failed: accept_result, finish, the
\* reaping in claim and the reclaim branches all put the cancel first.
CancelWins ==
    [][\A t \in Tasks :
          Running(t) /\ task[t].cancel_requested =>
             /\ results'[t] \subseteq results[t]
             /\ \/ task'[t].status \in {"running", "cancelled", "absent"}
                \/ task'[t].status = "queued" /\ task'[t].cancel_requested]_vars

\* A task is only started when no due task ranks before it: the tasks reaped in
\* the same claim compete, and an older or more urgent task is not overtaken.
ServesByPriority ==
    [][\A t, u \in Tasks :
          /\ Running(t)' /\ task'[t].lease_token # task[t].lease_token
          /\ ~(Running(t) /\ task[t].lease = "live")
          /\ u \in Eligible(task')
          => LET urgent(x) == task'[x].kind = "diagnosis" IN
             /\ urgent(u) => urgent(t)
             /\ (urgent(u) <=> urgent(t)) => t <= u]_vars

\* A daily monitor that yields to a diagnosis goes back to the queue, whichever
\* way its run ends (finish, expiry, reclaim) and whatever its worker reports,
\* with the rounds it stored; only clearing its monitor takes it away.
YieldReturnsToQueue ==
    [][\A t \in Tasks :
          Running(t) /\ task[t].preempt_requested /\ ~Running(t)'
             => \/ task'[t].status = "queued" /\ results'[t] = results[t]
                \/ task'[t].status = "absent" /\ task[t].kind = "paid_monitor"]_vars

\* The queue implements the single collector lease.
NoLease == [task |-> NoTask, token |-> NoToken]
HeldLease ==
    IF \E t \in Tasks : Running(t)
    THEN LET t == CHOOSE t \in Tasks : Running(t)
         IN  [task |-> t, token |-> task[t].lease_token]
    ELSE NoLease

Lease == INSTANCE CollectorLease WITH lease <- HeldLease, stored <- results
ImplementsLease == Lease!LeaseSpec

\* The status of a task as other components see it, a requested stop included.
LifeOf(row) ==
    IF row.status = "running" /\ (row.cancel_requested \/ row.pause_requested)
    THEN "stopping" ELSE row.status

\* Every task lives as TaskLife says.  Late calls of an old worker revive no
\* finished, failed or paused task, a task asked to stop is neither completed
\* nor failed, and none is started but from the queue.
Life == INSTANCE TaskLife WITH life <- [t \in Tasks |-> LifeOf(task[t])]
ImplementsLife == Life!LifeSpec

-----------------------------------------------------------------------------
(* Statements of the documentation that this code does not keep.           *)

\* "running -> cancelled": a task asked to stop while it runs does stop.
CancelStops ==
    \A t \in Tasks :
        Running(t) /\ task[t].cancel_requested
            ~> task[t].status \notin {"running", "queued"} \/ ~task[t].cancel_requested

\* A due diagnosis takes the collector from a daily monitor: no monitor runs
\* beside one without having been asked to leave.
DiagnosisPreempts ==
    \A d, m \in Tasks :
        /\ d \in Eligible(task)
        /\ task[d].kind = "diagnosis"
        /\ Running(m)
        /\ task[m].kind = "paid_monitor"
        => task[m].pause_requested \/ task[m].cancel_requested

\* An operator's pause of a running task is not turned into a short yield.
PauseNotOverridden ==
    [][\A t \in Tasks :
          Running(t) /\ task[t].pause_requested /\ ~task[t].preempt_requested
             => ~(Running(t)' /\ task'[t].preempt_requested)]_vars
=============================================================================
