----------------------------- MODULE LoginQueue -----------------------------
(***************************************************************************)
(* Interactive logins: remote_login_requests of RemoteTaskQueue, the       *)
(* combined poll of the server (a login first, a task second), and         *)
(* run_login of the two Python workers.                                    *)
(*                                                                         *)
(* request_login is a SELECT and an INSERT outside a transaction; claim,   *)
(* heartbeat and finish are one transaction each.  A call may be lost      *)
(* before or after it took effect, and a worker may die.                   *)
(***************************************************************************)
EXTENDS Integers, FiniteSets

CONSTANTS
    Models,         \* models with a login
    Direct, Shared, \* those this worker opens a browser for; those it reports
                    \* ready at once; the others it reports failed
    Keeps,          \* TRUE: a session is kept when the report of it fails, and
                    \* over a restart (windows_worker_sdk); FALSE: it is dropped
    Requesters,     \* server threads in request_login
    Workers,
    MaxLogins, MaxTokens, MaxFaults, MaxCrashes

ModelsAssumption ==
    /\ Direct \subseteq Models /\ Shared \subseteq Models \ Direct
    /\ "none" \notin Models \cup Workers
KeepsAssumption == Keeps \in BOOLEAN
BoundsAssumption == {MaxLogins, MaxTokens, MaxFaults, MaxCrashes} \subseteq Nat

VARIABLES
    login,          \* login[i]: the rows in the order of created_at
    asked,          \* asked[q]: the model a requester found no open row for
    task,           \* is a queue task waiting for the same poll?
    at, job,        \* where worker w is, and the row and token it works on
    session,        \* session[w]: models it has a session of
    issued, faults, crashes

vars == <<login, asked, task, at, job, session, issued, faults, crashes>>

Nothing == 0
Logins == 1..MaxLogins
Tokens == 1..MaxTokens
Open == {"queued", "running"}
Final == {"ready", "failed"}
Row == [status : {"absent"} \cup Open \cup Final, model : Models \cup {"none"},
        worker : Workers \cup {"none"}, token : {Nothing} \cup Tokens, expired : BOOLEAN]
NoRow == [status |-> "absent", model |-> "none", worker |-> "none",
          token |-> Nothing, expired |-> FALSE]
NoJob == [id |-> Nothing, token |-> Nothing]

Init ==
    /\ login = [i \in Logins |-> NoRow]
    /\ asked = [q \in Requesters |-> "none"]
    /\ task = "waiting"
    /\ at = [w \in Workers |-> "poll"] /\ job = [w \in Workers |-> NoJob]
    /\ session = [w \in Workers |-> {}]
    /\ issued = 0 /\ faults = 0 /\ crashes = 0

Fault == faults < MaxFaults /\ faults' = faults + 1
Used == {i \in Logins : login[i].status # "absent"}
\* Mutant: a login in progress is not found.
OpenForQueued(m) == {i \in Used : login[i].model = m /\ login[i].status = "queued"}

OpenFor(m) == {i \in Used : login[i].model = m /\ login[i].status \in Open}

-----------------------------------------------------------------------------
(* request_login.                                                          *)

\* Mutant: the model is not validated.
SelectUnknown(q) ==
    /\ asked[q] = "none"
    /\ \E m \in Models \cup {"unknown"} : OpenFor(m) = {} /\ asked' = [asked EXCEPT ![q] = m]
    /\ UNCHANGED <<login, task, at, job, session, issued, faults, crashes>>

\* An open row of the model is handed back; without one a row is inserted.
Select(q) ==
    /\ asked[q] = "none"
    /\ \E m \in Models : OpenFor(m) = {} /\ asked' = [asked EXCEPT ![q] = m]
    /\ UNCHANGED <<login, task, at, job, session, issued, faults, crashes>>

Insert(q) ==
    /\ asked[q] # "none" /\ Cardinality(Used) < MaxLogins
    /\ login' = [login EXCEPT ![Cardinality(Used) + 1] =
                   [NoRow EXCEPT !.status = "queued", !.model = asked[q]]]
    /\ asked' = [asked EXCEPT ![q] = "none"]
    /\ UNCHANGED <<task, at, job, session, issued, faults, crashes>>

-----------------------------------------------------------------------------
(* /api/worker/claim: claim_login, and claim if there is no login.         *)

\* Mutant: an expired row of any outcome is opened again.
RequeuedAll(row) ==
    IF row.status # "queued" /\ row.status # "absent" /\ (row.expired \/ row.status = "failed")
    THEN [row EXCEPT !.status = "queued", !.worker = "none", !.token = Nothing, !.expired = FALSE]
    ELSE row

Requeued(row) ==
    IF row.status = "running" /\ row.expired
    THEN [row EXCEPT !.status = "queued", !.worker = "none", !.token = Nothing, !.expired = FALSE]
    ELSE row

Rows == [i \in Logins |-> Requeued(login[i])]
Queued == {i \in Logins : Rows[i].status = "queued"}

PollLogin(w) ==
    /\ at[w] = "poll" /\ issued < MaxTokens
    /\ \E i \in Queued :
          /\ \A j \in Queued : i <= j
          /\ login' = [Rows EXCEPT ![i] = [@ EXCEPT !.status = "running", !.worker = w,
                                                    !.token = issued + 1]]
          /\ issued' = issued + 1
          /\ \/ /\ at' = [at EXCEPT ![w] = "begin"]
                /\ job' = [job EXCEPT ![w] = [id |-> i, token |-> issued + 1]]
                /\ UNCHANGED faults
             \/ Fault /\ UNCHANGED <<at, job>>                  \* answer lost
    /\ UNCHANGED <<asked, task, session, crashes>>

PollTask(w) ==
    /\ at[w] = "poll" /\ Queued = {}
    /\ login' = Rows
    /\ task' = "served"
    /\ UNCHANGED <<asked, at, job, session, issued, faults, crashes>>

-----------------------------------------------------------------------------
(* run_login.                                                              *)

ModelOf(w) == login[job[w].id].model
Holds(w) == login[job[w].id].token = job[w].token
Go(w, place) == at' = [at EXCEPT ![w] = place]

\* A heartbeat that is refused or lost raises.
Beat(w, place) ==
    \/ /\ Holds(w) /\ login[job[w].id].status = "running"
       /\ login' = [login EXCEPT ![job[w].id].expired = FALSE]
       /\ Go(w, place)
       /\ UNCHANGED faults
    \/ /\ ~Holds(w) /\ Go(w, "failing")
       /\ UNCHANGED <<login, faults>>
    \/ Fault /\ Go(w, "failing") /\ UNCHANGED login

\* The session in hand is dropped before the window opens.
Begin(w) ==
    /\ at[w] = "begin"
    /\ \/ /\ ModelOf(w) \in Direct
          /\ session' = [session EXCEPT ![w] = @ \ {ModelOf(w)}]
          /\ Beat(w, "window")
       \/ ModelOf(w) \in Shared /\ Beat(w, "report") /\ UNCHANGED session
       \/ /\ ModelOf(w) \notin Direct \cup Shared
          /\ Go(w, "failing") /\ UNCHANGED <<login, session, faults>>
    /\ UNCHANGED <<asked, task, job, issued, crashes>>

Waiting(w) ==
    /\ at[w] = "window"
    /\ Beat(w, "window")
    /\ UNCHANGED <<asked, task, job, session, issued, crashes>>

LoggedIn(w) ==
    /\ at[w] = "window"
    /\ session' = [session EXCEPT ![w] = @ \cup {ModelOf(w)}]
    /\ Go(w, "report")
    /\ UNCHANGED <<login, asked, task, job, issued, faults, crashes>>

\* The ten minutes are over, or the browser fails.
WindowFails(w) ==
    /\ at[w] = "window"
    /\ Go(w, "failing")
    /\ UNCHANGED <<login, asked, task, job, session, issued, faults, crashes>>

\* Mutant: the token survives the end.
EndedKeepsToken(i, status) == login' = [login EXCEPT ![i] = [@ EXCEPT !.status = status]]

\* finish_login
Ended(i, status) ==
    login' = [login EXCEPT ![i] = [@ EXCEPT !.status = status, !.token = Nothing,
                                            !.expired = FALSE]]

ReportReady(w) ==
    /\ at[w] = "report"
    /\ \/ /\ Holds(w) /\ Ended(job[w].id, "ready")
          /\ \/ Go(w, "poll") /\ UNCHANGED faults
             \/ Fault /\ Go(w, "failing")                       \* answer lost
       \/ ~Holds(w) /\ Go(w, "failing") /\ UNCHANGED <<login, faults>>
       \/ Fault /\ Go(w, "failing") /\ UNCHANGED login
    /\ UNCHANGED <<asked, task, job, session, issued, crashes>>

\* Mutant: without the request of the operator the old session is dropped as well.
ReportFailedDrops(w) ==
    /\ at[w] = "failing"
    /\ session' = [session EXCEPT ![w] = {}]
    /\ \/ Holds(w) /\ Ended(job[w].id, "failed") /\ UNCHANGED faults
       \/ UNCHANGED <<login, faults>>
    /\ Go(w, "poll")
    /\ UNCHANGED <<asked, task, job, issued, crashes>>

ReportFailed(w) ==
    /\ at[w] = "failing"
    /\ session' = [session EXCEPT ![w] = IF Keeps THEN @ ELSE @ \ {ModelOf(w)}]
    /\ \/ Holds(w) /\ Ended(job[w].id, "failed") /\ UNCHANGED faults
       \/ ~Holds(w) /\ UNCHANGED <<login, faults>>
       \/ Fault /\ UNCHANGED login
    /\ Go(w, "poll")
    /\ UNCHANGED <<asked, task, job, issued, crashes>>

Crash(w) ==
    /\ crashes < MaxCrashes /\ crashes' = crashes + 1
    /\ Go(w, "poll")
    /\ session' = [session EXCEPT ![w] = IF Keeps THEN @ ELSE {}]
    /\ UNCHANGED <<login, asked, task, job, issued, faults>>

LeasePasses(i) ==
    /\ login[i].status = "running" /\ ~login[i].expired
    /\ login' = [login EXCEPT ![i].expired = TRUE]
    /\ UNCHANGED <<asked, task, at, job, session, issued, faults, crashes>>

RunLogin(w) == Begin(w) \/ ReportReady(w) \/ ReportFailed(w)
Window(w) == LoggedIn(w) \/ WindowFails(w)
Poll(w) == PollLogin(w) \/ PollTask(w)

Next ==
    \/ \E q \in Requesters : Select(q) \/ Insert(q)
    \/ \E w \in Workers : Poll(w) \/ RunLogin(w) \/ Window(w) \/ Waiting(w) \/ Crash(w)
    \/ \E i \in Logins : LeasePasses(i)

Spec == Init /\ [][Next]_vars

\* Workers poll and a window is closed in the end; time passes.
Fairness ==
    /\ \A w \in Workers : WF_vars(Poll(w)) /\ WF_vars(RunLogin(w)) /\ SF_vars(Window(w))
    /\ \A i \in Logins : WF_vars(LeasePasses(i))
FairSpec == Spec /\ Fairness

-----------------------------------------------------------------------------
(* Properties.                                                             *)

TypeOK ==
    /\ login \in [Logins -> Row]
    /\ asked \in [Requesters -> Models \cup {"none"}]
    /\ task \in {"waiting", "served"}
    /\ at \in [Workers -> {"poll", "begin", "window", "report", "failing"}]
    /\ job \in [Workers -> [id : {Nothing} \cup Logins, token : {Nothing} \cup Tokens]]
    /\ session \in [Workers -> SUBSET Models]
    /\ issued \in 0..MaxTokens /\ faults \in 0..MaxFaults /\ crashes \in 0..MaxCrashes

\* request_login answers with the open request of a model: there is never a second.
OneOpenPerModel ==
    \A i, j \in Logins :
        login[i].status \in Open /\ login[j].status \in Open /\ i # j
        => login[i].model # login[j].model

\* The end of a login stands: neither a repeated report nor a later poll changes it.
EndStands == [][\A i \in Logins : login[i].status \in Final => login'[i] = login[i]]_vars

\* While no later request touched the model, "ready" means that the worker that
\* reported it has the session.
ReadyHasSession ==
    \A i \in Used :
        /\ login[i].status = "ready" /\ login[i].model \in Direct
        /\ \A j \in Used : j > i => login[j].model # login[i].model
        => login[i].model \in session[login[i].worker]

\* In the end: logins go first and yet do not keep the task waiting for ever.
TaskServed == task = "served"
=============================================================================
