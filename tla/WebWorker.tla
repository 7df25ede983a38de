------------------------------ MODULE WebWorker ------------------------------
(***************************************************************************)
(* The worker that collects a task with a local browser: model after       *)
(* model, round after round, it asks, keeps a copy of the answer on its    *)
(* own disk, uploads it and reports the end.  Every request may fail,      *)
(* before or after the server has acted on it; the lease may be lost; the  *)
(* process may be stopped and started again.                               *)
(***************************************************************************)
EXTENDS Integers, Sequences, SequencesExt

CONSTANTS
    Selected,       \* the models of the task, in the order of MODEL_ORDER
    Schedule,       \* number of questions asked of each
    Attempts,       \* attempts at a question
    Uploads,        \* attempts at an upload
    MaxClaims       \* bound on claims

WorkAssumption ==
    /\ Selected \in Seq(Range(Selected)) /\ Selected # <<>> /\ IsInjective(Selected)
    /\ {Schedule, Attempts, Uploads} \subseteq Nat \ {0} /\ MaxClaims \in Nat

VARIABLES
    ticket,     \* the task, at the server
    stored,     \* the <<model, index>> it has stored
    agent,      \* what the worker does
    copies,     \* how many copies of an answer its disk holds
    claims

web == <<ticket, stored, agent, copies, claims>>

Slots == Range(Selected) \X (1..Schedule)
Waiting == [at |-> "idle", lease |-> 0]
Init ==
    /\ ticket = [status |-> "queued", lease |-> 0, cancel |-> FALSE]
    /\ stored = {} /\ agent = Waiting /\ claims = 0
    /\ copies = [s \in Slots |-> 0]

Holds == ticket.status = "running" /\ ticket.lease = agent.lease
Slot == <<Selected[agent.model], agent.index>>

-----------------------------------------------------------------------------
(* The server: a lease that expires, a cancellation, a retry.              *)

Expire ==
    /\ ticket.status = "running"
    /\ ticket' = [ticket EXCEPT !.status = "queued", !.lease = 0]
    /\ UNCHANGED <<stored, agent, copies, claims>>
RequestCancel ==
    /\ ticket.status = "running"
    /\ ticket' = [ticket EXCEPT !.cancel = TRUE]
    /\ UNCHANGED <<stored, agent, copies, claims>>
Retry ==
    /\ ticket.status = "failed"
    /\ ticket' = [status |-> "queued", lease |-> 0, cancel |-> FALSE]
    /\ UNCHANGED <<stored, agent, copies, claims>>

ReportedByAnyone(status) == [ticket EXCEPT !.status = status, !.lease = 0]
\* finish_task: the lease is asked for
Reported(status) ==
    IF Holds THEN [ticket EXCEPT !.status = status, !.lease = 0] ELSE ticket

-----------------------------------------------------------------------------
(* The worker.                                                             *)

At(place) == agent.at = place
Goes(state) == agent' = state
Local == UNCHANGED <<ticket, stored, copies, claims>>
Raise == [agent EXCEPT !.at = "fail"]

Claim ==
    /\ At("idle") /\ ticket.status = "queued" /\ claims < MaxClaims
    /\ claims' = claims + 1
    /\ ticket' = [ticket EXCEPT !.status = "running", !.lease = claims']
    /\ Goes([at |-> "model", lease |-> claims', model |-> 1, index |-> 1, try |-> 1])
    /\ UNCHANGED <<stored, copies>>

\* a heartbeat: it fails, tells of a cancellation, or lets the worker go on
Heartbeat(place, next) ==
    /\ At(place) /\ Local
    /\ \/ Goes(Raise)
       \/ Holds /\ Goes([agent EXCEPT !.at = IF ticket.cancel THEN "cancelled" ELSE next])
StartModel == Heartbeat("model", "ready")
StartRound == Heartbeat("round", "ask")

CheckReady ==
    /\ At("ready") /\ Local
    /\ \E ok \in BOOLEAN : Goes(IF ok THEN [agent EXCEPT !.at = "round"] ELSE Raise)

NextTry == IF agent.try < Attempts THEN [agent EXCEPT !.try = @ + 1] ELSE Raise
Uploading == [agent EXCEPT !.at = "upload", !.try = 1]
Answered == copies' = [copies EXCEPT ![Slot] = @ + 1]

AskMirrored ==
    /\ At("ask")
    /\ \/ Goes(NextTry) /\ UNCHANGED copies
       \/ Answered /\ (Goes(Uploading) \/ Goes(NextTry))
    /\ UNCHANGED <<ticket, stored, claims>>
\* The answer is rejected or not given; or it is kept, whatever the product
\* analysis and the local database say.
Ask ==
    /\ At("ask")
    /\ \/ Goes(NextTry) /\ UNCHANGED copies
       \/ Answered /\ Goes(Uploading)
    /\ UNCHANGED <<ticket, stored, claims>>

Following ==
    IF agent.index < Schedule THEN [agent EXCEPT !.at = "round", !.index = @ + 1, !.try = 1]
    ELSE IF agent.model < Len(Selected)
    THEN [agent EXCEPT !.at = "model", !.model = @ + 1, !.index = 1, !.try = 1]
    ELSE [agent EXCEPT !.at = "finish"]

GiveUpQuietly == IF agent.try < Uploads THEN [agent EXCEPT !.try = @ + 1] ELSE Following
GiveUp == IF agent.try < Uploads THEN [agent EXCEPT !.try = @ + 1] ELSE Raise

\* the request id names the slot: what is stored twice is stored once
Upload ==
    /\ At("upload")
    /\ \/ Holds /\ stored' = stored \cup {Slot} /\ Goes(Following)
       \/ Holds /\ stored' = stored \cup {Slot} /\ Goes(GiveUp)
       \/ UNCHANGED stored /\ Goes(GiveUp)
    /\ UNCHANGED <<ticket, copies, claims>>

\* "completed" may be lost on the way there or back; the worker then reports
\* that it failed, and whether that arrives it does not learn.
Finish ==
    /\ At("finish")
    /\ \/ ticket' = Reported("completed") /\ Goes(IF Holds THEN Waiting ELSE Raise)
       \/ ticket' = Reported("completed") /\ Goes(Raise)
       \/ UNCHANGED ticket /\ Goes(Raise)
    /\ UNCHANGED <<stored, copies, claims>>
Fail ==
    /\ At("fail") /\ Goes(Waiting)
    /\ ticket' = Reported("failed") \/ UNCHANGED ticket
    /\ UNCHANGED <<stored, copies, claims>>
Cancel ==
    /\ At("cancelled")
    /\ \/ ticket' = Reported("cancelled") /\ Goes(Waiting)
       \/ UNCHANGED ticket /\ Goes(Raise)
    /\ UNCHANGED <<stored, copies, claims>>

Killed == ~At("idle") /\ Goes(Waiting) /\ Local

Next ==
    \/ Expire \/ RequestCancel \/ Retry
    \/ Claim \/ StartModel \/ CheckReady \/ StartRound \/ Ask \/ Upload
    \/ Finish \/ Fail \/ Cancel \/ Killed
Spec == Init /\ [][Next]_web

-----------------------------------------------------------------------------
TypeOK ==
    /\ ticket.status \in {"queued", "running", "completed", "failed", "cancelled"}
    /\ ticket.lease \in 0..claims /\ (ticket.status # "running" => ticket.lease = 0)
    /\ stored \subseteq Slots /\ copies \in [Slots -> 0..MaxClaims]
    /\ At("idle") \/ (agent.model \in 1..Len(Selected) /\ agent.index \in 1..Schedule)

(* What the worker reports as completed the server holds entirely: every   *)
(* question of every model, though uploads fail, answers to them are lost  *)
(* and the task is claimed again in the middle.                            *)
CompletedIsWhole == ticket.status = "completed" => stored = Slots

(* "A temporary database outage must not trigger another question and      *)
(* create a duplicate observation": a question is kept at most once each   *)
(* time the task is claimed, and nothing is stored that was not kept.      *)
OneCopyPerClaim ==
    \A s \in Slots : copies[s] <= claims /\ (s \in stored => copies[s] > 0)

(* An end stands: the report of a worker that lost its lease, or lost the  *)
(* answer to its first report, changes nothing.                            *)
EndsStand ==
    [][ticket.status \in {"completed", "cancelled"} => UNCHANGED ticket.status]_web
=============================================================================
