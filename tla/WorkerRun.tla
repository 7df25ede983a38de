----------------------------- MODULE WorkerRun -----------------------------
(***************************************************************************)
(* The Windows worker: WorkerRunner with its threads, its LocalSpool and   *)
(* its heartbeat cache, working on one task of the queue.                  *)
(*                                                                         *)
(* Calls to the server may fail before or after they took effect; the      *)
(* process may die at any point and start again; operators act on the task *)
(* meanwhile.  The retries inside one POST repeat a call under the same    *)
(* token: they are its effect once more, which submit, heartbeat and       *)
(* finish absorb, so a call here either takes effect or does not.          *)
(*                                                                         *)
(* An answer is a number: the conversation it was taken from.  All rounds  *)
(* of a model ask the same question.                                       *)
(***************************************************************************)
EXTENDS Integers, FiniteSets

CONSTANTS
    Models,
    Rounds,         \* rounds per model
    Attempts,       \* round_attempts
    Kind,           \* task_kind
    Stale,          \* TRUE: a collector may return an old conversation
    MaxAnswers,     \* bound on conversations
    MaxFaults,      \* bound on calls that fail
    MaxCrashes,     \* bound on restarts of the worker
    MaxOps,         \* bound on operator calls
    Ops             \* operator calls of this instance

AllOps == {"pause", "preempt", "resume", "cancel", "delete", "reap"}

RoundsAssumption == Rounds \in Nat \ {0} /\ Attempts \in Nat \ {0}
KindAssumption == Kind \in {"diagnosis", "paid_monitor"} /\ Stale \in BOOLEAN
BoundsAssumption == {MaxAnswers, MaxFaults, MaxCrashes, MaxOps} \subseteq Nat
OpsAssumption == Ops \subseteq AllOps

VARIABLES
    status, flags,  \* the task's row: status and requests
    stored,         \* stored[m][r]: answer in remote_task_results
    erased,         \* erased[m]: answers an operator deleted
    holds,          \* the run's lease token is the row's
    spool, torn,    \* spool[m][r]: what find_record returns; an unfinished line
    run,            \* where the main thread is
    stopped,        \* the event shared by the model threads
    th,             \* th[m]: the thread of model m
    heard,          \* heard[m]: the cached heartbeat answer
    answers,        \* answers[m]: conversations so far
    faults, crashes, ops

server == <<status, flags, stored, erased, holds>>
disk == <<spool, torn>>
bounds == <<faults, crashes, ops>>
vars == <<server, disk, run, stopped, th, heard, answers, bounds>>

-----------------------------------------------------------------------------
RoundNos == 1..Rounds
None == 0
Answers == 1..MaxAnswers
Flags == [cancel : BOOLEAN, pause : BOOLEAN, preempt : BOOLEAN]
NoFlags == [cancel |-> FALSE, pause |-> FALSE, preempt |-> FALSE]
Unheard == [cancel |-> FALSE, pause |-> FALSE, known |-> FALSE]
Heard == [cancel : BOOLEAN, pause : BOOLEAN, known : BOOLEAN]

Outcomes == {"ok", "error", "cancelled", "paused"}
Places == {"idle", "begin", "batch_check", "batch", "fallback", "round", "replay", "check",
           "collect", "append", "submit", "mark", "retry", "ended"}

Thread == [at : Places,
           r : RoundNos,                    \* the round in hand
           how : {"serial", "batch", "replay"},
           attempt : 1..Attempts,
           answer : {None} \cup Answers,
           completed : SUBSET RoundNos,
           seen : SUBSET Answers,           \* seen_answers, seen_capture_ids
           outcome : Outcomes]
Rest == [at |-> "idle", r |-> 1, how |-> "serial", attempt |-> 1, answer |-> None,
         completed |-> {}, seen |-> {}, outcome |-> "ok"]

Empty == [m \in Models |-> [r \in RoundNos |-> None]]

Init ==
    /\ status = "queued" /\ flags = NoFlags
    /\ stored = Empty /\ erased = [m \in Models |-> {}]
    /\ holds = FALSE
    /\ spool = Empty /\ torn = FALSE
    /\ run = "poll" /\ stopped = FALSE
    /\ th = [m \in Models |-> Rest]
    /\ heard = [m \in Models |-> Unheard]
    /\ answers = [m \in Models |-> 0]
    /\ faults = 0 /\ crashes = 0 /\ ops = 0

-----------------------------------------------------------------------------
(* Building blocks.                                                        *)

Become(m, state) == th' = [th EXCEPT ![m] = state]
Go(m, place) == Become(m, [th[m] EXCEPT !.at = place])
End(m, outcome) == Become(m, [th[m] EXCEPT !.at = "ended", !.outcome = outcome])

Fault == faults < MaxFaults /\ faults' = faults + 1

LeaveBatch(t) == [t EXCEPT !.at = "fallback", !.r = 1, !.how = "serial"]

\* Mutant: one attempt more than round_attempts.
FailingUnbounded(t) ==
    CASE t.how = "batch" -> LeaveBatch(t)
      [] t.how = "serial" /\ t.attempt <= Attempts -> [t EXCEPT !.at = "retry", !.attempt = @ + 1]
      [] OTHER -> [t EXCEPT !.at = "ended", !.outcome = "error"]

\* An exception in the handling of a round, by the way it was reached.
Failing(t) ==
    CASE t.how = "batch" -> LeaveBatch(t)
      [] t.how = "serial" /\ t.attempt < Attempts -> [t EXCEPT !.at = "retry", !.attempt = @ + 1]
      [] OTHER -> [t EXCEPT !.at = "ended", !.outcome = "error"]
Fail(m) == Become(m, Failing(th[m]))

Missing(m) == {r \in RoundNos : r \notin th[m].completed /\ spool[m][r] = None}

\* A line appended after an unfinished one is glued to it and cannot be read.
Write(m, r, value) ==
    /\ spool' = IF torn THEN spool ELSE [spool EXCEPT ![m][r] = value]
    /\ torn' = FALSE

\* Raising TaskControl, or going on.
Heed(m, answer, place) ==
    IF answer.cancel THEN End(m, "cancelled")
    ELSE IF answer.pause THEN End(m, "paused")
    ELSE Go(m, place)

\* _check_control: a cached answer if it is fresh and not forced, the server's
\* answer, or, without a connection, the cached answer for two minutes more.
\* fail is the state of the thread if it raises.
Check(m, force, place, fail) ==
    \/ /\ ~force /\ heard[m].known
       /\ Heed(m, heard[m], place)
       /\ UNCHANGED <<heard, faults>>
    \/ /\ holds
       /\ LET answer == [cancel |-> flags.cancel, pause |-> flags.pause, known |-> TRUE] IN
          /\ heard' = [heard EXCEPT ![m] = answer]
          /\ Heed(m, answer, place)
       /\ UNCHANGED faults
    \/ /\ ~holds                                    \* refused
       /\ Become(m, fail)
       /\ UNCHANGED <<heard, faults>>
    \/ /\ Fault
       /\ \/ heard[m].known /\ Heed(m, heard[m], place)
          \/ Become(m, fail)
       /\ UNCHANGED heard

Error(m) == [th[m] EXCEPT !.at = "ended", !.outcome = "error"]

-----------------------------------------------------------------------------
(* The main thread: poll and run_task.                                     *)

Progress(m) == {r \in RoundNos : stored[m][r] # None}

\* The threads of a fresh run, with the server's checkpoints.
Claimed ==
    /\ run' = "running"
    /\ stopped' = FALSE
    /\ holds' = TRUE
    /\ th' = [m \in Models |-> [Rest EXCEPT
                 !.at = "begin", !.completed = Progress(m),
                 !.seen = {stored[m][r] : r \in Progress(m)}]]

\* How a lease ends outside the run, by what was asked.
Ended == IF flags.cancel THEN "cancelled"
         ELSE IF flags.pause /\ ~flags.preempt THEN "paused" ELSE "queued"
FlagsAfter == IF flags.cancel THEN flags ELSE NoFlags

\* claim by this worker: the task is handed out, it is ended as asked, or goes
\* back to the queue because a model is not ready.
Claim ==
    /\ run = "poll"
    /\ \/ /\ status = "queued" \/ (status = "running" /\ ~flags.pause)
          /\ ~flags.cancel
          /\ status' = "running"
          /\ \/ Claimed /\ UNCHANGED faults
             \/ Fault /\ UNCHANGED <<run, stopped, holds, th>>        \* answer lost
          /\ UNCHANGED flags
       \/ /\ status = "running" /\ (flags.cancel \/ flags.pause)
          /\ status' = Ended /\ flags' = FlagsAfter
          /\ UNCHANGED <<run, stopped, holds, th, faults>>
       \/ /\ status = "running"
          /\ status' = "queued"
          /\ UNCHANGED <<flags, run, stopped, holds, th, faults>>
    /\ UNCHANGED <<stored, erased, disk, heard, answers, crashes, ops>>

\* as_completed: a control, or any error of a paid monitor, stops the others.
Stop ==
    /\ run = "running" /\ ~stopped
    /\ \E m \in Models :
          /\ th[m].at = "ended"
          /\ \/ th[m].outcome \in {"cancelled", "paused"}
             \/ th[m].outcome = "error" /\ Kind = "paid_monitor"
    /\ stopped' = TRUE
    /\ UNCHANGED <<server, disk, run, th, heard, answers, bounds>>

\* Mutant: errors of single models are not reported.
ReportOptimistic ==
    LET outcomes == {th[m].outcome : m \in Models} IN
    IF outcomes \cap {"cancelled", "paused"} # {} THEN outcomes \cap {"cancelled", "paused"}
    ELSE IF outcomes = {"error"} THEN {"retrying"} ELSE {"completed"}

\* The status run_task reports; with two controls, the first to come in.
Report ==
    LET outcomes == {th[m].outcome : m \in Models} IN
    IF outcomes \cap {"cancelled", "paused"} # {} THEN outcomes \cap {"cancelled", "paused"}
    ELSE IF "error" \in outcomes THEN {"retrying"} ELSE {"completed"}

AllStored == \A m \in Models : Progress(m) = RoundNos

\* Mutant: the worker's word is taken for the end.
FinishedAsReported(report) ==
    status' = IF report = "retrying" THEN "queued" ELSE report

\* Mutant: a run to be retried ends the task.
FinishedForGood(report) ==
    status' = IF report = "retrying" THEN "failed" ELSE report

\* What finish makes of a report.
Finished(report) ==
    LET said == IF flags.cancel THEN "cancelled" ELSE IF flags.pause THEN "paused" ELSE report IN
    status' = CASE said = "paused" /\ flags.preempt /\ Kind = "paid_monitor" -> "queued"
                [] said = "completed" /\ Kind = "diagnosis" /\ ~AllStored -> "queued"
                [] said = "retrying" -> "queued"
                [] OTHER -> said

Finish ==
    /\ run = "running"
    /\ \A m \in Models : th[m].at = "ended"
    /\ \E report \in Report :
          \/ /\ holds
             /\ Finished(report)
             /\ flags' = NoFlags /\ holds' = FALSE
             /\ (UNCHANGED faults \/ Fault)             \* the answer may be lost
          \/ /\ ~holds /\ UNCHANGED <<status, flags, holds, faults>>
          \/ Fault /\ holds' = FALSE /\ UNCHANGED <<status, flags>>
    /\ run' = "poll"
    /\ th' = [m \in Models |-> Rest]
    /\ UNCHANGED <<stored, erased, disk, stopped, heard, answers, crashes, ops>>

-----------------------------------------------------------------------------
(* The thread of a model: _run_model.                                      *)

\* Nothing to do, no collector ready, a batch, or round by round.
Begin(m) ==
    /\ th[m].at = "begin"
    /\ \/ th[m].completed = RoundNos /\ End(m, "ok")
       \/ /\ th[m].completed # RoundNos
          /\ \/ Go(m, "round")
             \/ Kind = "diagnosis" /\ Cardinality(Missing(m)) > 1 /\ Go(m, "batch_check")
    /\ UNCHANGED <<server, disk, run, stopped, heard, answers, bounds>>

NotReady(m) ==
    /\ th[m].at = "begin" /\ th[m].completed # RoundNos
    /\ End(m, "error")
    /\ UNCHANGED <<server, disk, run, stopped, heard, answers, bounds>>

BatchCheck(m) ==
    /\ th[m].at = "batch_check"
    /\ Check(m, TRUE, "batch", LeaveBatch(th[m]))
    /\ UNCHANGED <<server, disk, run, stopped, answers, crashes, ops>>

\* A new conversation, or an old one the page still shows.
Taken(m, a) ==
    \/ a = answers[m] + 1 /\ answers' = [answers EXCEPT ![m] = a]
    \/ Stale /\ a <= answers[m] /\ UNCHANGED answers

\* Mutant: repeated answers are let through.
PersistAny(m, r, how, a) == Become(m, [th[m] EXCEPT !.at = "append", !.r = r, !.how = how, !.answer = a])

\* persist_capture refuses an answer seen before.
Persist(m, r, how, a) ==
    LET t == [th[m] EXCEPT !.r = r, !.how = how, !.answer = a] IN
    Become(m, IF a \in th[m].seen THEN Failing([t EXCEPT !.answer = None])
               ELSE [t EXCEPT !.at = "append"])

\* A progressive collector publishes its rounds one by one, in any order.
BatchPublish(m) ==
    /\ th[m].at = "batch"
    /\ \E r \in Missing(m), a \in Answers : Taken(m, a) /\ Persist(m, r, "batch", a)
    /\ UNCHANGED <<server, disk, run, stopped, heard, bounds>>

\* The batch returns, and the loop takes the answers not yet published from it
\* (as Capture does from the page), or it fails.
BatchReturn(m) ==
    /\ th[m].at = "batch"
    /\ \/ Become(m, [LeaveBatch(th[m]) EXCEPT !.at = "round"])
       \/ Missing(m) # {} /\ Become(m, LeaveBatch(th[m]))
    /\ UNCHANGED <<server, disk, run, stopped, heard, answers, bounds>>

Fallback(m) ==
    /\ th[m].at = "fallback"
    /\ Check(m, FALSE, "round", Error(m))
    /\ UNCHANGED <<server, disk, run, stopped, answers, crashes, ops>>

\* The head of the loop.
Round(m) ==
    /\ th[m].at = "round"
    /\ LET t == [th[m] EXCEPT !.attempt = 1, !.answer = None, !.how = "serial"]
           todo == {r \in RoundNos : r >= t.r /\ r \notin t.completed}
       IN  \/ (stopped \/ todo = {}) /\ End(m, "ok")
           \/ /\ ~stopped
              /\ \E r \in todo :
                    /\ \A q \in todo : r <= q
                    /\ Become(m, IF spool[m][r] # None
                                  THEN [t EXCEPT !.r = r, !.at = "replay", !.how = "replay",
                                                 !.answer = spool[m][r]]
                                  ELSE [t EXCEPT !.r = r, !.at = "check"])
    /\ UNCHANGED <<server, disk, run, stopped, heard, answers, bounds>>

ReplayCheck(m) ==
    /\ th[m].at = "replay"
    /\ Check(m, FALSE, "submit", Error(m))
    /\ UNCHANGED <<server, disk, run, stopped, answers, crashes, ops>>

CollectCheck(m) ==
    /\ th[m].at = "check"
    /\ Check(m, TRUE, "collect", Error(m))
    /\ UNCHANGED <<server, disk, run, stopped, answers, crashes, ops>>

Capture(m) ==
    /\ th[m].at = "collect"
    /\ \E a \in Answers :
          /\ Taken(m, a)
          /\ Persist(m, th[m].r, "serial", a)
    /\ UNCHANGED <<server, disk, run, stopped, heard, bounds>>

\* The collector raises, or the answer fails its validation.
CaptureFails(m) ==
    /\ th[m].at = "collect"
    /\ Fail(m)
    /\ UNCHANGED <<server, disk, run, stopped, heard, answers, bounds>>

\* progress callbacks of a collector at work.
ProgressCheck(m) ==
    \/ /\ th[m].at = "collect"
       /\ Check(m, FALSE, "collect", Failing(th[m]))
       /\ UNCHANGED <<server, disk, run, stopped, answers, crashes, ops>>
    \/ /\ th[m].at = "batch"
       /\ Check(m, FALSE, "batch", LeaveBatch(th[m]))
       /\ UNCHANGED <<server, disk, run, stopped, answers, crashes, ops>>

RetryCheck(m) ==
    /\ th[m].at = "retry"
    /\ Check(m, FALSE, "collect", Error(m))
    /\ UNCHANGED <<server, disk, run, stopped, answers, crashes, ops>>

AppendRecord(m) ==
    /\ th[m].at = "append"
    /\ Write(m, th[m].r, th[m].answer)
    /\ Go(m, "submit")
    /\ UNCHANGED <<server, run, stopped, heard, answers, bounds>>

\* accept_result
Accepted(m, r, a) ==
    stored' = IF flags.cancel \/ stored[m][r] # None THEN stored
              ELSE [stored EXCEPT ![m][r] = a]

Submit(m) ==
    /\ th[m].at = "submit"
    /\ \/ /\ holds
          /\ Accepted(m, th[m].r, th[m].answer)
          /\ \/ Go(m, "mark") /\ UNCHANGED faults
             \/ Fault /\ Fail(m)
       \/ ~holds /\ Fail(m) /\ UNCHANGED <<stored, faults>>
       \/ Fault /\ Fail(m) /\ UNCHANGED stored
    /\ UNCHANGED <<status, flags, erased, holds, disk, run, stopped, heard, answers, crashes, ops>>

\* The answer counts as seen and its round as completed, unless it was replayed.
Marked(t) ==
    LET done == IF t.how = "replay" THEN t
                ELSE [t EXCEPT !.completed = @ \cup {t.r}, !.seen = @ \cup {t.answer}]
    IN  IF t.how = "batch" THEN [done EXCEPT !.at = "batch"]
        ELSE IF t.r = Rounds THEN [done EXCEPT !.at = "ended", !.outcome = "ok"]
        ELSE [done EXCEPT !.at = "round", !.r = @ + 1]

\* Mutant: the acknowledgement is not written.
MarkNothing(m) ==
    /\ th[m].at = "mark"
    /\ Become(m, Marked(th[m]))
    /\ UNCHANGED <<server, disk, run, stopped, heard, answers, bounds>>

MarkSubmitted(m) ==
    /\ th[m].at = "mark"
    /\ Write(m, th[m].r, None)
    /\ Become(m, Marked(th[m]))
    /\ UNCHANGED <<server, run, stopped, heard, answers, bounds>>

\* The process dies; the line being written may be lost, unfinished or whole.
Crash ==
    /\ crashes < MaxCrashes /\ crashes' = crashes + 1
    /\ \/ UNCHANGED disk
       \/ \E m \in Models :
             /\ th[m].at \in {"append", "mark"}
             /\ \/ torn' = TRUE /\ UNCHANGED spool
                \/ Write(m, th[m].r, IF th[m].at = "append" THEN th[m].answer ELSE None)
    /\ run' = "poll"
    /\ holds' = FALSE
    /\ th' = [m \in Models |-> Rest]
    /\ heard' = [m \in Models |-> Unheard]
    /\ UNCHANGED <<status, flags, stored, erased, stopped, answers, faults, ops>>

-----------------------------------------------------------------------------
(* Operators, and another worker whose poll ends an expired lease.         *)

Operate(op) == op \in Ops /\ ops < MaxOps /\ ops' = ops + 1
Deletable == {"completed", "failed", "cancelled", "paused"}

OperatorAsks ==
    \/ /\ Operate("pause")
       /\ \/ /\ status = "running" /\ UNCHANGED status
             /\ flags' = [flags EXCEPT !.pause = TRUE, !.preempt = FALSE]
          \/ /\ status = "queued" /\ status' = "paused"
             /\ flags' = [flags EXCEPT !.pause = FALSE, !.preempt = FALSE]
       /\ UNCHANGED <<stored, erased, holds>>
    \/ /\ Operate("preempt")
       /\ status = "running" /\ Kind = "paid_monitor" /\ ~flags.cancel
       /\ flags' = [flags EXCEPT !.pause = TRUE, !.preempt = TRUE]
       /\ UNCHANGED <<status, stored, erased, holds>>
    \/ /\ Operate("cancel")
       /\ status \in {"running", "queued", "paused"}
       /\ status' = IF status = "running" THEN status ELSE "cancelled"
       /\ flags' = [NoFlags EXCEPT !.cancel = TRUE]
       /\ UNCHANGED <<stored, erased, holds>>
    \/ /\ Operate("resume")
       /\ status \in {"paused", "failed"}
       /\ status' = "queued" /\ flags' = NoFlags
       /\ UNCHANGED <<stored, erased, holds>>
    \/ /\ Operate("delete")
       /\ status \in Deletable
       /\ \E m \in Models, r \in RoundNos :
             /\ stored[m][r] # None
             /\ stored' = [stored EXCEPT ![m][r] = None]
             /\ erased' = [erased EXCEPT ![m] = @ \cup {stored[m][r]}]
       /\ status' = "paused" /\ flags' = NoFlags
       /\ UNCHANGED holds
    \/ /\ Operate("reap")
       /\ status = "running"
       /\ status' = Ended /\ flags' = FlagsAfter
       /\ holds' = FALSE
       /\ UNCHANGED <<stored, erased>>

Operator ==
    /\ OperatorAsks
    /\ UNCHANGED <<disk, run, stopped, th, heard, answers, faults, crashes>>

-----------------------------------------------------------------------------
Control(m) ==
    \/ BatchCheck(m) \/ Fallback(m) \/ ReplayCheck(m) \/ CollectCheck(m) \/ RetryCheck(m)

Step(m) ==
    \/ Begin(m) \/ Round(m) \/ Control(m)
    \/ AppendRecord(m) \/ Submit(m) \/ MarkSubmitted(m)

Next ==
    \/ Claim \/ Stop \/ Finish \/ Crash \/ Operator
    \/ \E m \in Models :
          \/ Step(m)
          \/ NotReady(m) \/ ProgressCheck(m) \/ Capture(m) \/ CaptureFails(m)
          \/ BatchPublish(m) \/ BatchReturn(m)

Spec == Init /\ [][Next]_vars

\* The worker's threads run on, and a provider answers at last if it is asked
\* again and again.
Fairness ==
    /\ WF_vars(Claim) /\ WF_vars(Finish)
    /\ \A m \in Models :
          /\ WF_vars(Step(m)) /\ SF_vars(Begin(m))
          /\ SF_vars(Capture(m)) /\ WF_vars(BatchReturn(m))
FairSpec == Spec /\ Fairness

-----------------------------------------------------------------------------
(* Properties.                                                             *)

TypeOK ==
    /\ status \in {"queued", "running"} \cup Deletable
    /\ flags \in Flags
    /\ {stored, spool} \subseteq [Models -> [RoundNos -> {None} \cup Answers]]
    /\ erased \in [Models -> SUBSET Answers]
    /\ {holds, torn, stopped} \subseteq BOOLEAN
    /\ run \in {"poll", "running"}
    /\ th \in [Models -> Thread]
    /\ heard \in [Models -> Heard]
    /\ answers \in [Models -> 0..MaxAnswers]
    /\ faults \in 0..MaxFaults /\ crashes \in 0..MaxCrashes /\ ops \in 0..MaxOps

\* A task that ends completed has an answer stored for every round of every
\* model, a daily monitor too, whose report the server does not check.
CompletedIsWhole == status = "completed" => AllStored

\* Two rounds of a model are never two copies of one conversation.
NoCaptureTwice ==
    \A m \in Models, r, q \in RoundNos :
        stored[m][r] = stored[m][q] /\ stored[m][r] # None => r = q

\* An answer an operator deleted is collected anew, not uploaded once more.
DeletedStaysDeleted ==
    \A m \in Models, r \in RoundNos : stored[m][r] \notin erased[m]

\* A task is paused or cancelled because it was asked to.
StopWasAsked ==
    [][status = "running" =>
          /\ status' = "paused" => flags.pause
          /\ status' = "cancelled" => flags.cancel]_vars

\* An upload that failed is repeated, the question is not asked again.
UploadNotReasked ==
    \A m \in Models : th[m].at = "collect" => spool[m][th[m].r] = None

\* The queue as WorkerRun sees it keeps to the life cycle that TaskQueue
\* implements.
LifeOf == IF status = "running" /\ (flags.cancel \/ flags.pause) THEN "stopping" ELSE status
Life == INSTANCE TaskLife WITH Tasks <- {"task"}, life <- [t \in {"task"} |-> LifeOf]
ImplementsLife == [][Life!LifeNext]_LifeOf

\* In the end: a task nobody stops is collected, over lost calls and restarts.
Collected == status = "completed"
=============================================================================
