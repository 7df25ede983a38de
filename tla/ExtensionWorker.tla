--------------------------- MODULE ExtensionWorker ---------------------------
(***************************************************************************)
(* The Chrome extension as a worker: a service worker that polls when an   *)
(* alarm, a timer or a page wakes it, and runs the models of a task side   *)
(* by side, with what they were told shared between them.  The browser may *)
(* end it anywhere, with all that it held but its storage; only a restart  *)
(* of the browser takes the storage of the session too.                    *)
(*                                                                         *)
(* A call may fail, before or after it took effect.  The two writes of a   *)
(* message to the storage count as one.                                    *)
(***************************************************************************)
EXTENDS Integers, FiniteSets

CONSTANTS
    Models, Rounds,
    Attempts,       \* attempts at a round that meets a verification
    Kind,           \* task_kind
    MaxFaults,      \* bound on calls that fail
    MaxEnds,        \* bound on ends of the service worker and of the browser
    MaxOps,         \* bound on what operators ask of the task
    Orders, MaxOrders \* what the user of the browser does, and a bound on it

ExtensionAssumption ==
    /\ {Rounds, Attempts} \subseteq Nat \ {0} /\ Kind \in {"diagnosis", "paid_monitor"}
    /\ {MaxFaults, MaxEnds, MaxOps, MaxOrders} \subseteq Nat
    /\ Orders \subseteq {"start", "stop", "forget"}

VARIABLES
    status, wish,   \* the task's row: status, what is requested of its run
    kept,           \* the <<model, round>> the server has
    leased,         \* the lease of the run is the row's
    config, auto, on, \* savedConfig, autoStart, running
    stage,          \* where poll and runTask are
    told,           \* control
    tab,            \* tab[m]: runModel
    wanted, since,  \* history: the user's last word, claims since then
    more,           \* history: more[m]: questions since a model was told to stop
    faults, ends, ops, orders

row == <<status, wish, kept, leased>>
settings == <<config, auto, on>>
history == <<wanted, since, more>>
bounds == <<faults, ends, ops, orders>>
extension == <<row, settings, stage, told, tab, history, bounds>>

RoundNos == 1..Rounds
Steps == Models \X RoundNos
Wishes == {"nothing", "pause", "preempt", "cancel"}
Told == {"nothing", "pause", "cancel"}
Idle == [at |-> "idle", round |-> 1, attempt |-> 1, word |-> "nothing", failed |-> FALSE]
Unset == "unset"

Init ==
    /\ status = "queued" /\ wish = "nothing" /\ kept = {} /\ leased = FALSE
    /\ config = TRUE /\ auto = TRUE /\ on = Unset
    /\ stage = "asleep" /\ told = "nothing" /\ tab = [m \in Models |-> Idle]
    /\ wanted = TRUE /\ since = 0 /\ more = [m \in Models |-> 0]
    /\ faults = 0 /\ ends = 0 /\ ops = 0 /\ orders = 0

Fault == faults < MaxFaults /\ faults' = faults + 1
Becomes(m, state) == tab' = [tab EXCEPT ![m] = state]
Goes(m, place) == Becomes(m, [tab[m] EXCEPT !.at = place])
Rejects(m) == Becomes(m, [tab[m] EXCEPT !.at = "over", !.failed = TRUE])
\* a cancellation is not taken back by a pause
Stronger(a, b) == IF "cancel" \in {a, b} THEN "cancel" ELSE IF b = "nothing" THEN a ELSE b
Word == IF wish = "preempt" THEN "pause" ELSE wish

-----------------------------------------------------------------------------
(* poll.                                                                   *)

Wake ==
    /\ stage \in {"asleep", "awake"} /\ stage' = "poll"
    /\ UNCHANGED <<row, settings, told, tab, history, bounds>>

\* session: what the session says, and without it what was saved
Running == config /\ (IF on = Unset THEN auto ELSE on = "yes")
ReadSession ==
    /\ stage = "poll"
    /\ stage' = IF Running THEN "ready" ELSE "awake"
    /\ UNCHANGED <<row, settings, told, tab, history, bounds>>

\* How a lease ends outside the run.
Ended == IF wish = "cancel" THEN "cancelled" ELSE IF wish = "pause" THEN "paused" ELSE "queued"

\* claim, after the tabs were asked whether they are ready
Claim ==
    /\ stage = "ready"
    /\ \/ /\ status \in {"queued", "running"} /\ wish = "nothing"
          /\ status' = "running"
          /\ \/ /\ stage' = "running" /\ leased' = TRUE /\ since' = since + 1
                /\ tab' = [m \in Models |-> [Idle EXCEPT !.at = "next"]]
                /\ UNCHANGED faults
             \/ Fault /\ stage' = "awake" /\ UNCHANGED <<leased, tab, since>>
          /\ UNCHANGED wish
       \/ /\ status = "running" /\ wish # "nothing"
          /\ status' = Ended /\ wish' = "nothing" /\ stage' = "awake"
          /\ UNCHANGED <<leased, tab, since, faults>>
       \/ /\ stage' = "awake"
          /\ UNCHANGED status \/ (status = "running" /\ wish = "nothing" /\ status' = "queued")
          /\ UNCHANGED <<wish, leased, tab, since, faults>>
    /\ told' = "nothing" /\ more' = [m \in Models |-> 0]
    /\ UNCHANGED <<kept, settings, wanted, ends, ops, orders>>

-----------------------------------------------------------------------------
(* runModel.                                                               *)

Apart == UNCHANGED <<status, wish, leased, settings, stage, wanted, since, ends, ops, orders>>

\* Rounds the server had at the claim are passed over, as are those of the run.
Todo(m) == {r \in RoundNos : r >= tab[m].round /\ <<m, r>> \notin kept}
\* The next round, unless a model was told to stop.
NextRound(m) ==
    /\ tab[m].at = "next"
    /\ IF Todo(m) = {} \/ told # "nothing" THEN Goes(m, "over")
       ELSE \E r \in Todo(m) :
               /\ \A q \in Todo(m) : r <= q
               /\ Becomes(m, [tab[m] EXCEPT !.at = "beat", !.round = r, !.attempt = 1])
    /\ UNCHANGED <<kept, told, more, faults>> /\ Apart

\* heartbeat: the answer is on its way while other models go on
Beat(m) ==
    /\ tab[m].at = "beat"
    /\ \/ leased /\ Becomes(m, [tab[m] EXCEPT !.at = "heard", !.word = Word]) /\ UNCHANGED faults
       \/ ~leased /\ Rejects(m) /\ UNCHANGED faults
       \/ Fault /\ Rejects(m)
    /\ UNCHANGED <<kept, told, more>> /\ Apart
Hear(m) ==
    /\ tab[m].at = "heard"
    /\ IF tab[m].word = "nothing"
       THEN /\ Goes(m, "ask") /\ UNCHANGED told
            /\ more' = [more EXCEPT ![m] = IF told = "nothing" THEN @ ELSE @ + 1]
       ELSE /\ Goes(m, "over") /\ told' = Stronger(told, tab[m].word)
            /\ UNCHANGED more
    /\ UNCHANGED <<kept, faults>> /\ Apart

\* a new conversation, the question, the answer; only a verification is met by a
\* reload and another attempt
Ask(m) ==
    /\ tab[m].at = "ask"
    /\ \/ Goes(m, "upload")
       \/ tab[m].attempt < Attempts /\ Becomes(m, [tab[m] EXCEPT !.attempt = @ + 1])
       \/ Rejects(m)
    /\ UNCHANGED <<kept, told, more, faults>> /\ Apart

Upload(m) ==
    /\ tab[m].at = "upload"
    /\ \/ /\ leased
          /\ kept' = IF wish = "cancel" THEN kept ELSE kept \cup {<<m, tab[m].round>>}
          /\ \/ Becomes(m, [tab[m] EXCEPT !.at = "stored", !.word = Word]) /\ UNCHANGED faults
             \/ Fault /\ Rejects(m)
       \/ ~leased /\ Rejects(m) /\ UNCHANGED <<kept, faults>>
       \/ Fault /\ Rejects(m) /\ UNCHANGED kept
    /\ UNCHANGED <<told, more>> /\ Apart
Stored(m) ==
    /\ tab[m].at = "stored"
    /\ told' = Stronger(told, tab[m].word)
    /\ IF tab[m].round = Rounds THEN Goes(m, "over")
       ELSE Becomes(m, [tab[m] EXCEPT !.at = "next", !.round = @ + 1])
    /\ UNCHANGED <<kept, more, faults>> /\ Apart

-----------------------------------------------------------------------------
(* runTask: its end.                                                       *)

ReportCheerful ==
    IF told = "cancel" THEN "cancelled"
    ELSE IF \A m \in Models : tab[m].failed THEN "failed" ELSE "completed"
\* What was told comes before what failed.
Report ==
    IF told = "cancel" THEN "cancelled"
    ELSE IF told = "pause" THEN "paused"
    ELSE IF \E m \in Models : tab[m].failed THEN "failed" ELSE "completed"

Finished(report) ==
    LET said == IF wish = "cancel" THEN "cancelled" ELSE IF wish # "nothing" THEN "paused"
                ELSE report IN
    CASE said = "paused" /\ wish = "preempt" /\ Kind = "paid_monitor" -> "queued"
      [] said = "completed" /\ Kind = "diagnosis" /\ kept # Steps -> "queued"
      [] OTHER -> said

Calls(report) ==
    IF leased THEN status' = Finished(report) /\ wish' = "nothing" /\ leased' = FALSE
    ELSE UNCHANGED <<status, wish, leased>>
Rest ==
    /\ stage' = "awake" /\ tab' = [m \in Models |-> Idle]
    /\ UNCHANGED <<kept, settings, told, history, ends, ops, orders>>
\* finish; if the call fails or the report is of a failure, a failure is reported
\* and nothing more is made of the answer
Finish ==
    /\ stage = "running" /\ \A m \in Models : tab[m].at = "over"
    /\ \/ Calls(Report) /\ Rest /\ UNCHANGED faults
       \/ /\ Report # "failed" /\ Fault
          /\ Calls(Report) \/ UNCHANGED <<status, wish, leased>>
          /\ stage' = "excuse"
          /\ UNCHANGED <<kept, settings, told, tab, history, ends, ops, orders>>
       \/ /\ Report = "failed" /\ Fault /\ Rest /\ UNCHANGED <<status, wish, leased>>
Excuse ==
    /\ stage = "excuse"
    /\ \/ Calls("failed") /\ UNCHANGED faults
       \/ Fault /\ UNCHANGED <<status, wish, leased>>
    /\ Rest

-----------------------------------------------------------------------------
(* The user, the browser, the operators of the task.                       *)

OnlySettings == UNCHANGED <<row, stage, told, tab, more, faults, ends, ops>>
Order(order) ==
    /\ order \in Orders /\ orders < MaxOrders /\ orders' = orders + 1
    /\ wanted' = (order = "start") /\ since' = 0
Start ==
    /\ Order("start")
    /\ config' = TRUE /\ auto' = TRUE /\ on' = "yes"
    /\ OnlySettings
StopForNow ==
    /\ Order("stop")
    /\ on' = "no"
    /\ UNCHANGED <<config, auto>> /\ OnlySettings
Stop ==
    /\ Order("stop")
    /\ auto' = FALSE /\ on' = "no"
    /\ UNCHANGED config /\ OnlySettings
Forget ==
    /\ Order("forget")
    /\ config' = FALSE /\ auto' = FALSE /\ on' = Unset
    /\ OnlySettings

\* The service worker ends; a restarted browser has no session.
End ==
    /\ ends < MaxEnds /\ ends' = ends + 1
    /\ stage' = "asleep" /\ told' = "nothing" /\ leased' = FALSE
    /\ tab' = [m \in Models |-> Idle]
    /\ on' \in {on, Unset}
    /\ UNCHANGED <<status, wish, kept, config, auto, history, faults, ops, orders>>

Asks(asked, new) ==
    /\ ops < MaxOps /\ ops' = ops + 1
    /\ wish' = asked /\ status' = new
    /\ UNCHANGED <<kept, settings, stage, told, tab, history, faults, ends, orders>>
Operator ==
    \/ status = "running" /\ UNCHANGED leased
       /\ \E asked \in {"pause", "cancel"} : Asks(Stronger(wish, asked), "running")
    \/ status = "running" /\ Kind = "paid_monitor" /\ wish # "cancel" /\ UNCHANGED leased
       /\ Asks("preempt", "running")
    \/ status \in {"queued", "paused"} /\ UNCHANGED leased
       /\ \E new \in {"paused", "cancelled"} : Asks("nothing", new)
    \/ status \in {"paused", "failed"} /\ UNCHANGED leased /\ Asks("nothing", "queued")
    \/ status = "running" /\ leased' = FALSE /\ Asks("nothing", Ended)  \* another worker's poll

Model(m) == NextRound(m) \/ Beat(m) \/ Hear(m) \/ Ask(m) \/ Upload(m) \/ Stored(m)
Poll == Wake \/ ReadSession \/ Claim
Next ==
    \/ Poll \/ Finish \/ Excuse
    \/ \E m \in Models : Model(m)
    \/ Start \/ Stop \/ Forget \/ End \/ Operator
Spec == Init /\ [][Next]_extension

-----------------------------------------------------------------------------
Tab == [at : {"idle", "next", "beat", "heard", "ask", "upload", "stored", "over"},
        round : RoundNos, attempt : 1..Attempts, word : Told, failed : BOOLEAN]
TypeOK ==
    /\ status \in {"queued", "running", "completed", "failed", "cancelled", "paused"}
    /\ wish \in Wishes /\ kept \subseteq Steps /\ leased \in BOOLEAN
    /\ {config, auto} \subseteq BOOLEAN /\ on \in {"yes", "no", Unset}
    /\ stage \in {"asleep", "awake", "poll", "ready", "running", "excuse"}
    /\ told \in Told /\ tab \in [Models -> Tab] /\ wanted \in BOOLEAN

(* What the extension reports as completed the server holds entirely, a     *)
(* daily monitor too, though models stop early because another was told to  *)
(* and calls fail on the way there and back.                                *)
CompletedIsWhole == status = "completed" => kept = Steps

(* Once a model was told to pause or to cancel, each other one asks at most *)
(* the question whose heartbeat was on its way.                             *)
StopsSoon == \A m \in Models : more[m] <= 1

(* Stopped or forgotten, the extension claims at most the task that a poll  *)
(* was about to ask for, over restarts of the browser.                      *)
StaysStopped == ~wanted => since <= 1
=============================================================================
