------------------------------ MODULE MCWorkers ------------------------------
(* The agents that collect answers, on small instances for TLC: the round   *)
(* loop of the Windows worker, its brakes between questions, its logins,    *)
(* the host it runs on, two of its collectors, the worker of the web        *)
(* models, the Chrome extension, and the jobs a dashboard starts itself.    *)
(* They share no state, so one state graph holds an instance of each side   *)
(* by side: part says which of them a behaviour belongs to.                 *)
EXTENDS Integers

CONSTANTS
    \* WorkerRun: a task, a monitor, a provider that shows old answers
    LoopModels, LoopRounds, LoopAttempts, LoopAnswers, LoopOps,
    MonitorModels, MonitorRounds, MonitorAttempts, MonitorAnswers, MonitorOps,
    StaleRounds, StaleOps,
    \* RateSlot
    Interval, Lease, MaxTime, MaxRestarts,
    \* LoginQueue
    LoginModels, DirectModels, SharedModels, Workers, MaxLogins, MaxTokens,
    \* WebWorker
    Selected, Schedule, Uploads, MaxClaims,
    \* HostResources
    Processes, HostModels, Managed, Apps, HostSlots, MaxRuns, MaxDeaths,
    \* DoubaoBurst, QuarkBatch
    Questions, Chunk, BurstAttempts, MaxTasks, MaxAsked,
    BatchRounds, Replacements, LoneRounds,
    \* ExtensionWorker
    ChromeModels, ChromeRounds, ChromeAttempts, ChromeEnds, ChromeOps,
    BrowserModels, BrowserRounds, BrowserAttempts, BrowserEnds, BrowserOps, MaxOrders,
    \* LocalJob
    PatientStarts, HastyStarts, JobRounds, MaxRecords,
    \* bounds on calls that fail and processes that die
    MaxFaults, MaxCrashes

VARIABLES
    part,           \* which instance this behaviour is of; never changes
    \* WorkerRun
    status, flags, stored, erased, holds, spool, torn, run,
    stopped, th, heard, answers, faults, crashes, ops,
    \* RateSlot
    now, file, place, expires, paused, last, restarts,
    \* LoginQueue
    login, asked, task, at, job, session, issued, lost, exits,
    \* WebWorker
    ticket, uploaded, agent, copies, claims,
    \* HostResources
    collecting, active, marker, pid, free, eye, running, wrote,
    hosted, deaths,
    \* DoubaoBurst
    kind, turn, had, spooled, size, key, kept, where, chunk,
    rows, emitted, round, try, talks,
    \* QuarkBatch
    query, tries, output, published, stage, errors,
    \* ExtensionWorker
    state, wish, server, leased, config, auto, on, phase, told,
    tab, wanted, since, more, misses, ends, requests, orders,
    \* LocalJob
    item, launcher, process, cursor, nextIndex, records, kills

\* Two models, one after the other.
TwoModels == <<"doubao", "wenxin">>

\* Two questions, each asked twice.
TwoQuestions == <<"x", "x", "y", "y">>

RoundLoop == INSTANCE WorkerRun WITH
    Models <- LoopModels, Rounds <- LoopRounds, Attempts <- LoopAttempts,
    Kind <- "diagnosis", Stale <- FALSE, MaxAnswers <- LoopAnswers,
    MaxFaults <- 0, MaxCrashes <- 0, MaxOps <- LoopOps, Ops <- {"pause", "resume", "delete", "cancel", "reap"}
MonitorLoop == INSTANCE WorkerRun WITH
    Models <- MonitorModels, Rounds <- MonitorRounds, Attempts <- MonitorAttempts,
    Kind <- "paid_monitor", Stale <- FALSE, MaxAnswers <- MonitorAnswers,
    MaxOps <- MonitorOps,
    Ops <- {"pause", "preempt", "resume", "reap"}
StaleLoop == INSTANCE WorkerRun WITH
    Models <- LoopModels, Rounds <- StaleRounds, Attempts <- LoopAttempts,
    Kind <- "diagnosis", Stale <- TRUE, MaxAnswers <- LoopAnswers,
    MaxFaults <- 0, MaxCrashes <- 0, MaxOps <- StaleOps, Ops <- {"pause", "resume", "delete"}
Deepseek == INSTANCE RateSlot WITH
    Provider <- "deepseek", MaxCrashes <- MaxRestarts, at <- place, crashes <- restarts
Quark == INSTANCE RateSlot WITH
    Provider <- "quark", MaxCrashes <- 0, at <- place, crashes <- restarts
Login == INSTANCE LoginQueue WITH
    Models <- LoginModels, Direct <- DirectModels, Shared <- SharedModels,
    Keeps <- TRUE, Requesters <- {"q1"}, faults <- lost, crashes <- exits
Web == INSTANCE WebWorker WITH
    Attempts <- LoopAttempts, stored <- uploaded
Host == INSTANCE HostResources WITH
    Models <- HostModels, Slots <- HostSlots,
    place <- collecting, files <- marker, runs <- hosted
Burst == INSTANCE DoubaoBurst WITH
    Schedule <- Questions, Attempts <- BurstAttempts,
    task <- turn, stored <- had, at <- where, asked <- talks
Batch == INSTANCE QuarkBatch WITH
    Rounds <- BatchRounds, ticket <- query, faults <- errors
Single == INSTANCE QuarkBatch WITH
    Rounds <- LoneRounds, Replacements <- 0, ticket <- query,
    faults <- errors
Chrome == INSTANCE ExtensionWorker WITH
    Models <- ChromeModels, Rounds <- ChromeRounds, Attempts <- ChromeAttempts,
    Kind <- "paid_monitor", MaxEnds <- ChromeEnds, MaxOps <- ChromeOps,
    Orders <- {}, MaxOrders <- 0, status <- state, kept <- server,
    stage <- phase, faults <- misses, ops <- requests
Browser == INSTANCE ExtensionWorker WITH
    Models <- BrowserModels, Rounds <- BrowserRounds,
    Attempts <- BrowserAttempts, Kind <- "diagnosis",
    MaxFaults <- 0, MaxEnds <- BrowserEnds, MaxOps <- BrowserOps,
    Orders <- {"start", "stop", "forget"},
    status <- state, kept <- server, stage <- phase, faults <- misses,
    ops <- requests
PatientJob == INSTANCE LocalJob WITH
    Starts <- PatientStarts, Rounds <- JobRounds, Patient <- TRUE
HastyJob == INSTANCE LocalJob WITH
    Starts <- HastyStarts, Rounds <- JobRounds, Patient <- FALSE

ASSUME LoopAssumption ==
    /\ RoundLoop!RoundsAssumption /\ RoundLoop!BoundsAssumption /\ RoundLoop!OpsAssumption
    /\ MonitorLoop!RoundsAssumption /\ MonitorLoop!BoundsAssumption /\ MonitorLoop!OpsAssumption
    /\ StaleLoop!RoundsAssumption /\ StaleLoop!BoundsAssumption /\ StaleLoop!OpsAssumption
    /\ RoundLoop!KindAssumption /\ MonitorLoop!KindAssumption /\ StaleLoop!KindAssumption
ASSUME SlotAssumption ==
    /\ Deepseek!ProviderAssumption /\ Deepseek!TimeAssumption
    /\ Quark!ProviderAssumption /\ Quark!TimeAssumption
ASSUME LoginAssumption ==
    Login!ModelsAssumption /\ Login!KeepsAssumption /\ Login!BoundsAssumption
ASSUME WebAssumption == Web!WorkAssumption
ASSUME HostAssumption == Host!HostAssumption
ASSUME CollectorAssumption ==
    Burst!BurstAssumption /\ Batch!BatchAssumption /\ Single!BatchAssumption
ASSUME ChromeAssumption == Chrome!ExtensionAssumption /\ Browser!ExtensionAssumption
ASSUME JobAssumption == PatientJob!JobAssumption /\ HastyJob!JobAssumption

\* The variables of each component.
runVars == <<status, flags, stored, erased, holds, spool, torn, run,
             stopped, th, heard, answers, faults, crashes, ops>>
slotVars == <<now, file, place, expires, paused, last, restarts>>
loginVars == <<login, asked, task, at, job, session, issued, lost, exits>>
webVars == <<ticket, uploaded, agent, copies, claims>>
hostVars == <<collecting, active, marker, pid, free, eye, running, wrote,
              hosted, deaths>>
burstVars == <<kind, turn, had, spooled, size, key, kept, where, chunk,
               rows, emitted, round, try, talks>>
batchVars == <<query, tries, output, published, stage, errors>>
chromeVars == <<state, wish, server, leased, config, auto, on, phase, told,
                tab, wanted, since, more, misses, ends, requests, orders>>
localVars == <<item, launcher, process, cursor, nextIndex, records, kills>>
suiteVars == <<part, runVars, slotVars, loginVars, webVars, hostVars, burstVars, batchVars, chromeVars, localVars>>

SuiteInit ==
    /\ part \in {"rounds", "monitor", "stale", "deepseek", "quark", "login",
                "web", "host", "burst", "batch", "single", "chrome",
                "browser", "patient", "hasty"}
    /\ CASE part = "monitor" -> MonitorLoop!Init
         [] part = "stale" -> StaleLoop!Init
         [] OTHER -> RoundLoop!Init
    /\ CASE part = "quark" -> Quark!Init [] OTHER -> Deepseek!Init
    /\ Login!Init
    /\ Web!Init
    /\ Host!Init
    /\ Burst!Init
    /\ CASE part = "single" -> Single!Init [] OTHER -> Batch!Init
    /\ CASE part = "browser" -> Browser!Init [] OTHER -> Chrome!Init
    /\ CASE part = "hasty" -> HastyJob!Init [] OTHER -> PatientJob!Init

OnlyRun == UNCHANGED <<part, slotVars, loginVars, webVars, hostVars,
                    burstVars, batchVars, chromeVars, localVars>>
OnlySlot == UNCHANGED <<part, runVars, loginVars, webVars, hostVars,
                    burstVars, batchVars, chromeVars, localVars>>
OnlyLogin == UNCHANGED <<part, runVars, slotVars, webVars, hostVars,
                    burstVars, batchVars, chromeVars, localVars>>
OnlyWeb == UNCHANGED <<part, runVars, slotVars, loginVars, hostVars,
                    burstVars, batchVars, chromeVars, localVars>>
OnlyHost == UNCHANGED <<part, runVars, slotVars, loginVars, webVars,
                    burstVars, batchVars, chromeVars, localVars>>
OnlyBurst == UNCHANGED <<part, runVars, slotVars, loginVars, webVars,
                    hostVars, batchVars, chromeVars, localVars>>
OnlyBatch == UNCHANGED <<part, runVars, slotVars, loginVars, webVars,
                    hostVars, burstVars, chromeVars, localVars>>
OnlyChrome == UNCHANGED <<part, runVars, slotVars, loginVars, webVars,
                    hostVars, burstVars, batchVars, localVars>>
OnlyLocal == UNCHANGED <<part, runVars, slotVars, loginVars, webVars,
                    hostVars, burstVars, batchVars, chromeVars>>

RoundLoopStep == part = "rounds" /\ RoundLoop!Next /\ OnlyRun
MonitorLoopStep == part = "monitor" /\ MonitorLoop!Next /\ OnlyRun
StaleLoopStep == part = "stale" /\ StaleLoop!Next /\ OnlyRun
DeepseekStep == part = "deepseek" /\ Deepseek!Next /\ OnlySlot
QuarkStep == part = "quark" /\ Quark!Next /\ OnlySlot
LoginStep == part = "login" /\ Login!Next /\ OnlyLogin
WebStep == part = "web" /\ Web!Next /\ OnlyWeb
HostStep == part = "host" /\ Host!Next /\ OnlyHost
BurstStep == part = "burst" /\ Burst!Next /\ OnlyBurst
BatchStep == part = "batch" /\ Batch!Next /\ OnlyBatch
SingleStep == part = "single" /\ Single!Next /\ OnlyBatch
ChromeStep == part = "chrome" /\ Chrome!Next /\ OnlyChrome
BrowserStep == part = "browser" /\ Browser!Next /\ OnlyChrome
PatientJobStep == part = "patient" /\ PatientJob!Next /\ OnlyLocal
HastyJobStep == part = "hasty" /\ HastyJob!Next /\ OnlyLocal

SuiteNext ==
    \/ RoundLoopStep \/ MonitorLoopStep \/ StaleLoopStep \/ DeepseekStep
    \/ QuarkStep \/ LoginStep \/ WebStep \/ HostStep \/ BurstStep
    \/ BatchStep \/ SingleStep \/ ChromeStep \/ BrowserStep
    \/ PatientJobStep \/ HastyJobStep

SuiteSpec == SuiteInit /\ [][SuiteNext]_suiteVars

\* The state of each component has its type.
TypesOK ==
    /\ part = "rounds" => RoundLoop!TypeOK
    /\ part = "monitor" => MonitorLoop!TypeOK
    /\ part = "stale" => StaleLoop!TypeOK
    /\ part = "deepseek" => Deepseek!TypeOK
    /\ part = "quark" => Quark!TypeOK
    /\ part = "login" => Login!TypeOK
    /\ part = "web" => Web!TypeOK
    /\ part = "host" => Host!TypeOK
    /\ part = "burst" => Burst!TypeOK
    /\ part = "batch" => Batch!TypeOK
    /\ part = "single" => Single!TypeOK
    /\ part = "chrome" => Chrome!TypeOK
    /\ part = "browser" => Browser!TypeOK
    /\ part = "patient" => PatientJob!TypeOK
    /\ part = "hasty" => HastyJob!TypeOK

\* An answer an operator deleted is collected anew, however the task is paused,
\* reaped, resumed and cleared around it: the worker does not upload the copy
\* it has in its spool once more.
DeletedStaysDeleted == part = "rounds" => RoundLoop!DeletedStaysDeleted

\* What a worker reports as completed the server holds entirely, though calls
\* fail, workers restart and leases end: the Windows worker for a daily monitor,
\* whose report the server does not check, the worker of the web models, and
\* the extension.
CompletedIsWhole ==
    /\ part = "monitor" => MonitorLoop!CompletedIsWhole
    /\ part = "web" => Web!CompletedIsWhole
    /\ part = "chrome" => Chrome!CompletedIsWhole
    /\ part = "browser" => Browser!CompletedIsWhole

\* One question is one observation. Two rounds are not two copies of an old
\* conversation; the answer of a round was given to its question, though one
\* collector serves task after task and keeps answers; a batch of questions is
\* published round by round, each once; the web worker keeps an answer once in
\* each claim; the local collector asks again only when it was stopped, and
\* skips no round then.
AskedOnce ==
    /\ part = "stale" => StaleLoop!NoCaptureTwice
    /\ part = "burst" => Burst!AnswersBelong
    /\ part = "batch" => Batch!EachRoundOnce
    /\ part = "web" => Web!OneCopyPerClaim
    /\ part = "patient" => PatientJob!OneObservation
    /\ part = "hasty" => HastyJob!NoRoundLost

\* A worker that waits still does what it has to: it ends the wait when it is
\* asked to pause and renews the lease of its task. What it leaves leaves no
\* question behind. The extension asks at most what was on its way when it was
\* told to stop, and claims nothing more when its user stopped it. A local job
\* that was stopped has no process left, and one that runs has one.
StopsHeeded ==
    /\ part = "deepseek" => Deepseek!PauseHeeded /\ Deepseek!LeaseKept
    /\ part = "batch" => Batch!NothingLeft
    /\ part = "single" => Single!NothingLeft
    /\ part = "chrome" => Chrome!StopsSoon
    /\ part = "browser" => Browser!StaysStopped
    /\ part = "patient" => PatientJob!StopStops /\ PatientJob!OneProcess

\* What one party holds another does not take: a model has one open login at a
\* time, and a login that is "ready" left a session on the worker that reported
\* it, over lost reports and restarts; no browser or app is closed that anybody
\* had announced a collection with when the supervisor looked.
HoldsRespected ==
    /\ part = "login" => Login!OneOpenPerModel /\ Login!ReadyHasSession
    /\ part = "host" => Host!OnlyIdleClosed /\ Host!SlotsCounted

\* Questions of one provider keep their distance, over restarts of the worker
\* (DeepSeek) and after every answer that said the model was busy (Quark).
AttemptsSpaced == Deepseek!AttemptsSpaced /\ Quark!AttemptsSpaced

\* An end stands. The task of a worker goes from state to state as the server
\* allows it, never out of its end; a repeated or late report changes neither
\* a task of the web models nor a login that ended.
EndsStand == RoundLoop!ImplementsLife /\ Login!EndStands /\ Web!EndsStand
==============================================================================
