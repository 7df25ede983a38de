----------------------------- MODULE MCProgress ------------------------------
(* What must happen in the end, on small instances for TLC: a task is       *)
(* collected, a login gives way to it, every run is reviewed, a dead lock    *)
(* is reaped, the index of pages converges, a batch of questions ends, every *)
(* collection on a host gets its slot, and a pool of fetches and one of      *)
(* requests come to their end. The components share no state, so one state  *)
(* graph holds an instance of each side by side: part says which of them a   *)
(* behaviour belongs to, and fairness is that of its component. The pools,   *)
(* whose bounds are proved for every size, take their sizes as constants.    *)
EXTENDS Integers, Sequences, FiniteSets

CONSTANTS
    Pages, HostOfPage, DynamicPages, Browsers,      \* FetchPool
    Requests, MaxWorkers, MaxPending,               \* RequestPool
    Processes, Collectors, Managed, Apps, Slots,    \* HostResources
    MaxRuns, MaxDeaths

VARIABLES
    part,           \* which instance this behaviour is of; never changes
    \* WorkerRun
    status, flags, stored, erased, holds, spool, torn, run,
    stopped, th, heard, answers, faults, crashes, ops,
    \* LoginQueue
    login, asked, task, at, job, session, issued, lost, exits,
    \* ProductReview
    review, tries, cool, order, calls, place, known, batch,
    left, results, backoff, made, paid, outages,
    \* WriteLock
    lockFile, pc, read, fd, files, counter, number, runs, deaths,
    \* ContentWorker
    found, body, book, mine, worker, singleton, waiting, vocab,
    failed, crashed,
    \* HostResources
    collecting, announced, marker, pid, free, eye, running,
    wrote, hosted, died,
    \* QuarkBatch
    query, again, output, published, stage, errors,
    \* FetchPool
    fetch, page,
    \* RequestPool
    request, slots, active, accepted, rejected, open

\* The runs have different answers.
AnswerOf == [r \in {1, 2} |-> r]

\* Three pages of two models; the first is of today.
OneWorker == {"w1"}
Addresses == {1, 2, 3}
Labels == <<"x", "y">>
LabelOf == <<"x", "y", "x">>
NewToday == {1}

Collect == INSTANCE WorkerRun WITH
    Models <- {"m1"}, Rounds <- 2, Attempts <- 2, Kind <- "diagnosis",
    Stale <- FALSE, MaxAnswers <- 4, MaxFaults <- 1, MaxCrashes <- 1,
    MaxOps <- 0, Ops <- {}
Login == INSTANCE LoginQueue WITH
    Models <- {"deepseek", "kimi", "doubao"}, Direct <- {"deepseek"},
    Shared <- {"kimi"}, Keeps <- TRUE, Requesters <- {"q1"},
    Workers <- {"w1"}, MaxLogins <- 2, MaxTokens <- 5, MaxFaults <- 1,
    MaxCrashes <- 1, faults <- lost, crashes <- exits
Reviews == INSTANCE ProductReview WITH
    Rows <- {1, 2}, AnswerOf <- AnswerOf, Batch <- 1, MaxRetries <- 1,
    Hour <- 2, Limit <- 1, MaxResets <- 2, at <- place, faults <- outages
Lock == INSTANCE WriteLock WITH
    Pids <- {1, 2}, MaxCrashes <- 1, MaxRuns <- 3, crashes <- deaths
Content == INSTANCE ContentWorker WITH
    Workers <- OneWorker, Urls <- Addresses, Models <- Labels,
    ModelOf <- LabelOf, Today <- NewToday, Limit <- 2, MaxVocab <- 1,
    MaxFails <- 1, MaxCrashes <- 1, known <- found
Host == INSTANCE HostResources WITH
    Models <- Collectors, place <- collecting, active <- announced, files <- marker,
    runs <- hosted, deaths <- died
Batch == INSTANCE QuarkBatch WITH
    Rounds <- {1, 2}, Replacements <- 2, MaxFaults <- 1, ticket <- query,
    tries <- again, faults <- errors
Fetches == INSTANCE FetchPool WITH
    Fetches <- Pages, HostOf <- HostOfPage, Dynamic <- DynamicPages
Pool == INSTANCE RequestPool

\* The first two of three pages are of one host.
HostsOfThree == <<"a", "a", "b">>

ASSUME Collect!RoundsAssumption /\ Collect!KindAssumption /\ Collect!BoundsAssumption
ASSUME Login!ModelsAssumption /\ Login!KeepsAssumption /\ Login!BoundsAssumption
ASSUME FetchAssumption == Fetches!PoolAssumption
ASSUME RequestAssumption == Pool!PoolAssumption
ASSUME HostAssumption == Host!HostAssumption

\* The variables of each component.
runVars == <<status, flags, stored, erased, holds, spool, torn, run,
             stopped, th, heard, answers, faults, crashes, ops>>
loginVars == <<login, asked, task, at, job, session, issued, lost, exits>>
reviewVars == <<review, tries, cool, order, calls, place, known, batch,
                left, results, backoff, made, paid, outages>>
lockVars == <<lockFile, pc, read, fd, files, counter, number, runs, deaths>>
contentVars == <<found, body, book, mine, worker, singleton, waiting, vocab,
                 failed, crashed>>
hostVars == <<collecting, announced, marker, pid, free, eye, running, wrote,
              hosted, died>>
batchVars == <<query, again, output, published, stage, errors>>
fetchVars == <<fetch, page>>
poolVars == <<request, slots, active, accepted, rejected, open>>
suiteVars == <<part, runVars, loginVars, reviewVars, lockVars, contentVars, hostVars, batchVars, fetchVars, poolVars>>

SuiteInit ==
    /\ part \in {"collected", "served", "reviewed", "reaped", "labelled",
                "hosted", "polled", "fetched", "answered"}
    /\ Collect!Init
    /\ Login!Init
    /\ Reviews!Init
    /\ Lock!Init
    /\ Content!Init
    /\ Host!Init
    /\ Batch!Init
    /\ Fetches!Init
    /\ Pool!Init
    /\ part # "labelled" => singleton = Content!NoLock

OnlyRun == UNCHANGED <<part, loginVars, reviewVars, lockVars, contentVars,
                    hostVars, batchVars, fetchVars, poolVars>>
OnlyLogin == UNCHANGED <<part, runVars, reviewVars, lockVars, contentVars,
                    hostVars, batchVars, fetchVars, poolVars>>
OnlyReview == UNCHANGED <<part, runVars, loginVars, lockVars, contentVars,
                    hostVars, batchVars, fetchVars, poolVars>>
OnlyLock == UNCHANGED <<part, runVars, loginVars, reviewVars, contentVars,
                    hostVars, batchVars, fetchVars, poolVars>>
OnlyContent == UNCHANGED <<part, runVars, loginVars, reviewVars, lockVars,
                    hostVars, batchVars, fetchVars, poolVars>>
OnlyHost == UNCHANGED <<part, runVars, loginVars, reviewVars, lockVars,
                    contentVars, batchVars, fetchVars, poolVars>>
OnlyBatch == UNCHANGED <<part, runVars, loginVars, reviewVars, lockVars,
                    contentVars, hostVars, fetchVars, poolVars>>
OnlyFetch == UNCHANGED <<part, runVars, loginVars, reviewVars, lockVars,
                    contentVars, hostVars, batchVars, poolVars>>
OnlyPool == UNCHANGED <<part, runVars, loginVars, reviewVars, lockVars,
                    contentVars, hostVars, batchVars, fetchVars>>

CollectStep == part = "collected" /\ Collect!Next /\ OnlyRun
LoginStep == part = "served" /\ Login!Next /\ OnlyLogin
ReviewsStep == part = "reviewed" /\ Reviews!Next /\ OnlyReview
LockStep == part = "reaped" /\ Lock!Next /\ OnlyLock
ContentStep == part = "labelled" /\ Content!Next /\ OnlyContent
HostStep == part = "hosted" /\ Host!Next /\ OnlyHost
BatchStep == part = "polled" /\ Batch!Next /\ OnlyBatch
FetchesStep == part = "fetched" /\ Fetches!Next /\ OnlyFetch
PoolStep == part = "answered" /\ Pool!Next /\ OnlyPool

SuiteNext ==
    \/ CollectStep \/ LoginStep \/ ReviewsStep \/ LockStep \/ ContentStep
    \/ HostStep \/ BatchStep \/ FetchesStep \/ PoolStep

SuiteSpec == SuiteInit /\ [][SuiteNext]_suiteVars

-----------------------------------------------------------------------------
\* Fairness is that of the component a behaviour belongs to.
Collecting == part = "collected"
Serving == part = "served"
Reviewing == part = "reviewed"
Labelling == part = "labelled"
Fairness ==
    /\ WF_runVars(Collecting /\ Collect!Claim) /\ WF_runVars(Collecting /\ Collect!Finish)
    /\ WF_runVars(Collecting /\ Collect!Step("m1"))
    /\ SF_runVars(Collecting /\ Collect!Begin("m1"))
    /\ SF_runVars(Collecting /\ Collect!Capture("m1"))
    /\ WF_runVars(Collecting /\ Collect!BatchReturn("m1"))
    /\ WF_loginVars(Serving /\ Login!Poll("w1")) /\ WF_loginVars(Serving /\ Login!RunLogin("w1"))
    /\ SF_loginVars(Serving /\ Login!Window("w1"))
    /\ \A i \in 1..2 : WF_loginVars(Serving /\ Login!LeasePasses(i))
    /\ WF_reviewVars(Reviewing /\ Reviews!Work) /\ SF_reviewVars(Reviewing /\ Reviews!Tick)
    /\ WF_reviewVars(Reviewing /\ (Reviews!Call \/ Reviews!Outage \/ Reviews!ApplyFails))
    /\ WF_reviewVars(Reviewing /\ Reviews!ProviderBack)
    /\ \A r \in {1, 2} : WF_reviewVars(Reviewing /\ Reviews!Cooled(r))
    /\ \A p \in {1, 2} : WF_lockVars(part = "reaped" /\ Lock!Step(p))
    /\ WF_contentVars(Labelling /\ Content!Runs("w1")) /\ SF_contentVars(Labelling /\ Content!Watch("w1"))
    /\ \A u \in {1, 2, 3} : WF_contentVars(Labelling /\ Content!Arrive(u))
    /\ \A u \in {1, 2, 3} : WF_contentVars(Labelling /\ Content!Elapse(u))
    /\ WF_batchVars(part = "polled" /\ (Batch!Submit \/ Batch!Timeout \/ Batch!Withdraw))
    /\ \A c \in Processes \X Collectors : WF_hostVars(part = "hosted" /\ Host!Step(c))
    /\ \A f \in Pages : WF_fetchVars(part = "fetched" /\ Fetches!Step(f))
    /\ \A r \in Requests : WF_poolVars(part = "answered" /\ Pool!Step(r))
FairSpec == SuiteSpec /\ Fairness

\* Pools keep their bounds and lose nothing of them: one fetch at a time talks to
\* a host, no more pages are rendered than there are browsers, and no slot of the
\* request pool or of the collections of a host is lost, whatever fails and
\* whenever the server closes.
PoolsHold ==
    /\ part = "fetched" => Fetches!TypeOK /\ Fetches!OnePerHost /\ Fetches!BrowsersBounded
    /\ part = "hosted" => Host!TypeOK /\ Host!SlotsCounted
    /\ part = "answered" => Pool!TypeOK /\ Pool!SlotsReturn

\* The work comes to its end. A task nobody stops is collected and does not wait
\* behind logins for ever; a run is reviewed or uses up its attempts; a lock of a
\* dead process is reaped; every page is labelled with the last vocabulary; every
\* collection leaves its host; a batch of questions, and one of fetches, ends and every request is answered, over crashes, failures,
\* outages and lost calls.
WorkEnds ==
    []<>(/\ part = "collected" => Collect!Collected
         /\ part = "served" => Login!TaskServed
         /\ part = "reviewed" => Reviews!Reviewed
         /\ part = "reaped" => Lock!DeadLockGoes
         /\ part = "labelled" => Content!Converges
         /\ part = "hosted" => Host!AllLeft
         /\ part = "polled" => Batch!Collected
         /\ part = "fetched" => Fetches!BatchEnds
         /\ part = "answered" => Pool!AllAnswered)
==============================================================================
