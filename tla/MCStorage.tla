------------------------------ MODULE MCStorage ------------------------------
(* What is written to disk and to the database, on small instances for TLC: *)
(* the local collector's database, the capture archive with its lock and    *)
(* its repair, the content worker's index, report editing, accounts and the *)
(* review of products. They share no state, so one state graph holds an     *)
(* instance of each side by side: part says which of them a behaviour       *)
(* belongs to.                                                              *)
EXTENDS Integers, Sequences

CONSTANTS
    \* DatabaseStore
    Requests, Files, StoredCaptures, SourceUrls, SourceDays, MaxCommits,
    \* WriteLock
    Pids, LockRuns,
    \* DoubaoArchive: a new archive, and one with shared numbers
    Savers, Captures, Recommends, MaxRefs, MaxRuns, MaxCuts,
    LegacySavers, LegacyRuns,
    \* ContentWorker
    Workers, Urls, Models, ModelOf, NewUrls, BatchSize, MaxVocab, MaxFails,
    \* ReportEdit
    Rounds, Texts, Brands, MaxEpoch,
    EditPages, EditNow, MaxEdits,
    VisitPages, Visitors, VisitNow, VisitEdits,
    \* Accounts
    People, Browsers, Forms, OneForm, MaxDay, MaxWrites,
    SessionTasks, SessionLimits, QuotaTasks, QuotaLimits,
    \* ProductReview
    Rows, AnswerOf, ModelBatch, MaxRetries, Hour, HourlyCalls, MaxResets,
    \* processes that die
    MaxCrashes

VARIABLES
    part,           \* which instance this behaviour is of; never changes
    \* DatabaseStore
    booted, row, event, cited, total, unique, version, voided,
    writes,
    \* WriteLock
    lockFile, pc, read, fd, files, counter, number, runs,
    crashes,
    \* DoubaoArchive
    refs, answers, products, counted, reviewed, saver, job,
    torn, cuts,
    \* ContentWorker
    known, body, book, mine, worker, singleton, waiting, vocab,
    failed, crashed,
    \* ReportEdit
    status, brand, policy, result, audits, sharing, now, page,
    visit, origin, epoch,
    \* Accounts
    account, diagnosis, cookie, form, desk, day, updates, cut,
    spent, refund, ceiling,
    \* ProductReview
    review, tries, cool, order, calls, at, knowledge, batch,
    left, results, backoff, made, paid, faults

\* The first and the second run have the same question and answer.
SomeAnswers == <<"a", "a", "b">>

\* A source of each of two models.
TwoModels == <<"x", "y">>

Database == INSTANCE DatabaseStore WITH
    Captures <- StoredCaptures, Urls <- SourceUrls, Days <- SourceDays,
    MaxWrites <- MaxCommits, refs <- cited
Lock == INSTANCE WriteLock WITH MaxRuns <- LockRuns
Archive == INSTANCE DoubaoArchive WITH Legacy <- FALSE
Legacy == INSTANCE DoubaoArchive WITH
    Savers <- LegacySavers, MaxRuns <- LegacyRuns, Legacy <- TRUE
Content == INSTANCE ContentWorker WITH Today <- NewUrls, Limit <- BatchSize
Edit == INSTANCE ReportEdit WITH
    Pages <- EditPages, Visitors <- {}, MaxNow <- EditNow
Visit == INSTANCE ReportEdit WITH
    Pages <- VisitPages, MaxNow <- VisitNow, MaxEdits <- VisitEdits
Sessions == INSTANCE Accounts WITH
    Servers <- {"s1"}, MaxTasks <- SessionTasks, Limits <- SessionLimits,
    writes <- updates
Quota == INSTANCE Accounts WITH
    Forms <- OneForm, Servers <- {"s1"}, MaxTasks <- QuotaTasks,
    Limits <- QuotaLimits, writes <- updates
Reviews == INSTANCE ProductReview WITH
    Batch <- ModelBatch, Limit <- HourlyCalls, known <- knowledge

ASSUME BaseAssumption == Database!StoreAssumption
ASSUME WriterAssumption == Lock!LockAssumption /\ Lock!TwoWriters
ASSUME CaptureAssumption ==
    Archive!ArchiveAssumption /\ Legacy!ArchiveAssumption
ASSUME ContentAssumption == Content!WorkAssumption
ASSUME EditAssumption == Edit!ReportAssumption /\ Visit!ReportAssumption
ASSUME PeopleAssumption == Sessions!AccountAssumption /\ Quota!AccountAssumption
ASSUME RowsAssumption == Reviews!ReviewAssumption

\* The variables of each component.
baseVars == <<booted, row, event, cited, total, unique, version, voided,
              writes>>
lockVars == <<lockFile, pc, read, fd, files, counter, number, runs,
              crashes>>
archiveVars == <<refs, answers, products, counted, reviewed, saver, job,
                 torn, cuts>>
contentVars == <<known, body, book, mine, worker, singleton, waiting, vocab,
                 failed, crashed>>
reportVars == <<status, brand, policy, result, audits, sharing, now, page,
                visit, origin, epoch>>
peopleVars == <<account, diagnosis, cookie, form, desk, day, updates, cut,
                spent, refund, ceiling>>
reviewVars == <<review, tries, cool, order, calls, at, knowledge, batch,
                left, results, backoff, made, paid, faults>>
suiteVars == <<part, baseVars, lockVars, archiveVars, contentVars, reportVars,
               peopleVars, reviewVars>>

SuiteInit ==
    /\ part \in {"database", "lock", "archive", "legacy", "content", "edit",
                "visit", "sessions", "quota", "review"}
    /\ Database!Init
    /\ Lock!Init
    /\ CASE part = "legacy" -> Legacy!Init [] OTHER -> Archive!Init
    /\ Content!Init
    /\ CASE part = "visit" -> Visit!Init [] OTHER -> Edit!Init
    /\ CASE part = "quota" -> Quota!Init [] OTHER -> Sessions!Init
    /\ Reviews!Init
    /\ part # "database" => \A f \in Files : row[f] = Database!NoRun
    /\ part # "content" => singleton = Content!NoLock
    /\ part \notin {"edit", "visit"} =>
          brand = (CHOOSE b \in Brands : TRUE) /\ audits = <<>>

OnlyBase == UNCHANGED <<part, lockVars, archiveVars, contentVars,
                    reportVars, peopleVars, reviewVars>>
OnlyLock == UNCHANGED <<part, baseVars, archiveVars, contentVars,
                    reportVars, peopleVars, reviewVars>>
OnlyArchive == UNCHANGED <<part, baseVars, lockVars, contentVars,
                    reportVars, peopleVars, reviewVars>>
OnlyContent == UNCHANGED <<part, baseVars, lockVars, archiveVars,
                    reportVars, peopleVars, reviewVars>>
OnlyReport == UNCHANGED <<part, baseVars, lockVars, archiveVars,
                    contentVars, peopleVars, reviewVars>>
OnlyPeople == UNCHANGED <<part, baseVars, lockVars, archiveVars,
                    contentVars, reportVars, reviewVars>>
OnlyReview == UNCHANGED <<part, baseVars, lockVars, archiveVars,
                    contentVars, reportVars, peopleVars>>

DatabaseStep == part = "database" /\ Database!Next /\ OnlyBase
LockStep == part = "lock" /\ Lock!Next /\ OnlyLock
ArchiveStep == part = "archive" /\ Archive!Next /\ OnlyArchive
LegacyStep == part = "legacy" /\ Legacy!Next /\ OnlyArchive
ContentStep == part = "content" /\ Content!Next /\ OnlyContent
EditStep == part = "edit" /\ Edit!Next /\ OnlyReport
VisitStep == part = "visit" /\ Visit!Next /\ OnlyReport
SessionsStep == part = "sessions" /\ Sessions!Next /\ OnlyPeople
QuotaStep == part = "quota" /\ Quota!Next /\ OnlyPeople
ReviewsStep == part = "review" /\ Reviews!Next /\ OnlyReview

SuiteNext ==
    \/ DatabaseStep \/ LockStep \/ ArchiveStep \/ LegacyStep
    \/ ContentStep \/ EditStep \/ VisitStep \/ SessionsStep \/ QuotaStep
    \/ ReviewsStep

SuiteSpec == SuiteInit /\ [][SuiteNext]_suiteVars

\* The state of each component has its type.
TypesOK ==
    /\ part = "database" => Database!TypeOK
    /\ part = "lock" => Lock!TypeOK
    /\ part = "archive" => Archive!TypeOK
    /\ part = "legacy" => Legacy!TypeOK
    /\ part = "content" => Content!TypeOK
    /\ part = "edit" => Edit!TypeOK
    /\ part = "visit" => Visit!TypeOK
    /\ part = "sessions" => Sessions!TypeOK
    /\ part = "quota" => Quota!TypeOK
    /\ part = "review" => Reviews!TypeOK

\* The tallies and sequence numbers the database keeps beside the runs are what
\* counting them gives, whatever order callbacks, repetitions, mirrored files and
\* repairs come in; an event names a run as long as the run is there. So is the
\* edit history of a report: no edit is lost from it, although two editors save
\* from pages that are out of date.
TalliesExact ==
    /\ part = "database" =>
          Database!CountedExact /\ Database!EventNamesRun /\ Database!SequencesDistinct
    /\ part \in {"edit", "visit"} => Edit!AuditsChain

\* No two captures share a run: neither number, nor sources, nor answer. Two
\* processes never hold the lock at once, though one dies with it.
RunsApart ==
    /\ part = "lock" => Lock!RunNumbersDistinct
    /\ part = "archive" => Archive!OneSourcedRun /\ Archive!RunsNotShared

\* A verdict has what it rests on. An answer shown as naming no products was
\* reviewed and its products are not missing; a run verified for nothing repeats
\* one that was paid for; a label of a page is backed by an archived body.
VerdictsBacked ==
    /\ part = "archive" => Archive!VerifiedIsShown
    /\ part = "review" => Reviews!ReuseFollowsPaid /\ Reviews!VerifiedIsClean
    /\ part = "content" => Content!LabelsBacked

\* What is limited stays limited: paid calls of an hour over restarts, diagnoses
\* of an account and day, and a session that was cut is never usable again.
LimitsHeld ==
    /\ part = "review" => Reviews!HourlyLimit
    /\ part = "quota" => Quota!QuotaHeld
    /\ part = "sessions" => Sessions!QuotaHeld /\ Sessions!CutStaysOut

\* What was shown or kept can be told from what is shown now. A change of a day
\* raises its version; a revert restores the report before its first edit; a
\* visitor sees no half of a report; the repair of the archive loses no answer,
\* and a fetch no archived page.
HistoryKept ==
    /\ Database!VersionTellsChange
    /\ Edit!RevertRestores /\ [][part = "visit" => \A v \in Visitors : Visit!SeesWhole(v)]_suiteVars
    /\ Legacy!RepairSeparates /\ Content!ArchiveKept
==============================================================================
