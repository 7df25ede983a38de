------------------------------ MODULE MCCaches -------------------------------
(* The caches of the server on small instances for TLC: responses, analytics *)
(* payloads, the statistics of a view, the grouping of sources and the board *)
(* of owned products. The components share no state, so one state graph      *)
(* holds an instance of each side by side: part says which of them a         *)
(* behaviour belongs to, and fairness is that of its component.              *)
EXTENDS Integers, Sequences

CONSTANTS
    Keys, FewKeys,              \* keys of a cache; fewer where readers are many
    Readers, FewReaders,        \* threads of requests
    Validators,             \* background threads of the analytics cache
    MaxEntries, NewDay,
    \* bounds
    MaxVersion, FewVersions, MaxData, MaxRestarts, MaxFails

VARIABLES
    part,           \* which instance this behaviour is of; never changes
    \* HttpCache
    source, entries, shared, waits, fresher, reader, lock,
    \* AnalyticsCache
    data, memory, building, recent, mutex, disk, row, job,
    \* ViewCache
    files, snapshot, stats, view, refreshing, viewer, statsLock,
    temp, saved, restarts,
    \* Intersections
    rows, grouped, rested, grouping, kept, client, refresh,
    restarted,
    \* OwnedBoard
    runs, historical, board, copy, thread, due, boarding, fails

\* A server without Redis and one with it; rows of the database, or files alone.
Http(keys, redis, versions) == INSTANCE HttpCache WITH
    Keys <- keys, Redis <- redis, MaxVersion <- versions,
    building <- waits, refresh <- fresher
Rows(keys, requests, database, failing, versions) == INSTANCE AnalyticsCache WITH
    Keys <- keys, Requests <- requests, Threads <- Validators,
    Database <- database,
    Painted <- IF database THEN keys ELSE {},
    Scoped <- IF database THEN keys ELSE {},
    RequestsFail <- failing, MaxVersion <- versions
View == INSTANCE ViewCache WITH
    Views <- FewKeys, Threads <- Readers, MaxData <- MaxVersion,
    data <- files, thread <- viewer
Group == INSTANCE Intersections WITH
    Clients <- Readers, building <- grouping
Owned == INSTANCE OwnedBoard WITH
    Clients <- Readers, building <- boarding

ASSUME HttpAssumption ==
    /\ Http(Keys, FALSE, FewVersions)!CacheAssumption
    /\ Http(FewKeys, TRUE, FewVersions)!CacheAssumption
ASSUME RowsAssumption ==
    /\ Rows(FewKeys, Readers, TRUE, TRUE, FewVersions)!CacheAssumption
    /\ Rows(Keys, FewReaders, FALSE, TRUE, FewVersions)!CacheAssumption
    /\ Rows(FewKeys, Readers, FALSE, FALSE, MaxVersion)!CacheAssumption
ASSUME BoundsAssumption == MaxVersion \in Nat \ {0} /\ MaxData \in Nat \ {0}

\* The variables of each component.
httpVars == <<source, entries, shared, waits, fresher, reader, lock>>
analyticsVars == <<data, memory, building, recent, mutex, disk, row, job>>
viewVars == <<files, snapshot, stats, view, refreshing, viewer, statsLock,
              temp, saved, restarts>>
groupVars == <<rows, grouped, rested, grouping, kept, client, refresh,
               restarted>>
ownedVars == <<runs, historical, board, copy, thread, due, boarding, fails>>
suiteVars == <<part, httpVars, analyticsVars, viewVars, groupVars, ownedVars>>

SuiteInit ==
    /\ part \in {"memory", "redis", "rows", "files", "polled", "views",
                "groups", "boards"}
    /\ CASE part = "redis" -> Http(FewKeys, TRUE, FewVersions)!Init
         [] OTHER -> Http(Keys, FALSE, FewVersions)!Init
    /\ CASE part = "files" -> Rows(Keys, FewReaders, FALSE, TRUE, FewVersions)!Init
         [] part = "polled" -> Rows(FewKeys, Readers, FALSE, FALSE, MaxVersion)!Init
         [] OTHER -> Rows(FewKeys, Readers, TRUE, TRUE, FewVersions)!Init
    /\ View!Init
    /\ Group!Init
    /\ Owned!Init
    /\ part # "boards" => historical = 0

OnlyHttp == UNCHANGED <<part, analyticsVars, viewVars, groupVars,
                    ownedVars>>
OnlyAnalytics == UNCHANGED <<part, httpVars, viewVars, groupVars,
                    ownedVars>>
OnlyView == UNCHANGED <<part, httpVars, analyticsVars, groupVars,
                    ownedVars>>
OnlyGroup == UNCHANGED <<part, httpVars, analyticsVars, viewVars,
                    ownedVars>>
OnlyOwned == UNCHANGED <<part, httpVars, analyticsVars, viewVars,
                    groupVars>>

LocalStep == part = "memory" /\ Http(Keys, FALSE, FewVersions)!Next /\ OnlyHttp
RemoteStep == part = "redis" /\ Http(FewKeys, TRUE, FewVersions)!Next /\ OnlyHttp
IndexedStep ==
    part = "rows" /\ Rows(FewKeys, Readers, TRUE, TRUE, FewVersions)!Next /\ OnlyAnalytics
PlainStep ==
    part = "files" /\ Rows(Keys, FewReaders, FALSE, TRUE, FewVersions)!Next /\ OnlyAnalytics
PolledStep ==
    part = "polled" /\ Rows(FewKeys, Readers, FALSE, FALSE, MaxVersion)!Next /\ OnlyAnalytics
ViewStep == part = "views" /\ View!Next /\ OnlyView
GroupStep == part = "groups" /\ Group!Next /\ OnlyGroup
OwnedStep == part = "boards" /\ Owned!Next /\ OnlyOwned

SuiteNext ==
    \/ LocalStep \/ RemoteStep \/ IndexedStep \/ PlainStep \/ PolledStep
    \/ ViewStep \/ GroupStep \/ OwnedStep

SuiteSpec == SuiteInit /\ [][SuiteNext]_suiteVars

-----------------------------------------------------------------------------
\* Fairness is that of the component a behaviour belongs to; the instances
\* "memory", "rows" and "files" are for safety.
Answering == part = "redis"
Polling == part = "polled"
Fairness ==
    /\ \A r \in Readers : SF_httpVars(Answering /\ Http(FewKeys, TRUE, FewVersions)!Working(r))
    /\ \A k \in FewKeys : SF_httpVars(Answering /\ Http(FewKeys, TRUE, FewVersions)!Refreshing(k))
    /\ \A r \in Readers :
          /\ WF_analyticsVars(Polling /\ Rows(FewKeys, Readers, FALSE, FALSE, MaxVersion)!Requested(r))
          /\ WF_analyticsVars(Polling /\ Rows(FewKeys, Readers, FALSE, FALSE, MaxVersion)!Load(r))
    /\ \A t \in Validators :
          /\ WF_analyticsVars(Polling /\ Rows(FewKeys, Readers, FALSE, FALSE, MaxVersion)!Validate(t))
          /\ SF_analyticsVars(Polling /\ Rows(FewKeys, Readers, FALSE, FALSE, MaxVersion)!Load(t))
    /\ \A w \in Readers \cup Validators :
          /\ WF_analyticsVars(Polling /\ Rows(FewKeys, Readers, FALSE, FALSE, MaxVersion)!TakeSemaphore(w))
          /\ WF_analyticsVars(Polling /\ Rows(FewKeys, Readers, FALSE, FALSE, MaxVersion)!KeepBuilt(w))
          /\ WF_analyticsVars(Polling /\ Rows(FewKeys, Readers, FALSE, FALSE, MaxVersion)!Persist(w))
          /\ WF_analyticsVars(Polling /\ Rows(FewKeys, Readers, FALSE, FALSE, MaxVersion)!Put(w))
    /\ \A k \in FewKeys :
          /\ WF_analyticsVars(Polling /\ Rows(FewKeys, Readers, FALSE, FALSE, MaxVersion)!IntervalPasses(k))
          /\ WF_analyticsVars(Polling /\ \E r \in Readers : Rows(FewKeys, Readers, FALSE, FALSE, MaxVersion)!Get(r, k))
          /\ WF_viewVars(part = "views" /\ View!PollView(k))
    /\ \A t \in Readers : WF_viewVars(part = "views" /\ View!Work(t))
    /\ WF_groupVars(part = "groups" /\ Group!Asked) /\ WF_groupVars(part = "groups" /\ Group!Work)
    /\ WF_groupVars(part = "groups" /\ Group!FiveMinutes)
    /\ WF_ownedVars(part = "boards" /\ Owned!Interval)
    /\ \A t \in Owned!Threads : WF_ownedVars(part = "boards" /\ Owned!Build(t))
    /\ WF_ownedVars(part = "boards" /\ \E c \in Readers : Owned!Ask(c) /\ due)
FairSpec == SuiteSpec /\ Fairness

\* The state of each component has its type.
TypesOK ==
    /\ part = "memory" => Http(Keys, FALSE, FewVersions)!TypeOK
    /\ part = "redis" => Http(FewKeys, TRUE, FewVersions)!TypeOK
    /\ part = "rows" => Rows(FewKeys, Readers, TRUE, TRUE, FewVersions)!TypeOK
    /\ part = "files" => Rows(Keys, FewReaders, FALSE, TRUE, FewVersions)!TypeOK
    /\ part = "polled" => Rows(FewKeys, Readers, FALSE, FALSE, MaxVersion)!TypeOK
    /\ part = "views" => View!TypeOK
    /\ part = "groups" => Group!TypeOK
    /\ part = "boards" => Owned!TypeOK

\* Nothing is kept as current that lacks data: an analytics payload in memory or
\* in the database, a view, a grouping (until a restart reads its file) and a
\* board hold all the data of the version they are labelled with, however builds
\* overlap with changes, fail, or end out of order.
LabelsTrue ==
    /\ part = "rows" => Rows(FewKeys, Readers, TRUE, TRUE, FewVersions)!RowsTrue
    /\ part = "files" => Rows(Keys, FewReaders, FALSE, TRUE, FewVersions)!LabelsTrue
    /\ part = "polled" => /\ Rows(FewKeys, Readers, FALSE, FALSE, MaxVersion)!LabelsTrue
                          /\ Rows(FewKeys, Readers, FALSE, FALSE, MaxVersion)!RowsTrue
    /\ part = "views" => View!LabelNotAhead /\ View!OneRefresh
    /\ part = "groups" => Group!VersionNotAhead
    /\ part = "boards" => Owned!CopyTrue

\* However many readers miss a response or find it stale, one builds it; a reader
\* builds only what nobody built while it waited, and the response a process
\* holds never goes back to older data.
OneBuildOnward ==
    [][/\ part = "memory" => /\ Http(Keys, FALSE, FewVersions)!OneBuild'
                             /\ Http(Keys, FALSE, FewVersions)!MissesOnly
                             /\ Http(Keys, FALSE, FewVersions)!NeverOlder
       /\ part = "redis" => Http(FewKeys, TRUE, FewVersions)!OneBuild']_suiteVars

\* Every cache catches up. A request is answered and a refresh ends, whatever
\* builders fail; when the data changes no more, what is shown becomes current.
CatchesUp ==
    /\ \A r \in Readers :
          []<>(/\ part = "redis" => Http(FewKeys, TRUE, FewVersions)!Answered(r)
               /\ part = "polled" => Rows(FewKeys, Readers, FALSE, FALSE, MaxVersion)!EveryAnswer(r)
               /\ part = "views" => View!BecomesCurrent
               /\ part = "groups" => Group!ChangeShown
               /\ part = "boards" => Owned!BoardCatchesUp)
    /\ \A k \in FewKeys :
          []<>(/\ part = "redis" => Http(FewKeys, TRUE, FewVersions)!RefreshEnds(k)
               /\ part = "polled" => Rows(FewKeys, Readers, FALSE, FALSE, MaxVersion)!Refreshed(k))
==============================================================================
