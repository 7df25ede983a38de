--------------------------- MODULE DatabaseStore ---------------------------
(***************************************************************************)
(* The result database of one model: callbacks and mirrored files become   *)
(* monitor_runs and monitor_sources rows; triggers on the source rows keep *)
(* the totals of the dashboard; every commit raises the versions of the    *)
(* scopes it touched, which cached answers are compared with.              *)
(*                                                                         *)
(* One transaction is one step: each takes the model's advisory lock, a    *)
(* row lock or the lock of the totals before it reads what it changes.     *)
(* A source is its canonical URL, and a run lists a URL once.              *)
(***************************************************************************)
EXTENDS Integers, FiniteSets, FiniteSetsExt

CONSTANTS
    Requests,       \* request ids of callbacks; a run is named by its request
    Files,          \* runs mirrored from result files
    Captures,       \* what a callback or a file may hold, see AllCaptures
    Urls, Days,
    MaxWrites       \* bound on the commits

StoreAssumption ==
    /\ IsFiniteSet(Requests) /\ IsFiniteSet(Files) /\ IsFiniteSet(Urls)
    /\ Requests \cap Files = {} /\ Captures \subseteq {"good", "partial", "cut", "empty"}
    /\ "global" \notin Days /\ MaxWrites \in Nat

VARIABLES
    booted,         \* source_stats_initialized
    row,            \* row[r]: the run and its sources
    event,          \* event[q]: "none", "audit" (no run_id) or "stored"
    refs,           \* analytics_source_url_refcounts, 0 without a row
    total, unique,  \* analytics_source_model_stats
    version,        \* analytics_versions, by day and "global"
    voided,         \* history: runs ever invalidated
    writes

stats == <<refs, total, unique>>
store == <<booted, row, event, refs, total, unique, version, voided, writes>>

AllCaptures == {"good", "partial", "cut", "empty"}
Refused == {"cut", "empty"}     \* capture_quarantine_reason
Runs == Requests \cup Files
Scopes == Days \cup {"global"}
NoRun == [there |-> FALSE]
Sources == SUBSET Urls
Reviews == {"none", "ai_pending", "ai_verified"}

Exists(r) == row[r].there
\* status = 'success' and neither capture flag is 'false'; an empty answer has
\* both flags
Complete(run) == run.there /\ run.status = "success" /\ run.capture \in {"good", "empty"}
Valid(r) == Complete(row[r])

\* The rebuilt totals: GROUP BY over the runs that are valid now.
RefsOf(s) == [u \in Urls |-> Cardinality({r \in Runs : Complete(s[r]) /\ u \in s[r].urls})]
\* sum(refs), as the number of what it counts
Total(f) == Cardinality(UNION {{u} \X (1..f[u]) : u \in Urls})
Named(f) == Cardinality({u \in Urls : f[u] > 0})

NotBelow(n) == n
AtLeastZero(n) == IF n < 0 THEN 0 ELSE n

-----------------------------------------------------------------------------
(* The triggers, for all source rows of a run at once.                     *)

UncountAnyRow(r, f) ==
    IF ~Exists(r) THEN f
    ELSE [refs |-> [u \in Urls |-> IF u \in row[r].urls THEN AtLeastZero(f.refs[u] - 1) ELSE f.refs[u]],
          total |-> AtLeastZero(f.total - Cardinality(row[r].urls)),
          unique |-> AtLeastZero(f.unique - Cardinality({u \in row[r].urls : f.refs[u] = 1}))]
\* Before the delete of the rows of r: a row counted when it was inserted.
Uncount(r, f) ==
    IF ~(Exists(r) /\ row[r].counted) THEN f
    ELSE [refs |-> [u \in Urls |-> IF u \in row[r].urls THEN AtLeastZero(f.refs[u] - 1) ELSE f.refs[u]],
          total |-> AtLeastZero(f.total - Cardinality(row[r].urls)),
          unique |-> AtLeastZero(f.unique - Cardinality({u \in row[r].urls : f.refs[u] = 1}))]

\* Before the insert of the rows of a run that is valid.
Count(urls, f) ==
    [refs |-> [u \in Urls |-> IF u \in urls THEN f.refs[u] + 1 ELSE f.refs[u]],
     total |-> f.total + Cardinality(urls),
     unique |-> f.unique + Cardinality({u \in urls : f.refs[u] = 0})]

Totals == [refs |-> refs, total |-> total, unique |-> unique]
SetTotals(f) == refs' = f.refs /\ total' = f.total /\ unique' = f.unique

\* DELETE (cascading to the sources) and INSERT of run r
Rewrite(r, new) ==
    LET gone == Uncount(r, Totals)
    IN  /\ row' = [row EXCEPT ![r] = new]
        /\ SetTotals(IF new.counted THEN Count(new.urls, gone) ELSE gone)

\* _bump_versions of _scope_keys
Bump(days) ==
    version' = [s \in Scopes |-> IF s \in days \cup {"global"} THEN version[s] + 1 ELSE version[s]]

Spend == writes < MaxWrites /\ writes' = writes + 1

-----------------------------------------------------------------------------
NewRun(capture, status, day, urls, seq) ==
    LET run == [there |-> TRUE, status |-> status, capture |-> capture, day |-> day,
                urls |-> urls, counted |-> FALSE, review |-> "ai_pending", seq |-> seq]
    IN  [run EXCEPT !.counted = Complete(run)]

\* The rows of a database older than the totals: production_valid is TRUE of
\* all of them by its default.
Legacy ==
    {NoRun} \cup [there : {TRUE}, status : {"success", "invalid"}, capture : Captures \ Refused,
                  day : Days, urls : {Urls}, counted : {TRUE}, review : {"none"}, seq : {1}]

Init ==
    /\ booted = FALSE
    /\ \E f \in Files, old \in Legacy :
          row = [r \in Runs |-> IF r = f THEN old ELSE NoRun]
    /\ event = [q \in Requests |-> "none"]
    /\ refs = [u \in Urls |-> 0] /\ total = 0 /\ unique = 0
    /\ version = [s \in Scopes |-> 0]
    /\ voided = {} /\ writes = 0

\* ensure_schema, the first time
Bootstrap ==
    /\ ~booted /\ booted' = TRUE
    /\ row' = [r \in Runs |-> IF Exists(r) THEN [row[r] EXCEPT !.counted = Valid(r)] ELSE NoRun]
    /\ refs' = RefsOf(row) /\ total' = Total(refs') /\ unique' = Named(refs')
    /\ UNCHANGED <<event, version, voided, writes>>

\* sequence_no of a callback: that of the run it replaces, or the next one
Last(S) == Max({0} \cup {row[r].seq : r \in S})
SequenceSkips == 1 + Last({r \in Runs : Valid(r)})
NextSequence == 1 + Last({r \in Runs : Exists(r)})
Sequence(q) == IF Exists(q) THEN row[q].seq ELSE NextSequence

DaysOfNew(r, day) == {day}
DaysOf(r, day) == {day} \cup IF Exists(r) THEN {row[r].day} ELSE {}

QuarantineStored(q) ==
    /\ booted /\ Spend
    /\ Captures \cap Refused # {}
    /\ event' = [event EXCEPT ![q] = "audit"]
    /\ UNCHANGED <<booted, row, stats, version, voided>>
\* A refused capture of a request without a run stays an event.
Quarantine(q) ==
    /\ booted /\ Spend
    /\ Captures \cap Refused # {} /\ event[q] # "stored"
    /\ event' = [event EXCEPT ![q] = "audit"]
    /\ UNCHANGED <<booted, row, stats, version, voided>>

\* Any other callback; a repetition may come with a corrected time.
Ingest(q) ==
    /\ booted /\ Spend
    /\ event' = [event EXCEPT ![q] = "stored"]
    /\ \E capture \in Captures, day \in Days, urls \in Sources :
          /\ capture \in Refused => event[q] = "stored"
          /\ Rewrite(q, NewRun(capture, "success", day, urls, Sequence(q)))
          /\ Bump(DaysOf(q, day))
    /\ UNCHANGED <<booted, voided>>

\* sync_incremental: a run of a file is written when its hash is not stored;
\* an empty answer is written as invalid
SyncFile(f) ==
    /\ booted /\ Spend
    /\ \E capture \in Captures, day \in Days, urls \in Sources :
          /\ Exists(f) => day = row[f].day /\ urls # row[f].urls
          /\ Rewrite(f, NewRun(capture, IF capture = "empty" THEN "invalid" ELSE "success",
                               day, urls, 1))
          /\ Bump({day})
    /\ UNCHANGED <<booted, event, voided>>

Update(r, new) ==
    /\ booted /\ Spend /\ Exists(r)
    /\ row' = [row EXCEPT ![r] = new]
    /\ Bump({row[r].day})
    /\ UNCHANGED <<booted, event, stats>>

\* update_product_analysis and reset_product_analysis read the row they change
Review(r) ==
    \E review \in {"ai_pending", "ai_verified"} :
        /\ Update(r, [row[r] EXCEPT !.review = review])
        /\ UNCHANGED voided

\* invalidate_run
Invalidate(r) ==
    /\ Update(r, [row[r] EXCEPT !.status = "invalid"])
    /\ voided' = voided \cup {r}

\* repair_structural_integrity: every empty answer becomes invalid
RepairAnswers ==
    LET empty == {r \in Runs : Exists(r) /\ row[r].status = "success" /\ row[r].capture = "empty"}
    IN  /\ booted /\ Spend /\ empty # {}
        /\ row' = [r \in Runs |-> IF r \in empty THEN [row[r] EXCEPT !.status = "invalid"] ELSE row[r]]
        /\ Bump({row[r].day : r \in empty})
        /\ voided' = voided \cup empty
        /\ UNCHANGED <<booted, event, stats>>

\* repair_source_identities of a day: the aliases of a URL become one row, and
\* the totals are rebuilt
RepairSources(day) ==
    /\ booted /\ Spend
    /\ \E alias, url \in Urls :
          /\ alias # url
          /\ LET hit == {r \in Runs : Exists(r) /\ row[r].day = day /\ alias \in row[r].urls}
             IN  /\ hit # {}
                 /\ row' = [r \in Runs |-> IF r \in hit
                                THEN [row[r] EXCEPT !.urls = (@ \ {alias}) \cup {url}] ELSE row[r]]
    /\ refs' = RefsOf(row') /\ total' = Total(refs') /\ unique' = Named(refs')
    /\ Bump({day})
    /\ UNCHANGED <<booted, event, voided>>

Next ==
    \/ Bootstrap \/ RepairAnswers
    \/ \E q \in Requests : Quarantine(q) \/ Ingest(q)
    \/ \E f \in Files : SyncFile(f)
    \/ \E r \in Runs : Review(r) \/ Invalidate(r)
    \/ \E d \in Days : RepairSources(d)

Spec == Init /\ [][Next]_store

-----------------------------------------------------------------------------
(* Properties.                                                             *)

Row == {NoRun} \cup [there : {TRUE}, status : {"success", "invalid"}, capture : AllCaptures,
                     day : Days, urls : Sources, counted : BOOLEAN, review : Reviews, seq : 1..Cardinality(Runs)]

TypeOK ==
    /\ booted \in BOOLEAN
    /\ \A r \in Runs : row[r] \in Row
    /\ event \in [Requests -> {"none", "audit", "stored"}]
    /\ refs \in [Urls -> Nat] /\ {total, unique} \subseteq Nat
    /\ version \in [Scopes -> Nat]

\* What the pages of the dashboard read: the totals of analytics_source_scope_
\* summary, the source_intersection pages, and the runs of a day.
Summary == [runs |-> Cardinality({r \in Runs : Valid(r)}), sources |-> total, unique |-> unique]
Catalog == {u \in Urls : \E r \in Runs : Exists(r) /\ row[r].counted /\ u \in row[r].urls}
Citations(u) == Cardinality({r \in Runs : Exists(r) /\ row[r].counted /\ u \in row[r].urls})
Shown(d) == {[id |-> r, is |-> row[r]] : r \in {x \in Runs : Exists(x) /\ row[x].day = d}}

\* All pages count the sources of the valid runs: "The maintained model totals
\* are exact for the all-question scope".
Exact ==
    LET rebuilt == RefsOf(row)
    IN  /\ Summary.sources = Total(rebuilt) /\ Summary.unique = Named(rebuilt)
        /\ Catalog = {u \in Urls : rebuilt[u] > 0}
        /\ \A u \in Urls : Citations(u) = rebuilt[u] /\ refs[u] = rebuilt[u]
StatsExact == booted => Exact

\* They do, over every order of callbacks, repetitions, mirrored files and
\* repairs, as long as no stored run was invalidated.
CountedExact == booted /\ voided = {} => Exact

\* An event names a run as long as the run exists: a capture that is refused
\* leaves no row behind, and no row loses the event that proves it.
EventNamesRun == \A q \in Requests : event[q] = "stored" <=> Exists(q)

\* A commit that changes what a day shows raises the version of that day and
\* the global one, the day a run moves away from included.
VersionTellsChange ==
    [][booted => \A d \in Days : Shown(d)' # Shown(d) =>
          version'[d] > version[d] /\ version'["global"] > version["global"]]_store

\* No two callbacks of a model have one sequence number, which orders the answers.
SequencesDistinct ==
    \A r, s \in Requests : Exists(r) /\ Exists(s) /\ row[r].seq = row[s].seq => r = s
=============================================================================
