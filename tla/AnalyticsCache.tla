--------------------------- MODULE AnalyticsCache ---------------------------
(***************************************************************************)
(* The payloads of the analytics pages: kept in memory (least recently     *)
(* built first), in a file per key and in the table analytics_cache, each  *)
(* with the version of the data it was built for, served stale and         *)
(* validated by background threads.                                        *)
(*                                                                         *)
(* A payload is the version of the data it was loaded from.  Every change  *)
(* of the data is in the scope of every key.  The snapshot of all runs is  *)
(* not retained (MONITOR_RETAIN_GLOBAL_SNAPSHOT=0, as deployed).           *)
(***************************************************************************)
EXTENDS Integers, Sequences, FiniteSets

CONSTANTS
    Keys, Requests, Threads,
    MaxEntries,     \* _ANALYTICS_CACHE_MAX
    Database,       \* is PostgreSQL enabled?
    Painted,        \* the keys with a date, or of the view "sources"
    Scoped,         \* the keys loaded by indexed queries
    RequestsFail,   \* may the build of a request fail?
    NewDay,         \* the version whose data has a new day
    MaxVersion      \* bound on the changes of the data

CacheAssumption ==
    /\ IsFiniteSet(Keys) /\ Keys # {} /\ IsFiniteSet(Requests)
    /\ MaxEntries \in Nat \ {0} /\ MaxVersion \in Nat /\ NewDay \in Nat
    /\ Database \in BOOLEAN /\ RequestsFail \in BOOLEAN
    /\ Painted \subseteq Keys /\ Scoped \subseteq Keys /\ (~Database => Scoped = {})

VARIABLES
    data,           \* the version of the data
    memory,         \* _ANALYTICS_CACHE
    building,       \* _ANALYTICS_BUILDING
    recent,         \* keys validated less than an interval ago
    mutex,          \* _ANALYTICS_KEY_LOCKS: the lock object of each key
    disk,           \* the persisted payload of each key
    row,            \* the row of analytics_cache of each key
    job             \* what each request and each background thread does

vars == <<data, memory, building, recent, mutex, disk, row, job>>
stored == <<disk, row>>

Workers == Requests \cup Threads
Absent == -1
Versions == 0..MaxVersion
NoLock == 0
Locks == 1..(Cardinality(Keys) + Cardinality(Requests))
NoRow == [label |-> Absent, payload |-> Absent]
Done(k) == [at |-> "idle", key |-> k, lock |-> NoLock, version |-> Absent, payload |-> Absent]
Idle == Done(CHOOSE k \in Keys : TRUE)

Init ==
    /\ data = 0
    /\ memory = <<>> /\ building = {} /\ recent = {}
    /\ mutex = [k \in Keys |-> NoLock]
    /\ disk = [k \in Keys |-> Absent] /\ row = [k \in Keys |-> NoRow]
    /\ job = [w \in Workers |-> Idle]

-----------------------------------------------------------------------------
(* The cache in memory.                                                    *)

Entries(k) == {i \in DOMAIN memory : memory[i].key = k}
Cached(k) == Entries(k) # {}
Place(k) == CHOOSE i \in Entries(k) : TRUE
Entry(k) == memory[Place(k)]
Labelled(k, version) == Cached(k) /\ Entry(k).label = version

\* _remember_analytics_cache_locked: the oldest key goes, and with it the time
\* of its validation and its lock.  Mutant EvictedLate: one entry too many.
EvictedLate(k) ==
    IF Cached(k) \/ Len(memory) <= MaxEntries THEN {} ELSE {Head(memory).key}

Evicted(k) ==
    IF Cached(k) \/ Len(memory) < MaxEntries THEN {} ELSE {Head(memory).key}

\* What is in memory beside the key.
Left(k) ==
    IF Cached(k) THEN SubSeq(memory, 1, Place(k) - 1) \o SubSeq(memory, Place(k) + 1, Len(memory))
    ELSE IF Evicted(k) # {} THEN Tail(memory) ELSE memory

Remember(k, label, payload) ==
    /\ memory' = Append(Left(k), [key |-> k, label |-> label, payload |-> payload])
    /\ mutex' = [x \in Keys |-> IF x \in Evicted(k) THEN NoLock ELSE mutex[x]]

Kept(k) == recent \ Evicted(k)

\* A background thread starts; its name bound is the set Threads.
Start(jobs, k, place, version) ==
    \E t \in Threads :
        /\ job[t].at = "idle"
        /\ job' = [jobs EXCEPT ![t] = [Done(k) EXCEPT !.at = place, !.version = version]]

\* _schedule_analytics_validation
Schedule(k, jobs, validated) ==
    IF k \in building \cup validated
    THEN job' = jobs /\ recent' = validated /\ UNCHANGED building
    ELSE /\ recent' = validated \cup {k} /\ building' = building \cup {k}
         /\ Start(jobs, k, "validate", Absent)

Answered(w) == [job EXCEPT ![w] = Done(@.key)]
Moved(w, place) == [job EXCEPT ![w].at = place]
AnswerPainted(w, k, payload) ==
    Remember(k, Absent, payload) /\ Schedule(k, Answered(w), Kept(k))

-----------------------------------------------------------------------------
(* A request.                                                              *)

\* _cache_missing_available_day: the files of results show a day that the
\* payload lacks.
Missing(payload) == payload < NewDay /\ NewDay <= data
Shows(k) == Cached(k) /\ ~Missing(Entry(k).payload)
Found(k) == disk[k] # Absent /\ ~Missing(disk[k])

\* The lock of a key is created when it is first asked for.
LockObject(k) ==
    IF mutex[k] # NoLock THEN mutex[k]
    ELSE CHOOSE l \in Locks : \A w \in Workers, x \in Keys : l \notin {mutex[x], job[w].lock}

Get(r, k) ==
    /\ job[r].at = "idle"
    /\ UNCHANGED <<data, memory, stored>>
    /\ \/ /\ Shows(k) /\ Database /\ Labelled(k, data)
          /\ UNCHANGED <<mutex, building, recent, job>>
       \/ /\ Shows(k) /\ ~(Database /\ Labelled(k, data))
          /\ Schedule(k, job, recent)
          /\ UNCHANGED mutex
       \/ /\ ~Shows(k)
          /\ mutex' = [mutex EXCEPT ![k] = LockObject(k)]
          /\ job' = [job EXCEPT ![r] = [Done(k) EXCEPT !.at = "wait", !.lock = LockObject(k)]]
          /\ UNCHANGED <<building, recent>>

Holds(r) == job[r].at \notin {"idle", "wait"}
LockFree(l) == ~ \E r \in Requests : Holds(r) /\ job[r].lock = l

\* The persisted payload is read with the lock of the key.
Enter(r) ==
    /\ job[r].at = "wait" /\ LockFree(job[r].lock)
    /\ LET k == job[r].key IN
       job' = IF Found(k) /\ (Database => k \in Painted)
              THEN [job EXCEPT ![r] = [@ EXCEPT !.at = "paint", !.payload = disk[k]]]
              ELSE Moved(r, IF Database THEN "row" ELSE "check")
    /\ UNCHANGED <<data, memory, building, recent, mutex, stored>>

Paint(r) ==
    /\ job[r].at = "paint"
    /\ AnswerPainted(r, job[r].key, job[r].payload)
    /\ UNCHANGED <<data, stored>>

\* cache_get: the row of the current version, unless the database fails.
GetRow(r) ==
    /\ job[r].at = "row"
    /\ LET k == job[r].key IN
       \/ /\ row[k].label = data
          /\ job' = [job EXCEPT ![r] = [@ EXCEPT !.at = "keep", !.payload = row[k].payload]]
       \/ job' = Moved(r, "check")
    /\ UNCHANGED <<data, memory, building, recent, mutex, stored>>

\* The version the payload is remembered with is read after the row.
KeepRow(r) ==
    /\ job[r].at = "keep"
    /\ LET k == job[r].key IN
       /\ Remember(k, data, job[r].payload)
       /\ recent' = Kept(k) \cup {k}
       /\ building' = building \ {k}
       /\ job' = Answered(r)
    /\ UNCHANGED <<data, stored>>

\* An indexed load goes past the queue of the other builds.
ToBuild(r, k) ==
    [job EXCEPT ![r] = [@ EXCEPT !.at = IF k \in Scoped THEN "load" ELSE "queue", !.version = data]]

\* With the database a payload of another version is built again.
CheckRows(r) ==
    /\ Database /\ job[r].at = "check"
    /\ LET k == job[r].key IN
       IF Labelled(k, data)
       THEN job' = Answered(r) /\ UNCHANGED building
       ELSE job' = ToBuild(r, k) /\ building' = building \cup {k}
    /\ UNCHANGED <<data, memory, recent, mutex, stored>>

\* A payload of another version is served, and refreshed by a thread unless
\* one does so already.
ServeStale(r, k) ==
    /\ Shows(k)
    /\ IF k \in building THEN job' = Answered(r) /\ UNCHANGED building
       ELSE building' = building \cup {k} /\ Start(Answered(r), k, "queue", data)
    /\ UNCHANGED <<memory, mutex, recent>>

\* The same for one found on disk; that a thread refreshes it already does
\* not matter.
ServePersisted(r, k) ==
    /\ ~Cached(k) /\ Found(k)
    /\ Remember(k, Absent, disk[k]) /\ recent' = Kept(k)
    /\ building' = building \cup {k}
    /\ Start(Answered(r), k, "queue", data)

\* A payload that lacks a day is built again; one from disk is remembered
\* until then.
BuildNow(r, k) ==
    /\ ~Shows(k) /\ (Cached(k) \/ ~Found(k))
    /\ IF ~Cached(k) /\ disk[k] # Absent
       THEN Remember(k, Absent, disk[k]) /\ recent' = Kept(k)
       ELSE UNCHANGED <<memory, mutex, recent>>
    /\ building' = building \cup {k}
    /\ job' = ToBuild(r, k)

CheckFiles(r) ==
    /\ ~Database /\ job[r].at = "check"
    /\ LET k == job[r].key IN
       IF Labelled(k, data)
       THEN job' = Answered(r) /\ UNCHANGED <<memory, mutex, recent, building>>
       ELSE ServeStale(r, k) \/ ServePersisted(r, k) \/ BuildNow(r, k)
    /\ UNCHANGED <<data, stored>>

-----------------------------------------------------------------------------
(* A background thread validates the payload it was started for.           *)

Validate(t) ==
    /\ job[t].at = "validate"
    /\ LET k == job[t].key IN
       IF Labelled(k, data)
       THEN /\ building' = building \ {k} /\ recent' = recent \cup {k}
            /\ job' = Answered(t)
       ELSE /\ job' = [job EXCEPT ![t] = [@ EXCEPT !.at = "queue", !.version = data]]
            /\ UNCHANGED <<building, recent>>
    /\ UNCHANGED <<data, memory, mutex, stored>>

-----------------------------------------------------------------------------
(* The build of a payload, by a request or by a thread.                    *)

Building == {"load", "keep_built", "persist", "put"}
Queues(w) == w \in Threads \/ job[w].key \notin Scoped
SemaphoreFree == ~ \E w \in Workers : job[w].at \in Building /\ Queues(w)

TakeSemaphore(w) ==
    /\ job[w].at = "queue" /\ SemaphoreFree
    /\ job' = Moved(w, "load")
    /\ UNCHANGED <<data, memory, building, recent, mutex, stored>>

Load(w) ==
    /\ job[w].at = "load"
    /\ job' = [job EXCEPT ![w] = [@ EXCEPT !.at = "keep_built", !.payload = data]]
    /\ UNCHANGED <<data, memory, building, recent, mutex, stored>>

\* Mutant: a thread that fails stays in _ANALYTICS_BUILDING.
LoadFailsStuck(w) ==
    /\ job[w].at = "load"
    /\ w \in Requests => RequestsFail
    /\ job' = Answered(w)
    /\ UNCHANGED <<data, memory, building, recent, mutex, stored>>

\* A thread that fails lets the next one start; a request only fails.
LoadFails(w) ==
    /\ job[w].at = "load"
    /\ w \in Requests => RequestsFail
    /\ building' = IF w \in Threads THEN building \ {job[w].key} ELSE building
    /\ job' = Answered(w)
    /\ UNCHANGED <<data, memory, recent, mutex, stored>>

\* Mutant: the version is read when the build has ended.
KeepBuiltLate(w) ==
    /\ job[w].at = "keep_built"
    /\ LET k == job[w].key IN
       /\ Remember(k, data, job[w].payload)
       /\ recent' = Kept(k)
       /\ building' = building \ {k}
    /\ job' = Moved(w, "persist")
    /\ UNCHANGED <<data, stored>>

\* Mutant: a thread takes the lock of the key to remember its payload.
KeepBuiltLocked(w) ==
    /\ job[w].at = "keep_built"
    /\ w \in Threads => LockFree(mutex[job[w].key])
    /\ LET k == job[w].key IN
       /\ Remember(k, job[w].version, job[w].payload)
       /\ recent' = Kept(k)
       /\ building' = building \ {k}
    /\ job' = Moved(w, "persist")
    /\ UNCHANGED <<data, stored>>

KeepBuilt(w) ==
    /\ job[w].at = "keep_built"
    /\ LET k == job[w].key IN
       /\ Remember(k, job[w].version, job[w].payload)
       /\ recent' = Kept(k)
       /\ building' = building \ {k}
    /\ job' = Moved(w, "persist")
    /\ UNCHANGED <<data, stored>>

Persist(w) ==
    /\ job[w].at = "persist"
    /\ disk' = [disk EXCEPT ![job[w].key] = job[w].payload]
    /\ job' = Moved(w, "put")
    /\ UNCHANGED <<data, memory, building, recent, mutex, row>>

\* Mutant: the row takes the version of the moment it is written at.
PutAnyway(w) ==
    /\ job[w].at = "put"
    /\ row' = IF Database
              THEN [row EXCEPT ![job[w].key] = [label |-> data, payload |-> job[w].payload]]
              ELSE row
    /\ job' = Answered(w)
    /\ UNCHANGED <<data, memory, building, recent, mutex, disk>>

\* cache_put refuses a payload whose version has passed.
Put(w) ==
    /\ job[w].at = "put"
    /\ row' = IF Database /\ data = job[w].version
              THEN [row EXCEPT ![job[w].key] = [label |-> data, payload |-> job[w].payload]]
              ELSE row
    /\ job' = Answered(w)
    /\ UNCHANGED <<data, memory, building, recent, mutex, disk>>

-----------------------------------------------------------------------------
(* The data, the clock and the process.                                    *)

Change ==
    /\ data < MaxVersion /\ data' = data + 1
    /\ UNCHANGED <<memory, building, recent, mutex, stored, job>>

IntervalPasses(k) ==
    /\ k \in recent /\ recent' = recent \ {k}
    /\ UNCHANGED <<data, memory, building, mutex, stored, job>>

Restart ==
    /\ memory' = <<>> /\ building' = {} /\ recent' = {}
    /\ mutex' = [k \in Keys |-> NoLock]
    /\ job' = [w \in Workers |-> Idle]
    /\ UNCHANGED <<data, stored>>

Requested(r) ==
    Enter(r) \/ Paint(r) \/ GetRow(r) \/ KeepRow(r) \/ CheckRows(r) \/ CheckFiles(r)
Built(w) == TakeSemaphore(w) \/ Load(w) \/ KeepBuilt(w) \/ Persist(w) \/ Put(w)

Next ==
    \/ \E r \in Requests : Requested(r) \/ (\E k \in Keys : Get(r, k))
    \/ \E t \in Threads : Validate(t)
    \/ \E w \in Workers : Built(w) \/ LoadFails(w)
    \/ \E k \in Keys : IntervalPasses(k)
    \/ Change \/ Restart

Spec == Init /\ [][Next]_vars

\* Threads run on, a background load that is tried again and again succeeds, the
\* clock runs, and the open pages poll every few seconds.
Fairness ==
    /\ \A r \in Requests : WF_vars(Requested(r)) /\ WF_vars(Load(r))
    /\ \A t \in Threads : WF_vars(Validate(t)) /\ SF_vars(Load(t))
    /\ \A w \in Workers : WF_vars(TakeSemaphore(w)) /\ WF_vars(KeepBuilt(w))
    /\ \A w \in Workers : WF_vars(Persist(w)) /\ WF_vars(Put(w))
    /\ \A k \in Keys : WF_vars(IntervalPasses(k)) /\ WF_vars(\E r \in Requests : Get(r, k))
FairSpec == Spec /\ Fairness

-----------------------------------------------------------------------------
(* Properties.                                                             *)

Payloads == Versions \cup {Absent}

TypeOK ==
    /\ data \in Versions
    /\ memory \in Seq([key : Keys, label : Payloads, payload : Versions])
    /\ Len(memory) <= MaxEntries
    /\ \A k \in Keys : Cardinality(Entries(k)) <= 1
    /\ building \subseteq Keys /\ recent \subseteq Keys
    /\ mutex \in [Keys -> Locks \cup {NoLock}]
    /\ disk \in [Keys -> Payloads]
    /\ row \in [Keys -> [label : Payloads, payload : Payloads]]
    /\ job \in [Workers ->
         [at : Building \cup {"idle", "wait", "paint", "row", "keep", "check", "queue", "validate"},
          key : Keys, lock : Locks \cup {NoLock}, version : Payloads, payload : Payloads]]

\* A row of analytics_cache holds all the data of the version it is found by,
\* however builds overlap with changes.
RowsTrue == \A k \in Keys : row[k].payload >= row[k].label

\* So does an entry in memory: what is labelled with the current version is
\* served without a validation until the data changes again.
LabelsTrue == \A i \in DOMAIN memory : memory[i].payload >= memory[i].label

\* Requests for one key are collapsed into one aggregation.
OneAggregation ==
    \A k \in Keys :
        Cardinality({r \in Requests : job[r].key = k /\ job[r].at \in Building}) <= 1

\* A request receives the latest completed payload: the one in memory is never
\* replaced by one of older data.
LatestCompleted ==
    [][\A i \in DOMAIN memory, j \in DOMAIN memory' :
          memory[i].key = memory'[j].key => memory'[j].payload >= memory[i].payload]_vars

\* Again and again: a request is answered, whatever it waits for.
EveryAnswer(r) == job[r].at = "idle"

\* Again and again, when pages poll: a payload in memory that lacks data does not
\* stay, it is refreshed or leaves the memory.
Refreshed(k) == ~Cached(k) \/ Entry(k).payload = data
=============================================================================
