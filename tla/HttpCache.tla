----------------------------- MODULE HttpCache -----------------------------
(***************************************************************************)
(* JSONResponseCache: an LRU of built responses, one lock per key, a       *)
(* background refresh of stale entries, and a copy in Redis that other     *)
(* processes read and write.                                               *)
(*                                                                         *)
(* Only the comparison of an entry with the clock reaches the code: an     *)
(* entry is fresh, then stale, then gone.  A builder reads the version of  *)
(* the data when it starts, and may fail.                                  *)
(***************************************************************************)
EXTENDS Integers, Sequences, FiniteSets

CONSTANTS
    Keys, Readers,
    MaxEntries,     \* max_entries
    Redis,          \* is a Redis configured?
    MaxVersion      \* bound on the changes of the data

\* The threads and the keys have names of their own.
CacheAssumption ==
    /\ MaxEntries \in Nat \ {0} /\ MaxVersion \in Nat /\ Redis \in BOOLEAN
    /\ Keys # {} /\ Keys \cap Readers = {} /\ "free" \notin Keys \cup Readers

VARIABLES
    source,         \* the version of the data
    entries,        \* _entries, least recently used first
    shared,         \* what Redis holds of each key
    building,       \* _building
    refresh,        \* refresh[k]: the background thread of k
    reader,         \* reader[r]
    lock            \* lock[k]: who holds the lock of k

vars == <<source, entries, shared, building, refresh, reader, lock>>

Versions == 0..MaxVersion
Ages == {"fresh", "stale", "gone"}
Free == "free"
Nobody == [at |-> "idle", version |-> 0]
NoCopy == [version |-> 0, age |-> "gone"]

Init ==
    /\ source = 0
    /\ entries = <<>>
    /\ shared = [k \in Keys |-> NoCopy]
    /\ building = {}
    /\ refresh = [k \in Keys |-> Nobody]
    /\ reader = [r \in Readers |-> [at |-> "idle", key |-> CHOOSE k \in Keys : TRUE, version |-> 0]]
    /\ lock = [k \in Keys |-> Free]

-----------------------------------------------------------------------------
(* _entries.                                                               *)

\* An OrderedDict holds a key once.
Places(list, k) == {i \in DOMAIN list : list[i].key = k}
Without(list, k) ==
    IF Places(list, k) = {} THEN list
    ELSE LET i == CHOOSE j \in Places(list, k) : TRUE IN
         SubSeq(list, 1, i - 1) \o SubSeq(list, i + 1, Len(list))

\* Mutant: one entry too many.
KeptMore(list) == IF Len(list) > MaxEntries + 1 THEN Tail(list) ELSE list

Kept(list) == IF Len(list) > MaxEntries THEN Tail(list) ELSE list

\* _remember
Remembered(k, version, age) ==
    Kept(Append(Without(entries, k), [key |-> k, version |-> version, age |-> age]))

\* What _local finds: nothing, or the entry, which it moves to the end.
Found(k) == {i \in Places(entries, k) : entries[i].age # "gone"}
Touched(k) ==
    IF Found(k) = {} THEN Without(entries, k)
    ELSE LET i == CHOOSE j \in Found(k) : TRUE IN Append(Without(entries, k), entries[i])

Fresh(k) == \E i \in Found(k) : entries[i].age = "fresh"

\* _refresh_in_background
StartRefresh(k) ==
    IF k \in building THEN UNCHANGED <<building, refresh>>
    ELSE /\ building' = building \cup {k}
         /\ refresh' = [refresh EXCEPT ![k] = [at |-> "wait", version |-> 0]]

Become(r, place) == reader' = [reader EXCEPT ![r].at = place]

-----------------------------------------------------------------------------
(* get_or_build.                                                           *)

Get(r, k) ==
    /\ reader[r].at = "idle"
    /\ entries' = Touched(k)
    /\ reader' = [reader EXCEPT ![r] =
                    [@ EXCEPT !.key = k,
                              !.at = IF Found(k) # {} THEN "idle"
                                     ELSE IF Redis THEN "redis" ELSE "wait"]]
    /\ IF Found(k) = {} \/ Fresh(k) THEN UNCHANGED <<building, refresh>> ELSE StartRefresh(k)
    /\ UNCHANGED <<source, shared, lock>>

\* The copy that Redis returned is remembered at a later moment.
RedisGet(r) ==
    /\ reader[r].at = "redis"
    /\ LET copy == shared[reader[r].key] IN
       IF copy.age = "gone" THEN Become(r, "wait")
       ELSE reader' = [reader EXCEPT ![r] =
                         [@ EXCEPT !.at = IF copy.age = "fresh" THEN "keep" ELSE "keep_stale",
                                   !.version = copy.version]]
    /\ UNCHANGED <<source, entries, shared, building, refresh, lock>>

RedisRemember(r) ==
    /\ reader[r].at \in {"keep", "keep_stale"}
    /\ LET k == reader[r].key IN
       IF reader[r].at = "keep"
       THEN /\ entries' = Remembered(k, reader[r].version, "fresh")
            /\ UNCHANGED <<building, refresh>>
       ELSE /\ entries' = Remembered(k, reader[r].version, "stale")
            /\ StartRefresh(k)
    /\ Become(r, "idle")
    /\ UNCHANGED <<source, shared, lock>>

\* Redis does not answer; the entry is built.
RedisFails(r) ==
    /\ reader[r].at = "redis"
    /\ Become(r, "wait")
    /\ UNCHANGED <<source, entries, shared, building, refresh, lock>>

\* Mutant: who waited for the lock builds without looking again.
ReaderLocksBlindly(r) ==
    LET k == reader[r].key IN
    /\ reader[r].at = "wait" /\ lock[k] = Free
    /\ entries' = Touched(k)
    /\ reader' = [reader EXCEPT ![r] = [@ EXCEPT !.at = "build", !.version = source]]
    /\ lock' = [lock EXCEPT ![k] = r]
    /\ UNCHANGED <<source, shared, building, refresh>>

\* With the lock the entry is looked for once more; it may have been built.
ReaderLocks(r) ==
    LET k == reader[r].key IN
    /\ reader[r].at = "wait" /\ lock[k] = Free
    /\ entries' = Touched(k)
    /\ IF Found(k) # {}
       THEN Become(r, "idle") /\ UNCHANGED lock
       ELSE /\ reader' = [reader EXCEPT ![r] = [@ EXCEPT !.at = "build", !.version = source]]
            /\ lock' = [lock EXCEPT ![k] = r]
    /\ UNCHANGED <<source, shared, building, refresh>>

\* _build: remembered, and copied to Redis unless it is too large or fails.
Built(k, version) ==
    /\ entries' = Remembered(k, version, "fresh")
    /\ \/ Redis /\ shared' = [shared EXCEPT ![k] = [version |-> version, age |-> "fresh"]]
       \/ UNCHANGED shared

\* Mutant: a failed build keeps the lock.
ReaderBuildsUnreleased(r) ==
    LET k == reader[r].key IN
    /\ reader[r].at = "build"
    /\ \/ Built(k, reader[r].version) /\ lock' = [lock EXCEPT ![k] = Free]
       \/ UNCHANGED <<entries, shared, lock>>
    /\ Become(r, "idle")
    /\ UNCHANGED <<source, building, refresh>>

ReaderBuilds(r) ==
    LET k == reader[r].key IN
    /\ reader[r].at = "build"
    /\ Built(k, reader[r].version) \/ UNCHANGED <<entries, shared>>
    /\ lock' = [lock EXCEPT ![k] = Free]
    /\ Become(r, "idle")
    /\ UNCHANGED <<source, building, refresh>>

-----------------------------------------------------------------------------
(* The background thread.                                                  *)

\* Mutant: the refresh does not take the lock of the key.
RefreshUnlocked(k) ==
    /\ refresh[k].at = "wait"
    /\ refresh' = [refresh EXCEPT ![k] = [at |-> "build", version |-> source]]
    /\ UNCHANGED <<source, entries, shared, building, reader, lock>>

\* Mutant: the data was read before the wait.
RefreshLocksEarly(k) ==
    /\ refresh[k].at = "wait" /\ lock[k] = Free
    /\ refresh' = [refresh EXCEPT ![k].at = "build"]
    /\ lock' = [lock EXCEPT ![k] = k]
    /\ UNCHANGED <<source, entries, shared, building, reader>>

RefreshLocks(k) ==
    /\ refresh[k].at = "wait" /\ lock[k] = Free
    /\ refresh' = [refresh EXCEPT ![k] = [at |-> "build", version |-> source]]
    /\ lock' = [lock EXCEPT ![k] = k]
    /\ UNCHANGED <<source, entries, shared, building, reader>>

\* Mutant: only a build that succeeds leaves _building.
RefreshBuildsStuck(k) ==
    /\ refresh[k].at = "build"
    /\ \/ Built(k, refresh[k].version) /\ building' = building \ {k}
       \/ UNCHANGED <<entries, shared, building>>
    /\ refresh' = [refresh EXCEPT ![k] = Nobody]
    /\ lock' = [lock EXCEPT ![k] = Free]
    /\ UNCHANGED <<source, reader>>

\* The build ends; the lock is free before the key leaves _building.
RefreshBuilds(k) ==
    /\ refresh[k].at = "build"
    /\ Built(k, refresh[k].version) \/ UNCHANGED <<entries, shared>>
    /\ lock' = [lock EXCEPT ![k] = Free]
    /\ refresh' = [refresh EXCEPT ![k].at = "leave"]
    /\ UNCHANGED <<source, building, reader>>

RefreshLeaves(k) ==
    /\ refresh[k].at = "leave"
    /\ building' = building \ {k}
    /\ refresh' = [refresh EXCEPT ![k] = Nobody]
    /\ UNCHANGED <<source, entries, shared, reader, lock>>

-----------------------------------------------------------------------------
(* Time, the data, and other processes.                                    *)

Older == [fresh |-> "stale", stale |-> "gone", gone |-> "gone"]

Aging ==
    \E i \in DOMAIN entries :
        /\ entries[i].age # "gone"
        /\ entries' = [entries EXCEPT ![i].age = Older[@]]
        /\ UNCHANGED <<source, shared, building, refresh, reader, lock>>

SharedAges ==
    \E k \in Keys :
        /\ shared[k].age # "gone"
        /\ shared' = [shared EXCEPT ![k].age = Older[@]]
        /\ UNCHANGED <<source, entries, building, refresh, reader, lock>>

Change ==
    /\ source < MaxVersion /\ source' = source + 1
    /\ UNCHANGED <<entries, shared, building, refresh, reader, lock>>

\* Another process builds an entry of its own and copies it to Redis.
OtherProcess ==
    /\ Redis
    /\ \E k \in Keys, v \in 0..source :
          shared' = [shared EXCEPT ![k] = [version |-> v, age |-> "fresh"]]
    /\ UNCHANGED <<source, entries, building, refresh, reader, lock>>

Working(r) == RedisGet(r) \/ RedisRemember(r) \/ ReaderLocks(r) \/ ReaderBuilds(r)
Refreshing(k) == RefreshLocks(k) \/ RefreshBuilds(k) \/ RefreshLeaves(k)

Next ==
    \/ \E r \in Readers : Working(r) \/ RedisFails(r) \/ (\E k \in Keys : Get(r, k))
    \/ \E k \in Keys : Refreshing(k)
    \/ Aging \/ SharedAges \/ Change \/ OtherProcess

Spec == Init /\ [][Next]_vars

\* Threads run on and builders return; a lock is handed to a waiting thread
\* again and again.
Fairness ==
    /\ \A r \in Readers : SF_vars(Working(r))
    /\ \A k \in Keys : SF_vars(Refreshing(k))
FairSpec == Spec /\ Fairness

-----------------------------------------------------------------------------
(* Properties.                                                             *)

Entry == [key : Keys, version : Versions, age : Ages]

TypeOK ==
    /\ source \in Versions
    /\ entries \in Seq(Entry) /\ Len(entries) <= MaxEntries
    /\ shared \in [Keys -> [version : Versions, age : Ages]]
    /\ building \subseteq Keys
    /\ refresh \in [Keys -> [at : {"idle", "wait", "build", "leave"}, version : Versions]]
    /\ reader \in [Readers -> [at : {"idle", "redis", "keep", "keep_stale", "wait", "build"},
                               key : Keys, version : Versions]]
    /\ lock \in [Keys -> Keys \cup Readers \cup {Free}]

\* However many readers miss an entry or find it stale, one builds it.
Builders(k) == {r \in Readers : reader[r].at = "build" /\ reader[r].key = k}
               \cup (IF refresh[k].at = "build" THEN {k} ELSE {})
OneBuild == \A k \in Keys : Cardinality(Builders(k)) <= 1

\* In a step a reader begins to build only what nobody built while it waited.
MissesOnly ==
    \A r \in Readers : reader[r].at # "build" /\ reader'[r].at = "build" => Found(reader[r].key) = {}

\* In a step within a process the response of a key never goes back to older data.
NeverOlder ==
    \A k \in Keys : \A i \in DOMAIN entries, j \in DOMAIN entries' :
        entries[i].key = k /\ entries'[j].key = k => entries'[j].version >= entries[i].version

\* Again and again: a request is answered, and a refresh makes room for the next
\* one, whatever builders fail.
Answered(r) == reader[r].at = "idle"
RefreshEnds(k) == k \notin building
=============================================================================
