------------------------------ MODULE ViewCache -----------------------------
(***************************************************************************)
(* The rendered statistics of the dashboard.  A view is labelled with a    *)
(* signature of the files, read before they are loaded; a request answers  *)
(* from the last view and starts one refresh when it is older than the TTL *)
(* or than the files; every stored view is also written, through one       *)
(* temporary file, to a file that a restart loads.                         *)
(***************************************************************************)
EXTENDS Integers, FiniteSets

CONSTANTS
    Views,          \* a question and a device
    Threads,        \* request and refresh threads
    MaxData,        \* bound on the changes of the files
    MaxRestarts     \* bound

VARIABLES
    data,           \* the version of the files; their signature
    snapshot,       \* _DATA_SNAPSHOT: the signature it was loaded under, and its data
    stats,          \* _STATS_CACHE: the last result of each view
    view,           \* _VIEW_CACHE: result and whether it is within the TTL
    refreshing,     \* _VIEW_REFRESHING
    thread,         \* what a thread does, for which view
    statsLock,      \* the thread that holds _STATS_LOCK, or Nobody
    temp,           \* VIEW_CACHE_PATH + ".tmp"
    saved,          \* VIEW_CACHE_PATH
    restarts

viewCache == <<data, snapshot, stats, view, refreshing, thread, statsLock, temp, saved, restarts>>

Nobody == "nobody"
NoFile == [state |-> "none"]
NoResult == [label |-> 0, data |-> 0]
Idle == [pc |-> "idle"]
NoView == [fresh |-> FALSE, result |-> NoResult]

Init ==
    /\ data = 1 /\ snapshot = NoResult
    /\ stats = [v \in Views |-> NoResult] /\ view = [v \in Views |-> NoView]
    /\ refreshing = {} /\ thread = [t \in Threads |-> Idle] /\ statsLock = Nobody
    /\ temp = NoFile /\ saved = NoFile /\ restarts = 0

Go(t, state) == thread' = [thread EXCEPT ![t] = state]
Begin(v, refresh) == [pc |-> "start", view |-> v, refresh |-> refresh]

-----------------------------------------------------------------------------
(* What starts a computation.                                              *)

StartAnother(t, v) ==
    /\ refreshing' = refreshing \cup {v}
    /\ Go(t, Begin(v, TRUE))
\* build_stats with no view: the request computes it; else it answers at once,
\* and starts a refresh of an expired one.
StartRefresh(t, v) ==
    /\ v \notin refreshing
    /\ refreshing' = refreshing \cup {v}
    /\ Go(t, Begin(v, TRUE))
Request(t, v) ==
    /\ thread[t] = Idle
    /\ \/ /\ view[v] = NoView
          /\ Go(t, Begin(v, FALSE)) /\ UNCHANGED refreshing
       \/ /\ view[v] # NoView /\ ~view[v].fresh
          /\ StartRefresh(t, v)
    /\ UNCHANGED <<data, snapshot, stats, view, statsLock, temp, saved, restarts>>

\* stats_version: the page polls it
Poll(t, v) ==
    /\ thread[t] = Idle
    /\ view[v].result.label # data
    /\ StartRefresh(t, v)
    /\ UNCHANGED <<data, snapshot, stats, view, statsLock, temp, saved, restarts>>

\* prewarm_question_views, once after a start: the views that are not there
Prewarm(t, v) ==
    /\ thread[t] = Idle /\ view[v] = NoView
    /\ Go(t, Begin(v, FALSE))
    /\ UNCHANGED <<data, snapshot, stats, view, refreshing, statsLock, temp, saved, restarts>>

-----------------------------------------------------------------------------
(* _compute_stats and _load_data_snapshot.                                 *)

ReadSignature(t) ==
    /\ thread[t].pc = "start"
    /\ LET v == thread[t].view IN
       IF stats[v].label = data
       THEN Go(t, [pc |-> "store", view |-> v, refresh |-> thread[t].refresh, result |-> stats[v]])
       ELSE Go(t, [pc |-> "lock", view |-> v, refresh |-> thread[t].refresh, label |-> data])
    /\ UNCHANGED <<data, snapshot, stats, view, refreshing, statsLock, temp, saved, restarts>>

Lock(t) ==
    /\ thread[t].pc = "lock" /\ statsLock = Nobody
    /\ LET v == thread[t].view IN
       IF stats[v].label = thread[t].label
       THEN /\ Go(t, [pc |-> "store", view |-> v, refresh |-> thread[t].refresh, result |-> stats[v]])
            /\ UNCHANGED statsLock
       ELSE /\ Go(t, [pc |-> "load", view |-> v, refresh |-> thread[t].refresh,
                      label |-> thread[t].label, raw |-> data])
            /\ statsLock' = t
    /\ UNCHANGED <<data, snapshot, stats, view, refreshing, temp, saved, restarts>>

\* The files are read after their signature; an unchanged one answers from memory.
Loaded(t) == IF snapshot.label = thread[t].raw THEN snapshot
             ELSE [label |-> thread[t].raw, data |-> data]
Load(t) ==
    /\ thread[t].pc = "load"
    /\ snapshot' = Loaded(t)
    /\ LET v == thread[t].view
           result == [label |-> thread[t].label, data |-> snapshot'.data]
       IN /\ stats' = [stats EXCEPT ![v] = result]
          /\ Go(t, [pc |-> "store", view |-> v, refresh |-> thread[t].refresh, result |-> result])
    /\ statsLock' = Nobody
    /\ UNCHANGED <<data, view, refreshing, temp, saved, restarts>>

EndsQuietly(t) == Go(t, Idle) /\ UNCHANGED refreshing
Ends(t) ==
    /\ Go(t, Idle)
    /\ refreshing' = IF thread[t].refresh THEN refreshing \ {thread[t].view} ELSE refreshing

\* an error of the computation ends the thread; finally, the refresh is over
Fail(t) ==
    /\ thread[t].pc = "load" /\ restarts < MaxRestarts
    /\ statsLock' = Nobody /\ Ends(t)
    /\ restarts' = restarts + 1
    /\ UNCHANGED <<data, snapshot, stats, view, temp, saved>>

-----------------------------------------------------------------------------
(* The view is stored, and all of them are written out.                    *)

Store(t) ==
    /\ thread[t].pc = "store"
    /\ view' = [view EXCEPT ![thread[t].view] = [fresh |-> TRUE, result |-> thread[t].result]]
    /\ Go(t, [pc |-> "open", view |-> thread[t].view, refresh |-> thread[t].refresh])
    /\ UNCHANGED <<data, snapshot, stats, refreshing, statsLock, temp, saved, restarts>>

Results == [v \in Views |-> view[v].result]

\* open(temp, "w") empties the file of whoever still writes it
Open(t) ==
    /\ thread[t].pc = "open"
    /\ temp' = [state |-> "part", views |-> Results,
                open |-> {t} \cup (IF temp = NoFile THEN {} ELSE temp.open)]
    /\ Go(t, [thread[t] EXCEPT !.pc = "write"])
    /\ UNCHANGED <<data, snapshot, stats, view, refreshing, statsLock, saved, restarts>>

Written(t, file) ==
    IF file = NoFile \/ t \notin file.open THEN file
    ELSE [file EXCEPT !.open = @ \ {t},
                      !.state = IF file.open = {t} /\ @ = "part" THEN "whole" ELSE "mixed"]
Write(t) ==
    /\ thread[t].pc = "write"
    /\ temp' = Written(t, temp) /\ saved' = Written(t, saved)
    /\ Go(t, [thread[t] EXCEPT !.pc = "replace"])
    /\ UNCHANGED <<data, snapshot, stats, view, refreshing, statsLock, restarts>>

\* os.replace moves whatever the name holds; an OSError is ignored
Replace(t) ==
    /\ thread[t].pc = "replace"
    /\ saved' = IF temp = NoFile THEN saved ELSE temp
    /\ temp' = NoFile
    /\ Ends(t)
    /\ UNCHANGED <<data, snapshot, stats, view, statsLock, restarts>>

-----------------------------------------------------------------------------
(* Files change, views expire, the server restarts.                        *)

Change ==
    /\ data < MaxData /\ data' = data + 1
    /\ UNCHANGED <<snapshot, stats, view, refreshing, thread, statsLock, temp, saved, restarts>>
Expire(v) ==
    /\ view[v].fresh /\ view' = [view EXCEPT ![v].fresh = FALSE]
    /\ UNCHANGED <<data, snapshot, stats, refreshing, thread, statsLock, temp, saved, restarts>>

RestoredAsCurrent(v) ==
    IF saved.state # "whole" \/ saved.views[v] = NoResult THEN NoView
    ELSE [fresh |-> TRUE, result |-> [saved.views[v] EXCEPT !.label = data]]
\* _load_persisted_view_cache; a file that is no JSON document restores nothing
Restored(v) ==
    IF saved.state # "whole" \/ saved.views[v] = NoResult THEN NoView
    ELSE [fresh |-> saved.views[v].label = data, result |-> saved.views[v]]
Restart ==
    /\ restarts < MaxRestarts /\ restarts' = restarts + 1
    /\ snapshot' = NoResult /\ stats' = [v \in Views |-> NoResult]
    /\ view' = [v \in Views |-> IF saved = NoFile THEN NoView ELSE Restored(v)]
    /\ refreshing' = {} /\ thread' = [t \in Threads |-> Idle] /\ statsLock' = Nobody
    /\ temp' = IF temp = NoFile THEN NoFile
               ELSE [temp EXCEPT !.open = {}, !.state = IF temp.open = {} THEN @ ELSE "mixed"]
    /\ saved' = IF saved = NoFile THEN NoFile
                ELSE [saved EXCEPT !.open = {}, !.state = IF saved.open = {} THEN @ ELSE "mixed"]
    /\ UNCHANGED data

Work(t) ==
    ReadSignature(t) \/ Lock(t) \/ Load(t) \/ Store(t) \/ Open(t) \/ Write(t) \/ Replace(t)

Next ==
    \/ \E t \in Threads : Work(t) \/ Fail(t) \/ \E v \in Views :
          Request(t, v) \/ Poll(t, v) \/ Prewarm(t, v)
    \/ \E v \in Views : Expire(v)
    \/ Change \/ Restart

Spec == Init /\ [][Next]_viewCache

\* Threads run; every open page polls.
PollView(v) == \E t \in Threads : Poll(t, v) \/ Request(t, v)
FairSpec ==
    /\ Spec
    /\ \A t \in Threads : WF_viewCache(Work(t))
    /\ \A v \in Views : WF_viewCache(PollView(v))

-----------------------------------------------------------------------------
(* Properties.                                                             *)

Result == [label : 0..MaxData, data : 0..MaxData]
TypeOK ==
    /\ stats \in [Views -> Result] /\ view \in [Views -> [fresh : BOOLEAN, result : Result]]
    /\ refreshing \subseteq Views /\ statsLock \in Threads \cup {Nobody}
    /\ \A f \in {temp, saved} : f.state \in {"none", "part", "whole", "mixed"}

\* A view never shows files older than its label says, so that a label equal to
\* the current signature means a current view: in memory, or after a restart.
LabelNotAhead ==
    /\ \A v \in Views : view[v].result.label <= view[v].result.data
    /\ \A v \in Views : stats[v].label <= stats[v].data
    /\ snapshot.label <= snapshot.data

Refreshes(t, v) == thread[t] # Idle /\ thread[t].refresh /\ thread[t].view = v

\* A view is refreshed by one thread at a time.
OneRefresh ==
    \A v \in Views : Cardinality({t \in Threads : Refreshes(t, v)}) <= 1

\* In the end, when the files change no more: every view is current, whatever
\* restarts and failed computations there were.
BecomesCurrent == \A v \in Views : view[v].result.data = data

\* "Atomically retain selector results for instant reuse after restart": the
\* file is never a part or a mixture of what two threads write.
SavedIsWhole == saved.state \in {"none", "whole"}
=============================================================================
