---------------------------- MODULE Intersections ---------------------------
(***************************************************************************)
(* The sources that several models cite, for one question and one day: a   *)
(* grouping of the whole history, kept in memory under the version read    *)
(* before it was built, and in a file without a version.  A stale one is   *)
(* shown, and built again in the background at most every five minutes; the *)
(* first request after a start shows the file.                             *)
(***************************************************************************)
EXTENDS Integers, FiniteSets

CONSTANTS
    Clients,        \* request threads
    MaxData,        \* bound on the versions of the data
    MaxRestarts     \* bound

VARIABLES
    rows,           \* the version of the rows
    grouped,        \* _SOURCE_INTERSECTION_CACHE: version and payload
    rested,         \* whether five minutes passed since the last validation
    building,       \* _SOURCE_INTERSECTION_BUILDING
    kept,           \* the payload in the file
    client,         \* a request thread, or the version it builds for
    refresh,        \* the background build
    restarted

intersections == <<rows, grouped, rested, building, kept, client, refresh, restarted>>

Nothing == [version |-> 0, built |-> 0]
Free == [pc |-> "free"]

Init ==
    /\ rows = 1 /\ grouped = Nothing /\ rested = FALSE /\ building = FALSE
    /\ kept = 0 /\ client = [c \in Clients |-> Free] /\ refresh = Free /\ restarted = 0

ShowsBuilt == grouped # Nothing /\ grouped.version = rows

\* a stale payload is answered; a build is started if five minutes have passed
StartBuild ==
    /\ grouped # Nothing /\ ~ShowsBuilt
    /\ rested /\ ~building
    /\ building' = TRUE /\ rested' = FALSE
    /\ refresh' = [pc |-> "build", version |-> rows]
    /\ UNCHANGED <<rows, grouped, kept, client, restarted>>

\* the file, under the version of now
AsOfNow(built) == [version |-> rows, built |-> built]
ShowKept ==
    /\ grouped = Nothing /\ kept > 0
    /\ grouped' = AsOfNow(kept) /\ rested' = FALSE
    /\ UNCHANGED <<rows, building, kept, client, refresh, restarted>>

\* no file: the request builds it, one at a time
FirstRequest(c) ==
    /\ client[c] = Free /\ grouped = Nothing /\ kept = 0
    /\ client' = [client EXCEPT ![c] = [pc |-> "wait", version |-> rows]]
    /\ UNCHANGED <<rows, grouped, rested, building, kept, refresh, restarted>>
FirstBuild(c) ==
    /\ client[c].pc = "wait" /\ \A d \in Clients : client[d].pc # "persist"
    /\ grouped' = [version |-> client[c].version, built |-> rows] /\ rested' = FALSE
    /\ client' = [client EXCEPT ![c] = [pc |-> "persist", built |-> rows]]
    /\ UNCHANGED <<rows, building, kept, refresh, restarted>>
FirstKept(c) ==
    /\ client[c].pc = "persist"
    /\ kept' = client[c].built
    /\ client' = [client EXCEPT ![c] = Free]
    /\ UNCHANGED <<rows, grouped, rested, building, refresh, restarted>>

VersionAfter == rows
VersionBefore == refresh.version
\* _refresh_source_intersections: the rows are read, some time later the result
\* replaces what there is, then it is written; an error ends the build
ReadRows ==
    /\ refresh.pc = "build"
    /\ refresh' = [pc |-> "built", version |-> refresh.version, built |-> rows]
    /\ UNCHANGED <<rows, grouped, rested, building, kept, client, restarted>>
PutBuilt ==
    /\ refresh.pc = "built"
    /\ grouped' = [version |-> VersionBefore, built |-> refresh.built]
    /\ rested' = FALSE
    /\ refresh' = [refresh EXCEPT !.pc = "persist"]
    /\ UNCHANGED <<rows, building, kept, client, restarted>>
StillBuilding == building
NotBuilding == FALSE
EndBuild ==
    /\ refresh.pc = "persist"
    /\ kept' = refresh.built /\ refresh' = Free /\ building' = NotBuilding
    /\ UNCHANGED <<rows, grouped, rested, client, restarted>>
FailBuild ==
    /\ refresh.pc = "build" /\ restarted < MaxRestarts
    /\ restarted' = restarted + 1 /\ refresh' = Free /\ building' = FALSE
    /\ UNCHANGED <<rows, grouped, rested, kept, client>>

Change ==
    /\ rows < MaxData /\ rows' = rows + 1
    /\ UNCHANGED <<grouped, rested, building, kept, client, refresh, restarted>>
FiveMinutes ==
    /\ ~rested /\ rested' = TRUE
    /\ UNCHANGED <<rows, grouped, building, kept, client, refresh, restarted>>
Restart ==
    /\ restarted < MaxRestarts /\ restarted' = restarted + 1
    /\ grouped' = Nothing /\ building' = FALSE /\ rested' = FALSE /\ refresh' = Free
    /\ client' = [c \in Clients |-> Free]
    /\ UNCHANGED <<rows, kept>>

Asked ==
    \/ StartBuild \/ ShowKept
    \/ \E c \in Clients : FirstRequest(c)
Work ==
    \/ ReadRows \/ PutBuilt \/ EndBuild
    \/ \E c \in Clients : FirstBuild(c) \/ FirstKept(c)
Next == Asked \/ Work \/ FailBuild \/ Change \/ FiveMinutes \/ Restart

Spec == Init /\ [][Next]_intersections

\* The page is asked for again and again, and time passes.
FairSpec ==
    Spec /\ WF_intersections(Asked) /\ WF_intersections(Work) /\ WF_intersections(FiveMinutes)

-----------------------------------------------------------------------------
(* Properties.                                                             *)

TypeOK ==
    /\ grouped \in [version : 0..MaxData, built : 0..MaxData]
    /\ building \in BOOLEAN /\ kept \in 0..MaxData

\* What is shown as current is current: until the file is read by a restart, no
\* payload is older than the version it is kept under, whoever built it.
VersionNotAhead == restarted = 0 => grouped.version <= grouped.built

\* In the end: the shown grouping is kept under the version of the rows, for it
\* follows a change within the five minutes of a later request.
ChangeShown == grouped = Nothing \/ ShowsBuilt
=============================================================================
