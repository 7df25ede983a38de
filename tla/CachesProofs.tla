---------------------------- MODULE CachesProofs -----------------------------
(* The caches keep their types, label truly what they hold, and build a      *)
(* response once, for every value of the constants of the suite.             *)
(* Each component has an inductive invariant of its own: RowsInv, ViewInv,   *)
(* GroupInv, OwnedInv and HttpInv; CachesInv, at the end, is the one that    *)
(* part chooses.                                                             *)
EXTENDS MCCaches, TLAPS, FiniteSetTheorems, SequenceTheorems

-----------------------------------------------------------------------------
(* Sequences and sets.                                                      *)

\* A sequence without one of its elements.
LEMMA Removed ==
  ASSUME NEW S, NEW s \in Seq(S), NEW i \in 1..Len(s), NEW removed,
         removed = SubSeq(s, 1, i - 1) \o SubSeq(s, i + 1, Len(s))
  PROVE  /\ removed \in Seq(S)
         /\ Len(removed) = Len(s) - 1
         /\ \A j \in 1..(Len(s) - 1) : removed[j] = s[IF j < i THEN j ELSE j + 1]
<1> DEFINE left == SubSeq(s, 1, i - 1)
           right == SubSeq(s, i + 1, Len(s))
           n == Len(s)
<1>0. n \in Nat /\ i \in Int /\ 1 <= i /\ i <= n
  OBVIOUS
<1>1. /\ left \in Seq(S) /\ Len(left) = i - 1
      /\ \A j \in 1..(i - 1) : left[j] = s[j]
  BY <1>0, SubSeqProperties
<1>2. /\ right \in Seq(S) /\ Len(right) = n - i
      /\ \A j \in 1..(n - i) : right[j] = s[i + j]
  BY <1>0, SubSeqProperties
<1> HIDE DEF left, right, n
<1>3. /\ removed \in Seq(S) /\ Len(removed) = Len(left) + Len(right)
      /\ \A j \in 1..(Len(left) + Len(right)) :
            removed[j] = IF j <= Len(left) THEN left[j] ELSE right[j - Len(left)]
  <2>1. removed = left \o right
    BY DEF left, right
  <2>2. /\ left \o right \in Seq(S) /\ Len(left \o right) = Len(left) + Len(right)
        /\ \A j \in 1..(Len(left) + Len(right)) :
              (left \o right)[j] = IF j <= Len(left) THEN left[j] ELSE right[j - Len(left)]
    BY <1>1, <1>2, ConcatProperties
  <2>3. QED
    BY <2>1, <2>2, Zenon
<1>4. Len(left) + Len(right) = n - 1
  BY <1>0, <1>1, <1>2
<1>5. removed \in Seq(S) /\ Len(removed) = n - 1
  BY <1>3, <1>4
<1>6. ASSUME NEW j \in 1..(n - 1)
      PROVE  removed[j] = s[IF j < i THEN j ELSE j + 1]
  <2>1. removed[j] = IF j <= i - 1 THEN left[j] ELSE right[j - (i - 1)]
    BY <1>1, <1>3, <1>4
  <2>2. CASE j < i
    <3>1. j \in 1..(i - 1) /\ j <= i - 1
      BY <1>0, <2>2
    <3>2. removed[j] = s[j]
      BY <1>1, <2>1, <3>1
    <3>3. QED
      BY <2>2, <3>2
  <2>3. CASE ~(j < i)
    <3>1. j - (i - 1) \in 1..(n - i) /\ i + (j - (i - 1)) = j + 1 /\ ~(j <= i - 1)
      BY <1>0, <2>3
    <3>2. right[j - (i - 1)] = s[j + 1]
      BY <1>2, <3>1
    <3>3. removed[j] = s[j + 1]
      BY <2>1, <3>1, <3>2
    <3>4. QED
      BY <2>3, <3>3
  <2>4. QED
    BY <2>2, <2>3
<1>7. QED
  BY <1>5, <1>6 DEF n

LEMMA InSeq ==
  ASSUME NEW S, NEW T, NEW s \in Seq(S), \A i \in 1..Len(s) : s[i] \in T
  PROVE  s \in Seq(T)
<1>1. Len(s) \in Nat /\ s \in [1..Len(s) -> T]
  OBVIOUS
<1>2. QED
  BY <1>1, SeqDef

LEMMA AtMostOne ==
  ASSUME NEW S, \A x, y \in S : x = y
  PROVE  Cardinality(S) <= 1
<1>1. CASE S = {}
  BY <1>1, FS_EmptySet
<1>2. CASE S # {}
  <2>1. PICK x \in S : S = {x}
    BY <1>2
  <2>2. QED
    BY <2>1, FS_Singleton
<1>3. QED
  BY <1>1, <1>2

-----------------------------------------------------------------------------
(* The board of owned products: a board that is put holds the data of a     *)
(* moment after its version was read.                                       *)

OwnedPlaces == {"rest", "version", "copy", "load", "put", "publish"}

OwnedRows == [at : OwnedPlaces, version : Nat, data : Nat]

OwnedInv ==
    /\ runs \in Nat \ {0} /\ historical \in {0, 1} /\ board \in Nat /\ board <= runs
    /\ thread \in [Owned!Threads -> OwnedRows]
    /\ \A t \in Owned!Threads : /\ thread[t].version <= runs /\ thread[t].data <= runs
                                /\ thread[t].at = "put" => thread[t].version <= thread[t].data
    /\ copy \in [label : Nat, data : Nat] /\ copy.data = copy.label /\ copy.data <= runs

LEMMA OwnedInit == Owned!Init => OwnedInv
BY DEF Owned!Init, Owned!Rest, OwnedInv, OwnedRows, OwnedPlaces

LEMMA OwnedKeeps == OwnedInv /\ Owned!Next => OwnedInv'
<1> SUFFICES ASSUME OwnedInv, Owned!Next PROVE OwnedInv'
  OBVIOUS
<1> USE DEF OwnedInv, OwnedRows, OwnedPlaces, Owned!Go, Owned!Rest
<1>1. CASE Owned!Collected
  BY <1>1 DEF Owned!Collected
<1>2. CASE Owned!Interval
  BY <1>2 DEF Owned!Interval
<1>3. ASSUME NEW c \in Readers, Owned!Ask(c) PROVE OwnedInv'
  <2>1. c \in Owned!Threads /\ Owned!Background \in Owned!Threads
    BY DEF Owned!Threads
  <2>2. QED
    BY <1>3, <2>1 DEF Owned!Ask, Owned!Schedule
<1>4. ASSUME NEW t \in Owned!Threads, Owned!Build(t) PROVE OwnedInv'
  <2>0. thread[t] \in OwnedRows /\ runs \in Nat
    OBVIOUS
  <2>1. CASE Owned!Version(t)
    <3> HIDE DEF OwnedInv, OwnedRows, OwnedPlaces
    <3>0. PICK held \in OwnedRows, now \in Nat : held = thread[t] /\ now = runs
      BY <2>0
    <3> DEFINE begun == [held EXCEPT !.at = "copy", !.version = now]
    <3>1. /\ begun \in OwnedRows /\ begun.at = "copy"
          /\ begun.version = now /\ begun.data = held.data
      BY DEF OwnedRows, OwnedPlaces
    <3>2. thread' = [thread EXCEPT ![t] = begun] /\ UNCHANGED <<runs, historical, board, copy>>
      BY <2>1, <3>0 DEF Owned!Version
    <3> HIDE DEF begun
    <3>3. QED
      BY <3>0, <3>1, <3>2 DEF OwnedInv
  <2>2. CASE Owned!ReadCopy(t)
    BY <2>2 DEF Owned!ReadCopy
  <2>3. CASE Owned!Load(t)
    <3> HIDE DEF OwnedInv, OwnedRows, OwnedPlaces
    <3>0. PICK held \in OwnedRows, now \in Nat : held = thread[t] /\ now = runs
      BY <2>0
    <3> DEFINE loaded == [held EXCEPT !.at = "put", !.data = now]
    <3>1. /\ loaded \in OwnedRows /\ loaded.at = "put"
          /\ loaded.data = now /\ loaded.version = held.version
      BY DEF OwnedRows, OwnedPlaces
    <3>2. thread' = [thread EXCEPT ![t] = loaded] /\ UNCHANGED <<runs, historical, board, copy>>
      BY <2>3, <3>0 DEF Owned!Load
    <3> HIDE DEF loaded
    <3>3. QED
      BY <3>0, <3>1, <3>2 DEF OwnedInv
  <2>4. CASE Owned!Put(t)
    BY <2>4 DEF Owned!Put
  <2>5. CASE Owned!Publish(t)
    BY <2>5 DEF Owned!Publish, Owned!Discard
  <2>6. QED
    BY <1>4, <2>1, <2>2, <2>3, <2>4, <2>5 DEF Owned!Build
<1>5. ASSUME NEW t \in Owned!Threads, Owned!Fail(t) PROVE OwnedInv'
  BY <1>5 DEF Owned!Fail, Owned!Discard
<1>6. QED
  BY <1>1, <1>2, <1>3, <1>4, <1>5 DEF Owned!Next

LEMMA OwnedHolds == OwnedInv => Owned!TypeOK /\ Owned!CopyTrue
BY DEF OwnedInv, OwnedRows, OwnedPlaces, Owned!TypeOK, Owned!CopyTrue

-----------------------------------------------------------------------------
(* The grouping of sources: until a restart whatever was built is kept      *)
(* under a version that was read before it, and a file means a grouping in  *)
(* memory.                                                                  *)

ClientStates ==
    [pc : {"free"}] \cup [pc : {"wait"}, version : Nat] \cup [pc : {"persist"}, built : Nat]
RefreshStates ==
    [pc : {"free"}] \cup [pc : {"build"}, version : Nat]
    \cup [pc : {"built", "persist"}, version : Nat, built : Nat]

GroupTypes ==
    /\ rows \in Nat \ {0} /\ rows <= MaxData /\ kept \in Nat /\ kept <= rows
    /\ restarted \in Nat
    /\ grouped \in [version : Nat, built : Nat] /\ grouped.version <= rows /\ grouped.built <= rows
    /\ client \in [Readers -> ClientStates] /\ refresh \in RefreshStates

\* What is built holds at least the rows of its version, at most those of now.
GroupBounds ==
    /\ \A c \in Readers : /\ client[c].pc = "wait" => client[c].version <= rows
                          /\ client[c].pc = "persist" => client[c].built <= rows
    /\ refresh.pc = "build" => refresh.version <= rows
    /\ refresh.pc = "built" => refresh.version <= refresh.built
    /\ refresh.pc \in {"built", "persist"} => refresh.built > 0 /\ refresh.built <= rows

\* Until a restart a file was in memory before.
GroupLabels ==
    restarted = 0 =>
        /\ grouped.version <= grouped.built
        /\ kept > 0 => grouped.built > 0
        /\ \A c \in Readers : client[c].pc = "persist" => grouped.built > 0
        /\ refresh.pc = "persist" => grouped.built > 0

GroupInv == GroupTypes /\ GroupBounds /\ GroupLabels

LEMMA FreeIsFree ==
    Group!Free.pc = "free" /\ Group!Free \in ClientStates /\ Group!Free \in RefreshStates
<1>1. Group!Free \in [pc : {"free"}] /\ Group!Free.pc = "free"
  BY DEF Group!Free
<1>2. QED
  BY <1>1 DEF ClientStates, RefreshStates

LEMMA GroupInit == Group!Init => GroupInv
<1> SUFFICES ASSUME Group!Init PROVE GroupInv
  OBVIOUS
<1>1. client = [c \in Readers |-> Group!Free] /\ refresh = Group!Free
  BY DEF Group!Init
<1>2. /\ rows = 1 /\ kept = 0 /\ grouping = FALSE /\ restarted = 0
      /\ grouped \in [version : Nat, built : Nat] /\ grouped.version = 0 /\ grouped.built = 0
  BY DEF Group!Init, Group!Nothing
<1>3. client \in [Readers -> ClientStates] /\ \A c \in Readers : client[c].pc = "free"
  BY <1>1, FreeIsFree
<1>4. GroupTypes
  BY <1>1, <1>2, <1>3, BoundsAssumption, FreeIsFree DEF GroupTypes
<1>5. GroupBounds
  BY <1>1, <1>2, <1>3, FreeIsFree DEF GroupBounds
<1>6. GroupLabels
  BY <1>1, <1>2, <1>3, FreeIsFree DEF GroupLabels
<1>7. QED
  BY <1>4, <1>5, <1>6 DEF GroupInv

LEMMA GroupKeeps == GroupInv /\ Group!Next => GroupInv'
<1> SUFFICES ASSUME GroupInv, Group!Next PROVE GroupInv'
  OBVIOUS
<1> USE BoundsAssumption, FreeIsFree DEF GroupInv, GroupTypes, GroupBounds, GroupLabels,
          Group!Nothing, Group!ShowsBuilt
<1>1. CASE Group!StartBuild
  BY <1>1 DEF Group!StartBuild, RefreshStates
<1>2. CASE Group!ShowKept
  BY <1>2 DEF Group!ShowKept, Group!AsOfNow
<1>3. ASSUME NEW c \in Readers, Group!FirstRequest(c) PROVE GroupInv'
  BY <1>3 DEF Group!FirstRequest, ClientStates
<1>4. ASSUME NEW c \in Readers, Group!FirstBuild(c) PROVE GroupInv'
  BY <1>4 DEF Group!FirstBuild, ClientStates
<1>5. ASSUME NEW c \in Readers, Group!FirstKept(c) PROVE GroupInv'
  BY <1>5 DEF Group!FirstKept, ClientStates
<1>6. CASE Group!ReadRows
  BY <1>6 DEF Group!ReadRows, RefreshStates
<1>7. CASE Group!PutBuilt
  <2>1. /\ refresh \in [pc : {"built", "persist"}, version : Nat, built : Nat]
        /\ refresh.version <= refresh.built /\ refresh.built > 0 /\ refresh.built <= rows
        /\ refresh.pc = "built"
    BY <1>7 DEF Group!PutBuilt, RefreshStates
  <2>2. /\ grouped' \in [version : Nat, built : Nat]
        /\ grouped'.version = refresh.version /\ grouped'.built = refresh.built
    BY <1>7, <2>1 DEF Group!PutBuilt, Group!VersionBefore
  <2>3. /\ refresh' \in RefreshStates /\ refresh'.pc = "persist"
        /\ refresh'.built = refresh.built
    BY <1>7, <2>1 DEF Group!PutBuilt, RefreshStates
  <2>4. GroupTypes' /\ GroupBounds'
    BY <1>7, <2>1, <2>2, <2>3 DEF Group!PutBuilt
  <2>5. GroupLabels'
    <3>1. grouped'.version <= grouped'.built /\ grouped'.built > 0
      BY <2>1, <2>2
    <3>2. QED
      BY <3>1
  <2>6. QED
    BY <2>4, <2>5
<1>8. CASE Group!EndBuild
  <2>1. refresh.built \in Nat
    BY <1>8 DEF Group!EndBuild, RefreshStates
  <2>2. QED
    BY <1>8, <2>1 DEF Group!EndBuild, Group!NotBuilding
<1>9. CASE Group!FailBuild
  <2>1. refresh' = Group!Free /\ UNCHANGED <<rows, grouped, rested, kept, client>>
    BY <1>9 DEF Group!FailBuild
  <2>2. restarted' \in Nat /\ restarted' # 0 /\ grouping' = FALSE
    BY <1>9 DEF Group!FailBuild
  <2>3. QED
    BY <2>1, <2>2
<1>10. CASE Group!Change
  BY <1>10 DEF Group!Change, ClientStates, RefreshStates
<1>11. CASE Group!FiveMinutes
  BY <1>11 DEF Group!FiveMinutes
<1>12. CASE Group!Restart
  <2>1. refresh' = Group!Free /\ UNCHANGED <<rows, kept>> /\ grouping' = FALSE
    BY <1>12 DEF Group!Restart
  <2>2. restarted' \in Nat /\ restarted' # 0
    BY <1>12 DEF Group!Restart
  <2>3. client' \in [Readers -> ClientStates] /\ \A c \in Readers : client'[c].pc = "free"
    BY <1>12 DEF Group!Restart
  <2>4. grouped' \in [version : Nat, built : Nat] /\ grouped'.version = 0 /\ grouped'.built = 0
    BY <1>12 DEF Group!Restart
  <2>5. GroupTypes'
    BY <2>1, <2>2, <2>3, <2>4
  <2>6. GroupBounds' /\ GroupLabels'
    BY <2>1, <2>2, <2>3, <2>4
  <2>7. QED
    BY <2>5, <2>6
<1>13. QED
  BY <1>1, <1>2, <1>3, <1>4, <1>5, <1>6, <1>7, <1>8, <1>9, <1>10, <1>11, <1>12
  DEF Group!Next, Group!Asked, Group!Work

LEMMA GroupFlag == grouping \in BOOLEAN /\ Group!Next => grouping' \in BOOLEAN
BY DEF Group!Next, Group!Asked, Group!Work, Group!StartBuild, Group!ShowKept,
       Group!FirstRequest, Group!FirstBuild, Group!FirstKept, Group!ReadRows, Group!PutBuilt,
       Group!EndBuild, Group!NotBuilding, Group!FailBuild, Group!Change, Group!FiveMinutes,
       Group!Restart

LEMMA GroupHolds ==
    GroupInv /\ grouping \in BOOLEAN => Group!TypeOK /\ Group!VersionNotAhead
<1> SUFFICES ASSUME GroupInv, grouping \in BOOLEAN PROVE Group!TypeOK /\ Group!VersionNotAhead
  OBVIOUS
<1>1. /\ grouped \in [version : Nat, built : Nat] /\ grouped.version <= rows
      /\ grouped.built <= rows /\ rows \in Nat /\ rows <= MaxData /\ kept \in Nat /\ kept <= rows
      /\ MaxData \in Nat
  BY BoundsAssumption DEF GroupInv, GroupTypes
<1>2. grouped.version \in 0..MaxData /\ grouped.built \in 0..MaxData /\ kept \in 0..MaxData
  BY <1>1
<1>3. Group!TypeOK
  BY <1>1, <1>2 DEF Group!TypeOK
<1>4. Group!VersionNotAhead
  BY DEF GroupInv, GroupLabels, Group!VersionNotAhead
<1>5. QED
  BY <1>3, <1>4

-----------------------------------------------------------------------------
(* Views: what a view, a result and a written file hold is as new as the    *)
(* label says, and a view in refreshing has one thread that refreshes it.   *)

Labelled == [label : Nat, data : Nat]
TrueLabel(r) == r \in Labelled /\ r.label <= r.data /\ r.data <= files

ViewBusy == [pc : {"start", "open", "write", "replace"}, view : FewKeys, refresh : BOOLEAN]
ViewLock == [pc : {"lock"}, view : FewKeys, refresh : BOOLEAN, label : Nat]
ViewLoad == [pc : {"load"}, view : FewKeys, refresh : BOOLEAN, label : Nat, raw : Nat]
ViewStore == [pc : {"store"}, view : FewKeys, refresh : BOOLEAN, result : Labelled]
ViewStates == {View!Idle} \cup ViewBusy \cup ViewLock \cup ViewLoad \cup ViewStore

ViewRecords == [fresh : BOOLEAN, result : Labelled]
ViewFiles == [state : {"part", "whole", "mixed"}, views : [FewKeys -> Labelled],
              open : SUBSET Readers]

ViewMemory ==
    /\ files \in Nat \ {0} /\ files <= MaxVersion
    /\ stats \in [FewKeys -> Labelled] /\ view \in [FewKeys -> ViewRecords]
    /\ \A v \in FewKeys : TrueLabel(stats[v]) /\ TrueLabel(view[v].result)
    /\ TrueLabel(snapshot)

TrueFile(file) ==
    file = View!NoFile \/ (file \in ViewFiles /\ \A v \in FewKeys : TrueLabel(file.views[v]))
ViewDisk == TrueFile(temp) /\ TrueFile(saved)

ViewWork ==
    /\ viewer \in [Readers -> ViewStates]
    /\ \A t \in Readers :
          /\ viewer[t].pc = "lock" => viewer[t].label <= files
          /\ viewer[t].pc = "load" => viewer[t].label <= viewer[t].raw /\ viewer[t].raw <= files
          /\ viewer[t].pc = "store" => TrueLabel(viewer[t].result)
    /\ statsLock \in Readers \cup {View!Nobody}

Refreshed(t, v) == viewer[t].pc # "idle" /\ viewer[t].refresh /\ viewer[t].view = v
ViewOne ==
    /\ refreshing \subseteq FewKeys
    /\ \A t \in Readers, v \in FewKeys : Refreshed(t, v) => v \in refreshing
    /\ \A t, u \in Readers, v \in FewKeys : Refreshed(t, v) /\ Refreshed(u, v) => t = u

ViewInv == ViewMemory /\ ViewDisk /\ ViewWork /\ ViewOne

LEMMA ViewIdle ==
  /\ View!Idle \in ViewStates /\ View!Idle.pc = "idle"
  /\ View!NoFile.state = "none"
  /\ View!NoResult \in Labelled /\ View!NoResult.label = 0 /\ View!NoResult.data = 0
  /\ View!NoView \in ViewRecords /\ View!NoView.result = View!NoResult
BY DEF View!Idle, View!NoFile, View!NoResult, View!NoView, ViewStates, ViewRecords, Labelled

\* Which states a thread has at each step.
LEMMA ViewShapes ==
  ASSUME NEW x \in ViewStates
  PROVE  /\ x = View!Idle <=> x.pc = "idle"
         /\ x.pc # "idle" => x.view \in FewKeys /\ x.refresh \in BOOLEAN
         /\ x.pc \in {"start", "open", "write", "replace"} => x \in ViewBusy
         /\ x.pc = "lock" => x \in ViewLock
         /\ x.pc = "load" => x \in ViewLoad
         /\ x.pc = "store" => x \in ViewStore
BY ViewIdle DEF ViewStates, ViewBusy, ViewLock, ViewLoad, ViewStore

LEMMA ViewBuilds ==
  ASSUME NEW v \in FewKeys, NEW b \in BOOLEAN
  PROVE  /\ \A pc \in {"start", "open", "write", "replace"} :
               LET x == [pc |-> pc, view |-> v, refresh |-> b] IN
               x \in ViewStates /\ x.pc = pc /\ x.view = v /\ x.refresh = b
         /\ \A n \in Nat :
               LET x == [pc |-> "lock", view |-> v, refresh |-> b, label |-> n] IN
               /\ x \in ViewStates /\ x.pc = "lock" /\ x.view = v /\ x.refresh = b
               /\ x.label = n
         /\ \A n, m \in Nat :
               LET x == [pc |-> "load", view |-> v, refresh |-> b, label |-> n, raw |-> m] IN
               /\ x \in ViewStates /\ x.pc = "load" /\ x.view = v /\ x.refresh = b
               /\ x.label = n /\ x.raw = m
         /\ \A r \in Labelled :
               LET x == [pc |-> "store", view |-> v, refresh |-> b, result |-> r] IN
               /\ x \in ViewStates /\ x.pc = "store" /\ x.view = v /\ x.refresh = b
               /\ x.result = r
BY DEF ViewStates, ViewBusy, ViewLock, ViewLoad, ViewStore
LEMMA ViewInit == View!Init => ViewInv
<1> SUFFICES ASSUME View!Init PROVE ViewInv
  OBVIOUS
<1> USE ViewIdle DEF View!Init
<1>1. files = 1 /\ files <= MaxVersion
  BY BoundsAssumption
<1>2. TrueLabel(View!NoResult)
  BY <1>1 DEF TrueLabel
<1>3. ViewMemory
  BY <1>1, <1>2, BoundsAssumption DEF ViewMemory
<1>4. ViewDisk
  BY DEF ViewDisk, TrueFile
<1>5. viewer \in [Readers -> ViewStates] /\ \A t \in Readers : viewer[t].pc = "idle"
  OBVIOUS
<1>6. ViewWork
  BY <1>5 DEF ViewWork
<1>7. ViewOne
  BY <1>5 DEF ViewOne, Refreshed
<1>8. QED
  BY <1>3, <1>4, <1>6, <1>7 DEF ViewInv

\* One thread goes on with the view it has.
LEMMA ViewGoesOn ==
  ASSUME ViewInv, NEW t \in Readers, NEW x \in ViewStates,
         viewer' = [viewer EXCEPT ![t] = x], refreshing' = refreshing,
         viewer[t].pc # "idle", x.view = viewer[t].view, x.refresh = viewer[t].refresh
  PROVE  ViewOne'
<1>1. \A u \in Readers, v \in FewKeys : Refreshed(u, v)' => Refreshed(u, v)
  BY DEF ViewInv, ViewWork, Refreshed
<1>2. QED
  BY <1>1 DEF ViewInv, ViewOne

\* One thread ends; a refresh is over with it.
LEMMA ViewEnds ==
  ASSUME ViewInv, NEW t \in Readers, viewer[t].pc # "idle", View!Ends(t)
  PROVE  ViewOne' /\ viewer' = [viewer EXCEPT ![t] = View!Idle]
<1>1. viewer' = [viewer EXCEPT ![t] = View!Idle]
  BY DEF View!Ends, View!Go
<1>2. \A u \in Readers, v \in FewKeys : Refreshed(u, v)' => u # t /\ Refreshed(u, v)
  BY <1>1, ViewIdle DEF ViewInv, ViewWork, Refreshed
<1>3. viewer[t].view \in FewKeys /\ viewer[t].refresh \in BOOLEAN
  BY ViewShapes DEF ViewInv, ViewWork
<1>4. \A u \in Readers, v \in FewKeys : Refreshed(u, v)' => v \in refreshing'
  <2> SUFFICES ASSUME NEW u \in Readers, NEW v \in FewKeys, Refreshed(u, v)' PROVE v \in refreshing'
    OBVIOUS
  <2>1. u # t /\ Refreshed(u, v) /\ v \in refreshing
    BY <1>2 DEF ViewInv, ViewOne
  <2>2. CASE viewer[t].refresh
    <3>1. refreshing' = refreshing \ {viewer[t].view}
      BY <2>2 DEF View!Ends
    <3>2. v # viewer[t].view
      BY <1>3, <2>1, <2>2 DEF ViewInv, ViewOne, Refreshed
    <3>3. QED
      BY <2>1, <3>1, <3>2
  <2>3. CASE ~viewer[t].refresh
    BY <2>1, <2>3 DEF View!Ends
  <2>4. QED
    BY <2>2, <2>3
<1>5. refreshing' \subseteq FewKeys
  BY DEF View!Ends, ViewInv, ViewOne
<1>6. QED
  BY <1>1, <1>2, <1>4, <1>5 DEF ViewInv, ViewOne

\* A thread starts on a view; a refresh only of one that nobody refreshes.
LEMMA ViewStarts ==
  ASSUME ViewInv, NEW t \in Readers, NEW v \in FewKeys, viewer[t] = View!Idle,
         \/ View!StartRefresh(t, v)
         \/ View!Go(t, View!Begin(v, FALSE)) /\ UNCHANGED refreshing,
         UNCHANGED <<files, snapshot, stats, view, statsLock, temp, saved>>
  PROVE  ViewInv'
<1>1. PICK b \in BOOLEAN :
         /\ viewer' = [viewer EXCEPT ![t] = [pc |-> "start", view |-> v, refresh |-> b]]
         /\ b => v \notin refreshing /\ refreshing' = refreshing \cup {v}
         /\ ~b => refreshing' = refreshing
  BY DEF View!StartRefresh, View!Go, View!Begin
<1> DEFINE x == [pc |-> "start", view |-> v, refresh |-> b]
<1>2. x \in ViewStates /\ x.pc = "start" /\ x.view = v /\ x.refresh = b
  BY ViewBuilds
<1> HIDE DEF x
<1>3. viewer' = [viewer EXCEPT ![t] = x]
  BY <1>1 DEF x
<1>4. ViewMemory' /\ ViewDisk'
  BY DEF ViewInv, ViewMemory, ViewDisk, TrueFile, TrueLabel
<1>5. ViewWork'
  BY <1>2, <1>3 DEF ViewInv, ViewWork, TrueLabel
<1>6. \A u \in Readers, w \in FewKeys :
         Refreshed(u, w)' <=> IF u = t THEN b /\ w = v ELSE Refreshed(u, w)
  BY <1>2, <1>3 DEF ViewInv, ViewWork, Refreshed
<1>7. \A u \in Readers : Refreshed(u, v) => ~b
  BY <1>1 DEF ViewInv, ViewOne
<1>8. ViewOne'
  BY <1>1, <1>6, <1>7 DEF ViewInv, ViewOne
<1>9. QED
  BY <1>4, <1>5, <1>8 DEF ViewInv
LEMMA ViewWorkKeeps ==
  ASSUME ViewInv, NEW t \in Readers, View!Work(t)
  PROVE  ViewInv'
<1> DEFINE now == viewer[t]
           v == now.view
           b == now.refresh
<1>0. /\ now \in ViewStates
      /\ now.pc # "idle" => v \in FewKeys /\ b \in BOOLEAN
  BY ViewShapes DEF ViewInv, ViewWork
<1>1. CASE View!ReadSignature(t)
  <2>0. now.pc = "start" /\ v \in FewKeys /\ b \in BOOLEAN
    BY <1>0, <1>1 DEF View!ReadSignature
  <2>1. CASE stats[v].label = files
    <3> DEFINE x == [pc |-> "store", view |-> v, refresh |-> b, result |-> stats[v]]
    <3>1. viewer' = [viewer EXCEPT ![t] = x]
      BY <1>1, <2>1 DEF View!ReadSignature, View!Go
    <3>2. stats[v] \in Labelled /\ TrueLabel(stats[v])
      BY <2>0 DEF ViewInv, ViewMemory
    <3>3. /\ x \in ViewStates /\ x.pc = "store" /\ x.view = v /\ x.refresh = b
          /\ x.result = stats[v]
      BY <2>0, <3>2 DEF ViewStates, ViewStore
    <3>4. UNCHANGED <<files, snapshot, stats, view, refreshing, statsLock, temp, saved>>
      BY <1>1 DEF View!ReadSignature
    <3> HIDE DEF x
    <3>5. ViewOne'
      BY <2>0, <3>1, <3>3, <3>4, ViewGoesOn
    <3>6. ViewWork'
      BY <3>1, <3>2, <3>3, <3>4 DEF ViewInv, ViewWork, TrueLabel
    <3>7. ViewMemory' /\ ViewDisk'
      BY <3>4 DEF ViewInv, ViewMemory, ViewDisk, TrueFile, TrueLabel
    <3>8. QED
      BY <3>5, <3>6, <3>7 DEF ViewInv
  <2>2. CASE stats[v].label # files
    <3> DEFINE x == [pc |-> "lock", view |-> v, refresh |-> b, label |-> files]
    <3>1. viewer' = [viewer EXCEPT ![t] = x]
      BY <1>1, <2>2 DEF View!ReadSignature, View!Go
    <3>2. files \in Nat
      BY DEF ViewInv, ViewMemory
    <3>3. /\ x \in ViewStates /\ x.pc = "lock" /\ x.view = v /\ x.refresh = b
          /\ x.label = files
      BY <2>0, <3>2, ViewBuilds
    <3>4. UNCHANGED <<files, snapshot, stats, view, refreshing, statsLock, temp, saved>>
      BY <1>1 DEF View!ReadSignature
    <3> HIDE DEF x
    <3>5. ViewOne'
      BY <2>0, <3>1, <3>3, <3>4, ViewGoesOn
    <3>6. ViewWork'
      BY <3>1, <3>2, <3>3, <3>4 DEF ViewInv, ViewWork, TrueLabel
    <3>7. ViewMemory' /\ ViewDisk'
      BY <3>4 DEF ViewInv, ViewMemory, ViewDisk, TrueFile, TrueLabel
    <3>8. QED
      BY <3>5, <3>6, <3>7 DEF ViewInv
  <2>3. QED
    BY <2>1, <2>2
<1>2. CASE View!Lock(t)
  <2>0. /\ now.pc = "lock" /\ v \in FewKeys /\ b \in BOOLEAN
        /\ now.label \in Nat /\ now.label <= files /\ files \in Nat
    <3>1. now.pc = "lock"
      BY <1>2 DEF View!Lock
    <3>2. now \in ViewLock
      BY <1>0, <3>1, ViewShapes
    <3>3. QED
      BY <3>1, <3>2 DEF ViewLock, ViewInv, ViewWork, ViewMemory
  <2>1. CASE stats[v].label = now.label
    <3> DEFINE x == [pc |-> "store", view |-> v, refresh |-> b, result |-> stats[v]]
    <3>1. viewer' = [viewer EXCEPT ![t] = x] /\ statsLock' = statsLock
      BY <1>2, <2>1 DEF View!Lock, View!Go
    <3>2. stats[v] \in Labelled /\ TrueLabel(stats[v])
      BY <2>0 DEF ViewInv, ViewMemory
    <3>3. /\ x \in ViewStates /\ x.pc = "store" /\ x.view = v /\ x.refresh = b
          /\ x.result = stats[v]
      BY <2>0, <3>2 DEF ViewStates, ViewStore
    <3>4. UNCHANGED <<files, snapshot, stats, view, refreshing, temp, saved>>
      BY <1>2 DEF View!Lock
    <3> HIDE DEF x
    <3>5. ViewOne'
      BY <2>0, <3>1, <3>3, <3>4, ViewGoesOn
    <3>6. ViewWork'
      BY <3>1, <3>2, <3>3, <3>4 DEF ViewInv, ViewWork, TrueLabel
    <3>7. ViewMemory' /\ ViewDisk'
      BY <3>4 DEF ViewInv, ViewMemory, ViewDisk, TrueFile, TrueLabel
    <3>8. QED
      BY <3>5, <3>6, <3>7 DEF ViewInv
  <2>2. CASE stats[v].label # now.label
    <3> DEFINE x == [pc |-> "load", view |-> v, refresh |-> b, label |-> now.label,
                     raw |-> files]
    <3>1. viewer' = [viewer EXCEPT ![t] = x] /\ statsLock' = t
      BY <1>2, <2>2 DEF View!Lock, View!Go
    <3>3. /\ x \in ViewStates /\ x.pc = "load" /\ x.view = v /\ x.refresh = b
          /\ x.label = now.label /\ x.raw = files
      BY <2>0 DEF ViewStates, ViewLoad
    <3>4. UNCHANGED <<files, snapshot, stats, view, refreshing, temp, saved>>
      BY <1>2 DEF View!Lock
    <3>5. x.label <= x.raw /\ x.raw <= files
      BY <2>0, <3>3
    <3> HIDE DEF x
    <3>6. ViewOne'
      BY <2>0, <3>1, <3>3, <3>4, ViewGoesOn
    <3>7. ViewWork'
      BY <3>1, <3>3, <3>4, <3>5 DEF ViewInv, ViewWork, TrueLabel
    <3>8. ViewMemory' /\ ViewDisk'
      BY <3>4 DEF ViewInv, ViewMemory, ViewDisk, TrueFile, TrueLabel
    <3>9. QED
      BY <3>6, <3>7, <3>8 DEF ViewInv
  <2>3. QED
    BY <2>1, <2>2
<1>3. CASE View!Load(t)
  <2>0. /\ now.pc = "load" /\ v \in FewKeys /\ b \in BOOLEAN
        /\ now.label \in Nat /\ now.raw \in Nat
        /\ now.label <= now.raw /\ now.raw <= files /\ files \in Nat
    <3>1. now.pc = "load"
      BY <1>3 DEF View!Load
    <3>2. now \in ViewLoad
      BY <1>0, <3>1, ViewShapes
    <3>3. QED
      BY <3>1, <3>2 DEF ViewLoad, ViewInv, ViewWork, ViewMemory
  <2>1. TrueLabel(snapshot)
    BY DEF ViewInv, ViewMemory
  <2>2. /\ snapshot' \in Labelled /\ snapshot'.label = now.raw
        /\ snapshot'.label <= snapshot'.data /\ snapshot'.data <= files
    <3>1. CASE snapshot.label = now.raw
      BY <1>3, <2>1, <3>1 DEF View!Load, View!Loaded, TrueLabel
    <3>2. CASE snapshot.label # now.raw
      BY <1>3, <2>0, <3>2 DEF View!Load, View!Loaded, Labelled
    <3>3. QED
      BY <3>1, <3>2
  <2> DEFINE r == [label |-> now.label, data |-> snapshot'.data]
             x == [pc |-> "store", view |-> v, refresh |-> b, result |-> r]
  <2>3. /\ r \in Labelled /\ r.label <= r.data /\ r.data <= files
    BY <2>0, <2>2 DEF Labelled
  <2> HIDE DEF r
  <2>4. /\ x \in ViewStates /\ x.pc = "store" /\ x.view = v /\ x.refresh = b
        /\ x.result = r
    BY <2>0, <2>3, ViewBuilds
  <2>5. /\ viewer' = [viewer EXCEPT ![t] = x] /\ stats' = [stats EXCEPT ![v] = r]
        /\ statsLock' = View!Nobody /\ UNCHANGED <<files, view, refreshing, temp, saved>>
    BY <1>3 DEF View!Load, View!Go, r
  <2> HIDE DEF x, now, v, b
  <2>6. ViewOne'
    BY <2>0, <2>4, <2>5, ViewGoesOn DEF now, v, b
  <2>7. ViewWork'
    BY <2>3, <2>4, <2>5 DEF ViewInv, ViewWork, TrueLabel
  <2>8. ViewMemory'
    BY <2>0, <2>2, <2>3, <2>5 DEF ViewInv, ViewMemory, TrueLabel
  <2>9. ViewDisk'
    BY <2>5 DEF ViewInv, ViewDisk, TrueFile, TrueLabel
  <2>10. QED
    BY <2>6, <2>7, <2>8, <2>9 DEF ViewInv
<1>4. CASE View!Store(t)
  <2>0. /\ now.pc = "store" /\ v \in FewKeys /\ b \in BOOLEAN
        /\ TrueLabel(now.result)
    BY <1>0, <1>4 DEF View!Store, ViewInv, ViewWork
  <2> DEFINE x == [pc |-> "open", view |-> v, refresh |-> b]
             r == [fresh |-> TRUE, result |-> now.result]
  <2>1. r \in ViewRecords /\ r.result = now.result
    BY <2>0 DEF ViewRecords, TrueLabel
  <2>2. x \in ViewStates /\ x.pc = "open" /\ x.view = v /\ x.refresh = b
    BY <2>0, ViewBuilds
  <2>3. /\ viewer' = [viewer EXCEPT ![t] = x] /\ view' = [view EXCEPT ![v] = r]
        /\ UNCHANGED <<files, snapshot, stats, refreshing, statsLock, temp, saved>>
    BY <1>4 DEF View!Store, View!Go
  <2> HIDE DEF x, r
  <2>4. ViewOne'
    BY <2>0, <2>2, <2>3, ViewGoesOn
  <2>5. ViewWork'
    BY <2>2, <2>3 DEF ViewInv, ViewWork, TrueLabel
  <2>6. ViewMemory'
    BY <2>0, <2>1, <2>3 DEF ViewInv, ViewMemory, TrueLabel
  <2>7. ViewDisk'
    BY <2>3 DEF ViewInv, ViewDisk, TrueFile, TrueLabel
  <2>8. QED
    BY <2>4, <2>5, <2>6, <2>7 DEF ViewInv
<1>5. CASE View!Open(t)
  <2>0. now.pc = "open" /\ v \in FewKeys /\ b \in BOOLEAN /\ now \in ViewBusy
    BY <1>0, <1>5, ViewShapes DEF View!Open
  <2>1. PICK x : x = [now EXCEPT !.pc = "write"]
    OBVIOUS
  <2>2. x \in ViewStates /\ x.pc = "write" /\ x.view = v /\ x.refresh = b
    BY <2>0, <2>1 DEF ViewBusy, ViewStates
  <2>3. /\ viewer' = [viewer EXCEPT ![t] = x]
        /\ UNCHANGED <<files, snapshot, stats, view, refreshing, statsLock, saved>>
    BY <1>5, <2>1 DEF View!Open, View!Go
  <2>4. PICK opened \in SUBSET Readers :
          temp' = [state |-> "part", views |-> View!Results, open |-> opened]
    <3>1. CASE temp = View!NoFile
      BY <1>5, <3>1 DEF View!Open
    <3>2. CASE temp # View!NoFile
      <4>1. temp \in ViewFiles /\ temp.open \subseteq Readers
        BY <3>2 DEF ViewInv, ViewDisk, TrueFile, ViewFiles
      <4>2. QED
        BY <1>5, <3>2, <4>1 DEF View!Open
    <3>3. QED
      BY <3>1, <3>2
  <2>5. /\ View!Results \in [FewKeys -> Labelled]
        /\ \A w \in FewKeys : TrueLabel(View!Results[w])
    BY DEF View!Results, ViewInv, ViewMemory, TrueLabel
  <2>6. TrueFile(temp)'
    <3> HIDE DEF now, v, b
    <3>1. temp' \in ViewFiles /\ temp'.views = View!Results
      BY <2>4, <2>5 DEF ViewFiles
    <3>2. QED
      BY <2>3, <2>5, <3>1 DEF TrueFile, TrueLabel
  <2>7. TrueFile(saved)'
    BY <2>3 DEF ViewInv, ViewDisk, TrueFile, TrueLabel
  <2>8. ViewOne'
    BY <2>0, <2>2, <2>3, ViewGoesOn
  <2>9. ViewWork'
    BY <2>2, <2>3 DEF ViewInv, ViewWork, TrueLabel
  <2>10. ViewMemory'
    BY <2>3 DEF ViewInv, ViewMemory, TrueLabel
  <2>11. QED
    BY <2>6, <2>7, <2>8, <2>9, <2>10 DEF ViewInv, ViewDisk
<1>6. CASE View!Write(t)
  <2>0. now.pc = "write" /\ v \in FewKeys /\ b \in BOOLEAN /\ now \in ViewBusy
    BY <1>0, <1>6, ViewShapes DEF View!Write
  <2>1. PICK x : x = [now EXCEPT !.pc = "replace"]
    OBVIOUS
  <2>2. x \in ViewStates /\ x.pc = "replace" /\ x.view = v /\ x.refresh = b
    BY <2>0, <2>1 DEF ViewBusy, ViewStates
  <2>3. /\ viewer' = [viewer EXCEPT ![t] = x]
        /\ UNCHANGED <<files, snapshot, stats, view, refreshing, statsLock>>
        /\ temp' = View!Written(t, temp) /\ saved' = View!Written(t, saved)
    BY <1>6, <2>1 DEF View!Write, View!Go
  <2>4. ASSUME NEW file, TrueFile(file) PROVE TrueFile(View!Written(t, file))
    <3>1. CASE file = View!NoFile \/ t \notin file.open
      BY <2>4, <3>1 DEF View!Written
    <3>2. CASE ~(file = View!NoFile \/ t \notin file.open)
      <4>1. PICK state \in {"part", "whole", "mixed"} :
              View!Written(t, file) = [file EXCEPT !.open = @ \ {t}, !.state = state]
        BY <3>2 DEF View!Written
      <4>2. file \in ViewFiles
        BY <2>4, <3>2 DEF TrueFile
      <4>3. PICK g : g = [file EXCEPT !.open = @ \ {t}, !.state = state]
        OBVIOUS
      <4>4. g \in ViewFiles /\ g.views = file.views
        BY <4>2, <4>3 DEF ViewFiles
      <4>5. QED
        BY <2>4, <3>2, <4>1, <4>3, <4>4 DEF TrueFile
    <3>3. QED
      BY <3>1, <3>2
  <2>5. TrueFile(temp)' /\ TrueFile(saved)'
    <3>1. TrueFile(temp') /\ TrueFile(saved')
      BY <2>3, <2>4 DEF ViewInv, ViewDisk
    <3>2. QED
      BY <2>3, <3>1 DEF TrueFile, TrueLabel
  <2>6. ViewOne'
    BY <2>0, <2>2, <2>3, ViewGoesOn
  <2>7. ViewWork'
    BY <2>2, <2>3 DEF ViewInv, ViewWork, TrueLabel
  <2>8. ViewMemory'
    BY <2>3 DEF ViewInv, ViewMemory, TrueLabel
  <2>9. QED
    BY <2>5, <2>6, <2>7, <2>8 DEF ViewInv, ViewDisk
<1>7. CASE View!Replace(t)
  <2>1. now.pc # "idle" /\ View!Ends(t)
    BY <1>7 DEF View!Replace
  <2>2. ViewOne' /\ viewer' = [viewer EXCEPT ![t] = View!Idle]
    BY <2>1, ViewEnds
  <2>3. UNCHANGED <<files, snapshot, stats, view, statsLock>>
    BY <1>7 DEF View!Replace
  <2>4. ViewWork'
    BY <2>2, <2>3, ViewIdle DEF ViewInv, ViewWork, TrueLabel
  <2>5. ViewMemory'
    BY <2>3 DEF ViewInv, ViewMemory, TrueLabel
  <2>6. ViewDisk'
    <3>1. TrueFile(saved') /\ TrueFile(temp')
      BY <1>7 DEF View!Replace, ViewInv, ViewDisk, TrueFile
    <3>2. QED
      BY <2>3, <3>1 DEF ViewDisk, TrueFile, TrueLabel
  <2>7. QED
    BY <2>2, <2>4, <2>5, <2>6 DEF ViewInv
<1>8. QED
  BY <1>1, <1>2, <1>3, <1>4, <1>5, <1>6, <1>7 DEF View!Work
LEMMA ViewKeeps == ViewInv /\ View!Next => ViewInv'
<1> SUFFICES ASSUME ViewInv, View!Next PROVE ViewInv'
  OBVIOUS
<1>1. ASSUME NEW t \in Readers, View!Work(t) PROVE ViewInv'
  BY <1>1, ViewWorkKeeps
<1>2. ASSUME NEW t \in Readers, View!Fail(t) PROVE ViewInv'
  <2>1. viewer[t].pc # "idle" /\ View!Ends(t)
    BY <1>2 DEF View!Fail
  <2>2. ViewOne' /\ viewer' = [viewer EXCEPT ![t] = View!Idle]
    BY <2>1, ViewEnds
  <2>3. statsLock' = View!Nobody /\ UNCHANGED <<files, snapshot, stats, view, temp, saved>>
    BY <1>2 DEF View!Fail
  <2>4. ViewWork'
    BY <2>2, <2>3, ViewIdle DEF ViewInv, ViewWork, TrueLabel
  <2>5. ViewMemory' /\ ViewDisk'
    BY <2>3 DEF ViewInv, ViewMemory, ViewDisk, TrueFile, TrueLabel
  <2>6. QED
    BY <2>2, <2>4, <2>5 DEF ViewInv
<1>3. ASSUME NEW t \in Readers, NEW v \in FewKeys,
             View!Request(t, v) \/ View!Poll(t, v) \/ View!Prewarm(t, v)
      PROVE  ViewInv'
  BY <1>3, ViewStarts DEF View!Request, View!Poll, View!Prewarm
<1>4. ASSUME NEW v \in FewKeys, View!Expire(v) PROVE ViewInv'
  <2>1. PICK r : r = [view[v] EXCEPT !.fresh = FALSE]
    OBVIOUS
  <2>2. view[v] \in ViewRecords
    BY DEF ViewInv, ViewMemory
  <2>3. r \in ViewRecords /\ r.result = view[v].result
    BY <2>1, <2>2 DEF ViewRecords
  <2>4. /\ view' = [view EXCEPT ![v] = r]
        /\ UNCHANGED <<files, snapshot, stats, refreshing, viewer, statsLock, temp, saved>>
    BY <1>4, <2>1 DEF View!Expire
  <2>5. ViewMemory'
    BY <2>3, <2>4 DEF ViewInv, ViewMemory, TrueLabel
  <2>6. ViewDisk' /\ ViewWork'
    BY <2>4 DEF ViewInv, ViewDisk, ViewWork, TrueFile, TrueLabel
  <2>7. ViewOne'
    BY <2>4 DEF ViewInv, ViewOne, Refreshed
  <2>8. QED
    BY <2>5, <2>6, <2>7 DEF ViewInv
<1>5. CASE View!Change
  <2>1. /\ files' = files + 1 /\ files' <= MaxVersion /\ files \in Nat
        /\ UNCHANGED <<snapshot, stats, view, refreshing, viewer, statsLock, temp, saved>>
    BY <1>5, BoundsAssumption DEF View!Change, ViewInv, ViewMemory
  <2>2. \A r : TrueLabel(r) => r \in Labelled /\ r.label <= r.data /\ r.data <= files'
    BY <2>1 DEF TrueLabel, Labelled
  <2>3. ViewMemory'
    BY <2>1, <2>2 DEF ViewInv, ViewMemory, TrueLabel
  <2>4. ViewDisk'
    BY <2>1, <2>2 DEF ViewInv, ViewDisk, TrueFile, TrueLabel
  <2>5. \A t \in Readers : /\ viewer[t].pc = "lock" => viewer[t].label \in Nat
                           /\ viewer[t].pc = "load" => viewer[t].raw \in Nat
    BY ViewShapes DEF ViewInv, ViewWork, ViewLock, ViewLoad
  <2>6. ViewWork'
    BY <2>1, <2>2, <2>5 DEF ViewInv, ViewWork, TrueLabel
  <2>7. ViewOne'
    BY <2>1 DEF ViewInv, ViewOne, Refreshed
  <2>8. QED
    BY <2>3, <2>4, <2>6, <2>7 DEF ViewInv
<1>6. CASE View!Restart
  <2>1. /\ files' = files /\ snapshot' = View!NoResult
        /\ stats' = [v \in FewKeys |-> View!NoResult]
        /\ view' = [v \in FewKeys |-> IF saved = View!NoFile THEN View!NoView
                                     ELSE View!Restored(v)]
        /\ refreshing' = {} /\ viewer' = [t \in Readers |-> View!Idle]
        /\ statsLock' = View!Nobody
    BY <1>6 DEF View!Restart
  <2>2. TrueLabel(View!NoResult)
    BY ViewIdle DEF TrueLabel, ViewInv, ViewMemory
  <2>3. ASSUME NEW v \in FewKeys
        PROVE  view'[v] \in ViewRecords /\ TrueLabel(view'[v].result)
    <3>1. CASE saved = View!NoFile \/ View!Restored(v) = View!NoView
      BY <2>1, <2>2, <3>1, ViewIdle
    <3>2. CASE ~(saved = View!NoFile \/ View!Restored(v) = View!NoView)
      <4>1. PICK b \in BOOLEAN : view'[v] = [fresh |-> b, result |-> saved.views[v]]
        BY <2>1, <3>2 DEF View!Restored
      <4>2. saved \in ViewFiles /\ TrueLabel(saved.views[v])
        BY <3>2 DEF ViewInv, ViewDisk, TrueFile
      <4>3. QED
        BY <4>1, <4>2 DEF ViewRecords, TrueLabel
    <3>3. QED
      BY <3>1, <3>2
  <2>4. ViewMemory'
    BY <2>1, <2>2, <2>3, ViewIdle DEF ViewInv, ViewMemory, TrueLabel
  <2>5. ASSUME NEW f, TrueFile(f), f # View!NoFile
        PROVE  TrueFile([f EXCEPT !.open = {}, !.state = IF f.open = {} THEN @ ELSE "mixed"])
    <3>1. f \in ViewFiles
      BY <2>5 DEF TrueFile
    <3>2. PICK state \in {"part", "whole", "mixed"} :
            state = IF f.open = {} THEN f.state ELSE "mixed"
      BY <3>1 DEF ViewFiles
    <3>3. PICK g : g = [f EXCEPT !.open = {}, !.state = state]
      OBVIOUS
    <3>4. g \in ViewFiles /\ g.views = f.views
      BY <3>1, <3>3 DEF ViewFiles
    <3>5. g = [f EXCEPT !.open = {}, !.state = IF f.open = {} THEN @ ELSE "mixed"]
      BY <3>2, <3>3
    <3>6. QED
      BY <2>5, <3>4, <3>5 DEF TrueFile
  <2>6. TrueFile(temp') /\ TrueFile(saved')
    BY <1>6, <2>5 DEF View!Restart, ViewInv, ViewDisk, TrueFile
  <2>7. ViewDisk'
    BY <2>1, <2>6 DEF ViewDisk, TrueFile, TrueLabel
  <2>8. ViewWork'
    BY <2>1, ViewIdle DEF ViewWork
  <2>9. ViewOne'
    BY <2>1, ViewIdle DEF ViewOne, Refreshed
  <2>10. QED
    BY <2>4, <2>7, <2>8, <2>9 DEF ViewInv
<1>7. QED
  BY <1>1, <1>2, <1>3, <1>4, <1>5, <1>6 DEF View!Next

LEMMA SameCardinality == \A S : View!Cardinality(S) = Cardinality(S)
BY DEF View!Cardinality, Cardinality

LEMMA ViewHolds == ViewInv => View!TypeOK /\ View!LabelNotAhead /\ View!OneRefresh
<1> SUFFICES ASSUME ViewInv PROVE View!TypeOK /\ View!LabelNotAhead /\ View!OneRefresh
  OBVIOUS
<1>1. View!LabelNotAhead
  BY DEF ViewInv, ViewMemory, TrueLabel, View!LabelNotAhead
<1>2. ASSUME NEW v \in FewKeys
      PROVE  View!Cardinality({t \in Readers : View!Refreshes(t, v)}) <= 1
  <2>1. \A t \in Readers : View!Refreshes(t, v) => Refreshed(t, v)
    BY ViewShapes DEF ViewInv, ViewWork, View!Refreshes, Refreshed
  <2>2. \A t, u \in {x \in Readers : View!Refreshes(x, v)} : t = u
    BY <2>1 DEF ViewInv, ViewOne
  <2>3. QED
    <3> HIDE DEF View!Refreshes
    <3>1. PICK S : S = {t \in Readers : View!Refreshes(t, v)}
      OBVIOUS
    <3>2. Cardinality(S) <= 1
      BY <2>2, <3>1, AtMostOne
    <3>3. QED
      BY <3>1, <3>2, SameCardinality
<1>3. View!OneRefresh
  BY <1>2 DEF View!OneRefresh
<1>4. View!TypeOK
  <2>1. \A r : TrueLabel(r) => r \in View!Result
    <3>1. files \in Nat /\ files <= MaxVersion
      BY DEF ViewInv, ViewMemory
    <3>2. \A n \in Nat : n <= files => n \in 0..MaxVersion
      BY <3>1, BoundsAssumption
    <3>3. ASSUME NEW r, TrueLabel(r)
          PROVE  r \in Labelled /\ r.label \in 0..MaxVersion /\ r.data \in 0..MaxVersion
      BY <3>1, <3>2, <3>3 DEF TrueLabel, Labelled
    <3>4. QED
      BY <3>3 DEF Labelled, View!Result
  <2>2. stats \in [FewKeys -> View!Result]
    BY <2>1 DEF ViewInv, ViewMemory
  <2>3. view \in [FewKeys -> [fresh : BOOLEAN, result : View!Result]]
    <3>1. \A v \in FewKeys : view[v] \in [fresh : BOOLEAN, result : View!Result]
      BY <2>1 DEF ViewInv, ViewMemory, ViewRecords
    <3>2. QED
      BY <3>1 DEF ViewInv, ViewMemory
  <2>4. \A f \in {temp, saved} : f.state \in {"none", "part", "whole", "mixed"}
    BY ViewIdle DEF ViewInv, ViewDisk, TrueFile, ViewFiles
  <2>5. QED
    BY <2>2, <2>3, <2>4 DEF View!TypeOK, ViewInv, ViewOne, ViewWork
<1>5. QED
  BY <1>1, <1>3, <1>4
-----------------------------------------------------------------------------
(* Lists of entries, each of a key of its own.                              *)

Distinct(s) == \A i, j \in 1..Len(s) : s[i].key = s[j].key => i = j
From(left, s) == \A j \in 1..Len(left) : \E i \in 1..Len(s) : left[j] = s[i]
Lacks(s, k) == \A j \in 1..Len(s) : s[j].key # k

Omit(s, i) == SubSeq(s, 1, i - 1) \o SubSeq(s, i + 1, Len(s))

LEMMA WithoutOne ==
  ASSUME NEW E, NEW s \in Seq(E), Distinct(s), NEW i \in 1..Len(s), NEW left,
         left = Omit(s, i)
  PROVE  /\ left \in Seq(E) /\ Len(left) = Len(s) - 1
         /\ Distinct(left) /\ From(left, s) /\ Lacks(left, s[i].key)
<1>1. /\ left \in Seq(E) /\ Len(left) = Len(s) - 1
      /\ \A j \in 1..(Len(s) - 1) : left[j] = s[IF j < i THEN j ELSE j + 1]
  BY Removed DEF Omit
<1> DEFINE from(j) == IF j < i THEN j ELSE j + 1
<1>2. Len(s) \in Nat /\ i \in 1..Len(s) /\ Len(left) = Len(s) - 1
  BY <1>1
<1>3. ASSUME NEW j \in 1..Len(left)
      PROVE  from(j) \in 1..Len(s) /\ from(j) # i /\ left[j] = s[from(j)]
  <2>1. left[j] = s[from(j)]
    BY <1>1
  <2>2. j \in Nat /\ 1 <= j /\ j <= Len(s) - 1
    BY <1>2
  <2>3. QED
    BY <1>2, <2>1, <2>2
<1>4. ASSUME NEW j \in 1..Len(left), NEW m \in 1..Len(left), from(j) = from(m) PROVE j = m
  BY <1>2, <1>4
<1> HIDE DEF from
<1>5. From(left, s)
  BY <1>3 DEF From
<1>6. Distinct(left)
  <2>1. ASSUME NEW j \in 1..Len(left), NEW m \in 1..Len(left), left[j].key = left[m].key
        PROVE  j = m
    <3>1. s[from(j)].key = s[from(m)].key
      BY <1>3, <2>1
    <3>2. from(j) = from(m)
      BY <1>3, <3>1 DEF Distinct
    <3>3. QED
      BY <1>4, <3>2
  <2>2. QED
    BY <2>1 DEF Distinct
<1>7. Lacks(left, s[i].key)
  BY <1>3 DEF Distinct, Lacks
<1>8. QED
  BY <1>1, <1>5, <1>6, <1>7

LEMMA WithoutHead ==
  ASSUME NEW E, NEW s \in Seq(E), Distinct(s), s # <<>>
  PROVE  /\ Tail(s) \in Seq(E) /\ Len(Tail(s)) = Len(s) - 1
         /\ Distinct(Tail(s)) /\ From(Tail(s), s) /\ Lacks(Tail(s), Head(s).key)
<1>1. /\ Tail(s) \in Seq(E) /\ Len(Tail(s)) = Len(s) - 1 /\ Head(s) = s[1] /\ Len(s) \in Nat \ {0}
      /\ \A j \in 1..(Len(s) - 1) : Tail(s)[j] = s[j + 1]
  BY HeadTailProperties, EmptySeq
<1>2. \A j \in 1..(Len(s) - 1) : j + 1 \in 1..Len(s) /\ j + 1 # 1
  BY <1>1
<1>3. From(Tail(s), s)
  BY <1>1, <1>2 DEF From
<1>4. Distinct(Tail(s)) /\ Lacks(Tail(s), Head(s).key)
  BY <1>1, <1>2 DEF Distinct, Lacks
<1>5. QED
  BY <1>1, <1>3, <1>4

LEMMA WithOne ==
  ASSUME NEW E, NEW left \in Seq(E), Distinct(left), NEW e \in E, Lacks(left, e.key),
         NEW s, s = Append(left, e)
  PROVE  /\ s \in Seq(E) /\ Len(s) = Len(left) + 1 /\ Distinct(s)
         /\ \A j \in 1..Len(s) : s[j] = e \/ \E i \in 1..Len(left) : s[j] = left[i]
         /\ s[Len(s)] = e
<1>1. /\ s \in Seq(E) /\ Len(s) = Len(left) + 1 /\ s[Len(left) + 1] = e /\ Len(left) \in Nat
      /\ \A j \in 1..Len(left) : s[j] = left[j]
  BY AppendProperties
<1>2. \A j \in 1..Len(s) : j = Len(left) + 1 \/ j \in 1..Len(left)
  BY <1>1
<1>3. Distinct(s)
  BY <1>1, <1>2 DEF Distinct, Lacks
<1>4. \A j \in 1..Len(s) : s[j] = e \/ \E i \in 1..Len(left) : s[j] = left[i]
  BY <1>1, <1>2
<1>5. QED
  BY <1>1, <1>3, <1>4
-----------------------------------------------------------------------------
(* The rows of the analytics pages.  The lemmas are of any instance: K and  *)
(* R its keys and requests, D whether it has the database, F whether        *)
(* requests fail, V the bound of its versions.                              *)

LEMMA ImageBound ==
  ASSUME NEW S, IsFiniteSet(S), NEW f, NEW T, T = {f[x] : x \in S}
  PROVE  IsFiniteSet(T) /\ Cardinality(T) <= Cardinality(S)
<1> DEFINE g == [x \in S |-> f[x]]
<1>1. g \in [S -> T] /\ \A y \in T : \E x \in S : g[x] = y
  OBVIOUS
<1>2. g \in Surjection(S, T)
  BY <1>1 DEF Surjection
<1> HIDE DEF g
<1>3. QED
  BY <1>2, FS_Surjection

LEMMA RowsSizes ==
  ASSUME NEW K, NEW R, NEW D, NEW F, NEW V, Rows(K, R, D, F, V)!CacheAssumption
  PROVE  /\ IsFiniteSet(K) /\ IsFiniteSet(R) /\ MaxEntries \in Nat \ {0} /\ V \in Nat
         /\ \E k \in K : TRUE
         /\ Cardinality(K) \in Nat \ {0} /\ Cardinality(R) \in Nat
         /\ Rows(K, R, D, F, V)!Locks = 1..(Cardinality(K) + Cardinality(R))
<1>1. /\ IsFiniteSet(K) /\ IsFiniteSet(R) /\ MaxEntries \in Nat \ {0} /\ V \in Nat /\ K # {}
  BY DEF Rows!CacheAssumption, Rows!IsFiniteSet, IsFiniteSet
<1>2. Cardinality(K) \in Nat \ {0} /\ Cardinality(R) \in Nat
  BY <1>1, FS_CardinalityType, FS_EmptySet
<1>3. \A S : Rows(K, R, D, F, V)!Cardinality(S) = Cardinality(S)
  BY DEF Rows!Cardinality, Cardinality
<1>4. Rows(K, R, D, F, V)!Locks = 1..(Cardinality(K) + Cardinality(R))
  BY <1>3 DEF Rows!Locks
<1>5. QED
  BY <1>1, <1>2, <1>4

\* There is a lock that no key has and no request holds.
LEMMA FreeLock ==
  ASSUME NEW K, IsFiniteSet(K), NEW R, IsFiniteSet(R), NEW k \in K,
         NEW f, f[k] = 0, NEW g
  PROVE  \E l \in 1..(Cardinality(K) + Cardinality(R)) :
            (\A x \in K : l # f[x]) /\ (\A r \in R : l # g[r])
<1> DEFINE A == {f[x] : x \in K \ {k}}
           B == {g[r] : r \in R}
           n == Cardinality(K) + Cardinality(R)
<1>1. IsFiniteSet(K \ {k}) /\ Cardinality(K \ {k}) = Cardinality(K) - 1
  BY FS_RemoveElement
<1>2. IsFiniteSet(A) /\ Cardinality(A) <= Cardinality(K) - 1
  BY <1>1, ImageBound
<1>3. IsFiniteSet(B) /\ Cardinality(B) <= Cardinality(R)
  BY ImageBound
<1>4. \A x \in K : x # k => f[x] \in A
  OBVIOUS
<1>5. \A r \in R : g[r] \in B
  OBVIOUS
<1> HIDE DEF A, B
<1>6. /\ IsFiniteSet(A \cup B) /\ Cardinality(A \cup B) \in Nat
      /\ Cardinality(A \cup B) = Cardinality(A) + Cardinality(B) - Cardinality(A \cap B)
  BY <1>2, <1>3, FS_Union, FS_CardinalityType
<1>7. Cardinality(A \cap B) \in Nat
  BY <1>2, FS_Subset, FS_CardinalityType
<1>8. Cardinality(K) \in Nat /\ Cardinality(R) \in Nat /\ Cardinality(A) \in Nat /\ Cardinality(B) \in Nat
  BY <1>2, <1>3, FS_CardinalityType
<1>9. Cardinality(A \cup B) < n /\ n \in Nat
  BY <1>2, <1>3, <1>6, <1>7, <1>8
<1>10. Cardinality(1..n) = n
  BY <1>9, FS_Interval
<1> HIDE DEF n
<1>11. ~(1..n \subseteq A \cup B)
  <2>1. (1..n \in SUBSET (A \cup B)) => Cardinality(1..n) <= Cardinality(A \cup B)
    BY <1>6, FS_Subset
  <2>2. QED
    BY <1>6, <1>9, <1>10, <2>1
<1>12. PICK l \in 1..n : l \notin A \cup B
  BY <1>11
<1>13. l # 0
  BY <1>9
<1>14. QED
  BY <1>4, <1>5, <1>12, <1>13 DEF n

\* What is remembered, and what of the memory is left.
LEMMA RowsRemember ==
  ASSUME NEW K, NEW R, NEW D, NEW F, NEW V, MaxEntries \in Nat \ {0},
         NEW E, memory \in Seq(E), Distinct(memory), Len(memory) <= MaxEntries,
         NEW k \in K, NEW e \in E, e.key = k, memory' = Append(Rows(K, R, D, F, V)!Left(k), e)
  PROVE  /\ memory' \in Seq(E) /\ Distinct(memory') /\ Len(memory') <= MaxEntries
         /\ \A j \in 1..Len(memory') : memory'[j] = e \/ \E i \in 1..Len(memory) : memory'[j] = memory[i]
<1> DEFINE left == Rows(K, R, D, F, V)!Left(k)
           cached == Rows(K, R, D, F, V)!Cached(k)
<1>3. Rows(K, R, D, F, V)!Entries(k) = {i \in 1..Len(memory) : memory[i].key = k}
  BY DEF Rows!Entries
<1>4. /\ left \in Seq(E) /\ Distinct(left) /\ Lacks(left, k) /\ From(left, memory)
      /\ Len(left) < MaxEntries
  <2>0. Len(memory) \in Nat
    OBVIOUS
  <2>1. CASE cached
    <3> DEFINE i == Rows(K, R, D, F, V)!Place(k)
    <3>1. i \in 1..Len(memory) /\ memory[i].key = k
      BY <1>3, <2>1 DEF Rows!Place, Rows!Cached
    <3>2. left = Omit(memory, i)
      BY <2>1 DEF Rows!Left, Omit
    <3> HIDE DEF i, left
    <3>3. QED
      BY <2>0, <3>1, <3>2, WithoutOne
  <2>2. CASE ~cached
    <3>1. Lacks(memory, k)
      BY <1>3, <2>2 DEF Rows!Cached, Lacks
    <3>2. CASE Len(memory) < MaxEntries
      <4>1. left = memory
        BY <2>2, <3>2 DEF Rows!Left, Rows!Evicted
      <4>2. From(memory, memory)
        BY DEF From
      <4>3. QED
        BY <3>1, <3>2, <4>1, <4>2
    <3>3. CASE ~(Len(memory) < MaxEntries)
      <4>1. left = Tail(memory)
        BY <2>2, <3>3 DEF Rows!Left, Rows!Evicted
      <4>2. memory # <<>>
        BY <2>0, <3>3
      <4> HIDE DEF left
      <4>3. left \in Seq(E) /\ Distinct(left) /\ From(left, memory) /\ Len(left) = Len(memory) - 1
        BY <4>1, <4>2, WithoutHead
      <4>4. Lacks(left, k)
        BY <3>1, <4>3 DEF From, Lacks
      <4>5. QED
        BY <2>0, <4>3, <4>4
    <3>4. QED
      BY <3>2, <3>3
  <2>3. QED
    BY <2>1, <2>2
<1>5. /\ memory' \in Seq(E) /\ Len(memory') = Len(left) + 1 /\ Distinct(memory')
      /\ \A j \in 1..Len(memory') : memory'[j] = e \/ \E i \in 1..Len(left) : memory'[j] = left[i]
  <2>1. Lacks(left, e.key)
    BY <1>4
  <2>2. left \in Seq(E) /\ Distinct(left)
    BY <1>4
  <2>3. memory' = Append(left, e)
    OBVIOUS
  <2> HIDE DEF left
  <2>4. memory' \in Seq(E)
    BY <2>1, <2>2, <2>3, WithOne
  <2>5. Len(memory') = Len(left) + 1
    BY <2>1, <2>2, <2>3, WithOne
  <2>6. Distinct(memory')
    <3>1. ASSUME NEW s, s = Append(left, e) PROVE Distinct(s)
      BY <2>1, <2>2, <3>1, WithOne
    <3>2. QED
      BY <2>3, <3>1
  <2>7. \A j \in 1..Len(memory') : memory'[j] = e \/ \E i \in 1..Len(left) : memory'[j] = left[i]
    BY <2>1, <2>2, <2>3, WithOne
  <2>8. QED
    BY <2>4, <2>5, <2>6, <2>7
<1> HIDE DEF left
<1>6. Len(left) \in Nat
  BY <1>4
<1>7. QED
  BY <1>4, <1>5, <1>6 DEF From
RowPlaces == {"idle", "wait", "paint", "row", "keep", "check", "queue", "validate",
              "load", "keep_built", "persist", "put"}
RowJobs(K) == [at : RowPlaces, key : K, lock : Nat, version : Int, payload : Int]
RowEntries(K) == [key : K, label : Int, payload : Int]
RowRecords == [label : Int, payload : Int]

\* What a job holds at its place, when d is the version of the data and the
\* places of P are never reached.
JobTrue(P, d, j) ==
    /\ -1 <= j.version /\ j.version <= d /\ -1 <= j.payload /\ j.payload <= d
    /\ j.at \in {"queue", "load"} => 0 <= j.version
    /\ j.at \in {"keep_built", "persist", "put"} => 0 <= j.version /\ j.version <= j.payload
    /\ j.at \in {"paint", "keep"} => 0 <= j.payload
    /\ j.at \notin P
\* N bounds the lock objects; only requests wait for them.
JobsTrue(K, R, P, N, d, jobs) ==
    /\ jobs \in [R \cup Validators -> RowJobs(K)]
    /\ \A w \in R \cup Validators : /\ JobTrue(P, d, jobs[w]) /\ jobs[w].lock <= N
                                    /\ w \in R \/ jobs[w].lock = 0

\* Without the database, where P is not empty, labels are true in memory too.
EntryTrue(P, d, e) ==
    /\ -1 <= e.label /\ e.label <= d /\ 0 <= e.payload /\ e.payload <= d
    /\ P = {} \/ e.label <= e.payload

RowsStored(K, V) ==
    /\ data \in Nat /\ data <= V /\ disk \in [K -> Int] /\ row \in [K -> RowRecords]
    /\ \A k \in K : /\ -1 <= disk[k] /\ disk[k] <= data
                    /\ -1 <= row[k].label /\ row[k].label <= row[k].payload
                    /\ row[k].payload <= data
RowsMemory(K, P) ==
    /\ memory \in Seq(RowEntries(K)) /\ Distinct(memory) /\ Len(memory) <= MaxEntries
    /\ \A i \in 1..Len(memory) : EntryTrue(P, data, memory[i])
RowsLocks(K, N) == mutex \in [K -> Nat] /\ \A k \in K : mutex[k] <= N
RowsSets(K) == building \subseteq K /\ recent \subseteq K
RowsInv(K, R, P, N, V) ==
    /\ RowsStored(K, V) /\ RowsMemory(K, P) /\ RowsLocks(K, N) /\ RowsSets(K)
    /\ JobsTrue(K, R, P, N, data, job)

\* The places of P are for the database.
FilesAlone(P, D) == D => P = {}

\* A state of the cache in which an action is taken.
RowsState(K, R, D, F, V, P, N) ==
    /\ Rows(K, R, D, F, V)!CacheAssumption /\ P \in {{}, {"row", "keep"}} /\ FilesAlone(P, D)
    /\ N \in Nat /\ N = Cardinality(K) + Cardinality(R) /\ RowsInv(K, R, P, N, V)

LEMMA DoneJob ==
  ASSUME NEW K, NEW R, NEW D, NEW F, NEW V, NEW k \in K
  PROVE  LET x == Rows(K, R, D, F, V)!Done(k) IN
         /\ x \in RowJobs(K) /\ x.at = "idle" /\ x.key = k /\ x.lock = 0
         /\ x.version = -1 /\ x.payload = -1
BY DEF RowJobs, RowPlaces, Rows!Done, Rows!Absent, Rows!NoLock

LEMMA JobPut ==
  ASSUME NEW K, NEW R, NEW P, NEW N \in Nat, NEW d, NEW jobs, JobsTrue(K, R, P, N, d, jobs),
         NEW w \in R \cup Validators, NEW x \in RowJobs(K), JobTrue(P, d, x), x.lock <= N,
         w \in R \/ x.lock = 0
  PROVE  JobsTrue(K, R, P, N, d, [jobs EXCEPT ![w] = x])
BY DEF JobsTrue

LEMMA JobAt ==
  ASSUME NEW K, NEW R, NEW P, NEW N \in Nat, NEW d, NEW jobs, JobsTrue(K, R, P, N, d, jobs),
         NEW w \in R \cup Validators
  PROVE  /\ jobs[w] \in RowJobs(K) /\ jobs[w].key \in K /\ jobs[w].at \in RowPlaces
         /\ jobs[w].lock \in Nat /\ jobs[w].version \in Int /\ jobs[w].payload \in Int
         /\ JobTrue(P, d, jobs[w]) /\ jobs[w].lock <= N
         /\ w \in R \/ jobs[w].lock = 0
<1>1. /\ jobs[w] \in RowJobs(K) /\ JobTrue(P, d, jobs[w]) /\ jobs[w].lock <= N
      /\ w \in R \/ jobs[w].lock = 0
  BY DEF JobsTrue
<1>2. /\ jobs[w].key \in K /\ jobs[w].at \in RowPlaces
      /\ jobs[w].lock \in Nat /\ jobs[w].version \in Int /\ jobs[w].payload \in Int
  BY <1>1 DEF RowJobs
<1>3. QED
  BY <1>1, <1>2

\* The job of a worker who ends.
LEMMA JobAnswered ==
  ASSUME NEW K, NEW R, NEW D, NEW F, NEW V, NEW P \in {{}, {"row", "keep"}}, NEW N \in Nat,
         data \in Nat, JobsTrue(K, R, P, N, data, job), NEW w \in R \cup Validators
  PROVE  JobsTrue(K, R, P, N, data, Rows(K, R, D, F, V)!Answered(w))
<1>1. PICK k \in K : k = job[w].key
  BY JobAt
<1>2. PICK x : x = Rows(K, R, D, F, V)!Done(k)
  OBVIOUS
<1>3. /\ x \in RowJobs(K) /\ x.at = "idle" /\ x.key = k /\ x.lock = 0
      /\ x.version = -1 /\ x.payload = -1
  BY <1>2, DoneJob
<1>4. Rows(K, R, D, F, V)!Answered(w) = [job EXCEPT ![w] = x]
  BY <1>1, <1>2 DEF Rows!Answered
<1>5. JobTrue(P, data, x)
  BY <1>3 DEF JobTrue
<1>6. JobsTrue(K, R, P, N, data, [job EXCEPT ![w] = x])
  BY <1>3, <1>5, JobPut
<1>7. QED
  BY <1>4, <1>6

\* The job of a thread that starts.
LEMMA JobStarts ==
  ASSUME NEW K, NEW R, NEW D, NEW F, NEW V, NEW P \in {{}, {"row", "keep"}}, NEW N \in Nat,
         data \in Nat, NEW jobs, JobsTrue(K, R, P, N, data, jobs), NEW k \in K, NEW place, NEW version,
         Rows(K, R, D, F, V)!Start(jobs, k, place, version),
         \/ place = "validate" /\ version = -1
         \/ place = "queue" /\ version = data
  PROVE  JobsTrue(K, R, P, N, data, job')
<1>1. PICK t \in Validators :
        job' = [jobs EXCEPT ![t] = [Rows(K, R, D, F, V)!Done(k) EXCEPT !.at = place, !.version = version]]
  BY DEF Rows!Start
<1>2. PICK free : free = Rows(K, R, D, F, V)!Done(k)
  OBVIOUS
<1>3. PICK x : x = [free EXCEPT !.at = place, !.version = version]
  OBVIOUS
<1>4. place \in {"validate", "queue"} /\ version \in Int
  OBVIOUS
<1>5. free \in RowJobs(K) /\ free.lock = 0 /\ free.payload = -1
  BY <1>2, DoneJob
<1>6. /\ x \in RowJobs(K) /\ x.at = place /\ x.lock = 0
      /\ x.version = version /\ x.payload = -1
  BY <1>3, <1>4, <1>5 DEF RowJobs, RowPlaces
<1>7. JobTrue(P, data, x)
  BY <1>6 DEF JobTrue
<1>8. JobsTrue(K, R, P, N, data, [jobs EXCEPT ![t] = x])
  BY <1>6, <1>7, JobPut
<1>9. QED
  BY <1>1, <1>2, <1>3, <1>8
\* A job with another place, and another payload or version.
LEMMA JobMoved ==
  ASSUME NEW K, NEW j \in RowJobs(K), NEW at \in RowPlaces, NEW x, x = [j EXCEPT !.at = at]
  PROVE  /\ x \in RowJobs(K) /\ x.at = at /\ x.lock = j.lock /\ x.key = j.key
         /\ x.version = j.version /\ x.payload = j.payload
BY DEF RowJobs

LEMMA RowsRemembers ==
  ASSUME NEW K, NEW R, NEW D, NEW F, NEW V, NEW P, NEW N \in Nat,
         MaxEntries \in Nat \ {0}, RowsMemory(K, P), RowsLocks(K, N),
         data \in Nat, data' = data, NEW k \in K, NEW label \in Int, NEW payload \in Int,
         -1 <= label, label <= data, 0 <= payload, payload <= data, P = {} \/ label <= payload,
         Rows(K, R, D, F, V)!Remember(k, label, payload)
  PROVE  RowsMemory(K, P)' /\ RowsLocks(K, N)'
<1>1. PICK e : e = [key |-> k, label |-> label, payload |-> payload]
  OBVIOUS
<1>2. e \in RowEntries(K) /\ e.key = k /\ e.label = label /\ e.payload = payload
  BY <1>1 DEF RowEntries
<1>3. EntryTrue(P, data, e)
  BY <1>2 DEF EntryTrue
<1>4. memory' = Append(Rows(K, R, D, F, V)!Left(k), e)
  BY <1>1 DEF Rows!Remember
<1>5. memory \in Seq(RowEntries(K)) /\ Distinct(memory) /\ Len(memory) <= MaxEntries
  BY DEF RowsMemory
<1>6. /\ memory' \in Seq(RowEntries(K)) /\ Distinct(memory') /\ Len(memory') <= MaxEntries
      /\ \A j \in 1..Len(memory') : memory'[j] = e \/ \E i \in 1..Len(memory) : memory'[j] = memory[i]
  BY <1>2, <1>4, <1>5, RowsRemember
<1>7. \A j \in 1..Len(memory') : EntryTrue(P, data, memory'[j])
  BY <1>3, <1>6 DEF RowsMemory
<1>8. RowsMemory(K, P)'
  BY <1>6, <1>7 DEF RowsMemory
<1>9. RowsLocks(K, N)'
  BY DEF Rows!Remember, Rows!NoLock, RowsLocks
<1>10. QED
  BY <1>8, <1>9

LEMMA RowsSchedules ==
  ASSUME NEW K, NEW R, NEW D, NEW F, NEW V, NEW P \in {{}, {"row", "keep"}}, NEW N \in Nat,
         data \in Nat, NEW jobs, JobsTrue(K, R, P, N, data, jobs), NEW k \in K,
         building \subseteq K, NEW validated \in SUBSET K,
         Rows(K, R, D, F, V)!Schedule(k, jobs, validated)
  PROVE  RowsSets(K)' /\ JobsTrue(K, R, P, N, data, job')
<1>1. CASE k \in building \cup validated
  BY <1>1 DEF Rows!Schedule, RowsSets
<1>2. CASE k \notin building \cup validated
  <2>1. /\ recent' = validated \cup {k} /\ building' = building \cup {k}
        /\ Rows(K, R, D, F, V)!Start(jobs, k, "validate", -1)
    BY <1>2 DEF Rows!Schedule, Rows!Absent
  <2>2. JobsTrue(K, R, P, N, data, job')
    BY <2>1, JobStarts
  <2>3. QED
    BY <2>1, <2>2 DEF RowsSets
<1>3. QED
  BY <1>1, <1>2

\* A step of one worker w to the job x, which is true of its place.
LEMMA RowsJobStep ==
  ASSUME NEW K, NEW R, NEW V, NEW P, NEW N \in Nat, RowsInv(K, R, P, N, V),
         NEW w \in R \cup Validators, NEW x \in RowJobs(K), x.lock = job[w].lock,
         -1 <= x.version, x.version <= data, -1 <= x.payload, x.payload <= data,
         x.at \in {"queue", "load"} => 0 <= x.version,
         x.at \in {"keep_built", "persist", "put"} => 0 <= x.version /\ x.version <= x.payload,
         x.at \in {"paint", "keep"} => 0 <= x.payload, x.at \notin P,
         job' = [job EXCEPT ![w] = x], data' = data
  PROVE  JobsTrue(K, R, P, N, data, job)'
<1>1. JobTrue(P, data, x)
  BY DEF JobTrue
<1>2. JobsTrue(K, R, P, N, data, job)
  BY DEF RowsInv
<1>3. x.lock <= N /\ (w \in R \/ x.lock = 0)
  BY <1>2 DEF JobsTrue
<1>4. JobsTrue(K, R, P, N, data, [job EXCEPT ![w] = x])
  BY <1>1, <1>2, <1>3, JobPut
<1>5. QED
  BY <1>4
\* The lock object of a key is one of the locks.
LEMMA LockObjects ==
  ASSUME NEW K, NEW R, NEW D, NEW F, NEW V, Rows(K, R, D, F, V)!CacheAssumption,
         NEW P, NEW N, N = Cardinality(K) + Cardinality(R), RowsInv(K, R, P, N, V), NEW k \in K
  PROVE  Rows(K, R, D, F, V)!LockObject(k) \in Nat /\ Rows(K, R, D, F, V)!LockObject(k) <= N
<1>1. /\ IsFiniteSet(K) /\ IsFiniteSet(R) /\ N \in Nat
      /\ Rows(K, R, D, F, V)!Locks = 1..N
  BY RowsSizes
<1>2. /\ mutex \in [K -> Nat] /\ mutex[k] <= N
      /\ \A w \in R \cup Validators : w \in R \/ job[w].lock = 0
  BY DEF RowsInv, RowsLocks, JobsTrue
<1>3. CASE mutex[k] # 0
  BY <1>2, <1>3 DEF Rows!LockObject, Rows!NoLock
<1>4. CASE mutex[k] = 0
  <2> DEFINE taken(l) == ~ \A w \in R \cup Validators, x \in K : l \notin {mutex[x], job[w].lock}
  <2>1. PICK g : g = [r \in R |-> job[r].lock]
    OBVIOUS
  <2>2. \E l \in 1..N : (\A x \in K : l # mutex[x]) /\ (\A r \in R : l # g[r])
    BY <1>1, <1>4, FreeLock
  <2>3. PICK l \in 1..N : (\A x \in K : l # mutex[x]) /\ (\A r \in R : l # job[r].lock)
    BY <2>1, <2>2
  <2>4. l # 0
    BY <1>1
  <2>5. ~taken(l)
    BY <1>2, <2>3, <2>4
  <2>6. Rows(K, R, D, F, V)!LockObject(k) = CHOOSE m \in 1..N : ~taken(m)
    BY <1>1, <1>4 DEF Rows!LockObject, Rows!NoLock, Rows!Workers
  <2> HIDE DEF taken
  <2>7. Rows(K, R, D, F, V)!LockObject(k) \in 1..N
    BY <2>5, <2>6
  <2>8. QED
    BY <1>1, <2>7
<1>5. QED
  BY <1>3, <1>4

\* What the invariant says of a job.
LEMMA RowsJobAt ==
  ASSUME NEW K, NEW R, NEW V, NEW P, NEW N \in Nat, RowsInv(K, R, P, N, V),
         NEW w \in R \cup Validators
  PROVE  /\ job[w] \in RowJobs(K) /\ job[w].key \in K /\ job[w].at \in RowPlaces
         /\ job[w].version \in Int /\ job[w].payload \in Int /\ data \in Nat
         /\ -1 <= job[w].version /\ job[w].version <= data
         /\ -1 <= job[w].payload /\ job[w].payload <= data
         /\ job[w].at \in {"queue", "load"} => 0 <= job[w].version
         /\ job[w].at \in {"keep_built", "persist", "put"} =>
               0 <= job[w].version /\ job[w].version <= job[w].payload
         /\ job[w].at \in {"paint", "keep"} => 0 <= job[w].payload
         /\ job[w].at \notin P
<1>1. JobsTrue(K, R, P, N, data, job) /\ data \in Nat
  BY DEF RowsInv, RowsStored
<1>2. JobTrue(P, data, job[w])
  BY <1>1, JobAt
<1>3. /\ job[w] \in RowJobs(K) /\ job[w].key \in K /\ job[w].at \in RowPlaces
      /\ job[w].version \in Int /\ job[w].payload \in Int
  BY <1>1, JobAt
<1>4. QED
  BY <1>1, <1>2, <1>3 DEF JobTrue

\* A worker goes to another place; a payload or a version is read on the way.
LEMMA RowsMoves ==
  ASSUME NEW K, NEW R, NEW V, NEW P, NEW N \in Nat, RowsInv(K, R, P, N, V),
         NEW w \in R \cup Validators, NEW at \in RowPlaces, job' = [job EXCEPT ![w].at = at],
         at \in {"queue", "load"} => 0 <= job[w].version,
         at \in {"keep_built", "persist", "put"} =>
            0 <= job[w].version /\ job[w].version <= job[w].payload,
         at \notin {"paint", "keep"}, at \notin P, data' = data
  PROVE  JobsTrue(K, R, P, N, data, job)'
<1>1. PICK j : j = job[w]
  OBVIOUS
<1>2. PICK x : x = [j EXCEPT !.at = at]
  OBVIOUS
<1>3. /\ j \in RowJobs(K)
      /\ -1 <= j.version /\ j.version <= data /\ -1 <= j.payload /\ j.payload <= data
  BY <1>1, RowsJobAt
<1>4. /\ x \in RowJobs(K) /\ x.at = at /\ x.lock = j.lock
      /\ x.version = j.version /\ x.payload = j.payload
  BY <1>2, <1>3, JobMoved
<1>5. job' = [job EXCEPT ![w] = x]
  BY <1>1, <1>2
<1>6. QED
  BY <1>1, <1>3, <1>4, <1>5, RowsJobStep

LEMMA RowsLoads ==
  ASSUME NEW K, NEW R, NEW V, NEW P, NEW N \in Nat, RowsInv(K, R, P, N, V),
         NEW w \in R \cup Validators, NEW at \in {"paint", "keep", "keep_built"}, NEW n \in Nat,
         n <= data, job' = [job EXCEPT ![w] = [job[w] EXCEPT !.at = at, !.payload = n]],
         at = "keep_built" => 0 <= job[w].version /\ job[w].version <= n,
         at \notin P, data' = data
  PROVE  JobsTrue(K, R, P, N, data, job)'
<1>1. PICK j : j = job[w]
  OBVIOUS
<1>2. PICK x : x = [j EXCEPT !.at = at, !.payload = n]
  OBVIOUS
<1>3. j \in RowJobs(K) /\ -1 <= j.version /\ j.version <= data
  BY <1>1, RowsJobAt
<1>4. at \in RowPlaces /\ n \in Int /\ 0 <= n /\ -1 <= n
  BY DEF RowPlaces
<1>5. /\ x \in RowJobs(K) /\ x.at = at /\ x.lock = j.lock
      /\ x.version = j.version /\ x.payload = n
  BY <1>2, <1>3, <1>4 DEF RowJobs
<1>6. job' = [job EXCEPT ![w] = x]
  BY <1>1, <1>2
<1>7. QED
  BY <1>1, <1>3, <1>4, <1>5, <1>6, RowsJobStep

LEMMA RowsVersions ==
  ASSUME NEW K, NEW R, NEW V, NEW P, NEW N \in Nat, RowsInv(K, R, P, N, V),
         NEW w \in R \cup Validators, NEW at \in {"queue", "load"},
         job' = [job EXCEPT ![w] = [job[w] EXCEPT !.at = at, !.version = data]],
         at \notin P, data' = data
  PROVE  JobsTrue(K, R, P, N, data, job)'
<1>1. PICK j : j = job[w]
  OBVIOUS
<1>2. PICK x : x = [j EXCEPT !.at = at, !.version = data]
  OBVIOUS
<1>3. j \in RowJobs(K) /\ -1 <= j.payload /\ j.payload <= data /\ data \in Nat
  BY <1>1, RowsJobAt
<1>4. at \in RowPlaces /\ data \in Int /\ 0 <= data /\ -1 <= data
  BY <1>3 DEF RowPlaces
<1>5. /\ x \in RowJobs(K) /\ x.at = at /\ x.lock = j.lock
      /\ x.version = data /\ x.payload = j.payload
  BY <1>2, <1>3, <1>4 DEF RowJobs
<1>6. job' = [job EXCEPT ![w] = x]
  BY <1>1, <1>2
<1>7. x.lock = job[w].lock /\ x.at \notin P /\ x.at \notin {"keep_built", "persist", "put", "paint", "keep"}
  BY <1>1, <1>5
<1>8. -1 <= x.version /\ x.version <= data /\ 0 <= x.version /\ -1 <= x.payload /\ x.payload <= data
  BY <1>3, <1>5
<1>9. QED
  BY <1>5, <1>6, <1>7, <1>8, RowsJobStep
LEMMA RowsOnlyJob ==
  ASSUME NEW K, NEW R, NEW V, NEW P, NEW N, RowsInv(K, R, P, N, V),
         UNCHANGED <<data, memory, building, recent, mutex, disk, row>>,
         JobsTrue(K, R, P, N, data, job)'
  PROVE  RowsInv(K, R, P, N, V)'
BY DEF RowsInv, RowsStored, RowsMemory, RowsLocks, RowsSets

\* A request reads the file and the row of its key.
LEMMA RowsReads ==
  ASSUME NEW K, NEW R, NEW D, NEW F, NEW V, NEW P, NEW N, RowsState(K, R, D, F, V, P, N),
         NEW r \in R, Rows(K, R, D, F, V)!Enter(r) \/ Rows(K, R, D, F, V)!GetRow(r)
  PROVE  RowsInv(K, R, P, N, V)'
<1>0. /\ P \in {{}, {"row", "keep"}} /\ N \in Nat /\ RowsInv(K, R, P, N, V)
      /\ FilesAlone(P, D)
  BY DEF RowsState
<1> USE <1>0
<1>1. PICK k \in K : k = job[r].key
  BY RowsJobAt
<1>2. /\ disk[k] \in Int /\ -1 <= disk[k] /\ disk[k] <= data /\ data \in Nat
      /\ row[k].label \in Int /\ row[k].payload \in Int
      /\ row[k].label <= row[k].payload /\ row[k].payload <= data
  BY DEF RowsInv, RowsStored, RowRecords
<1>3. UNCHANGED <<data, memory, building, recent, mutex, disk, row>>
  BY DEF Rows!Enter, Rows!GetRow, Rows!stored
<1>4. ASSUME NEW at \in {"row", "check"}, at = "row" => P = {}, job' = [job EXCEPT ![r].at = at]
      PROVE  JobsTrue(K, R, P, N, data, job)'
  <2>1. at \in RowPlaces /\ at \notin {"queue", "load", "keep_built", "persist", "put", "paint", "keep"}
    BY DEF RowPlaces
  <2>2. at \notin P
    BY <1>4
  <2>3. QED
    BY <1>3, <1>4, <2>1, <2>2, RowsMoves
<1>5. CASE Rows(K, R, D, F, V)!Enter(r)
  <2>1. CASE Rows(K, R, D, F, V)!Found(k) /\ (D => k \in (IF D THEN K ELSE {}))
    <3>1. job' = [job EXCEPT ![r] = [job[r] EXCEPT !.at = "paint", !.payload = disk[k]]]
      BY <1>1, <1>5, <2>1 DEF Rows!Enter
    <3>2. disk[k] \in Nat
      BY <1>2, <2>1 DEF Rows!Found, Rows!Absent
    <3>3. "paint" \notin P
      OBVIOUS
    <3>4. JobsTrue(K, R, P, N, data, job)'
      BY <1>2, <1>3, <3>1, <3>2, <3>3, RowsLoads
    <3>5. QED
      BY <1>3, <3>4, RowsOnlyJob
  <2>2. CASE ~(Rows(K, R, D, F, V)!Found(k) /\ (D => k \in (IF D THEN K ELSE {})))
    <3>1. PICK at \in {"row", "check"} : at = (IF D THEN "row" ELSE "check")
      OBVIOUS
    <3>2. at = "row" => P = {}
      BY <3>1 DEF FilesAlone
    <3>3. job' = [job EXCEPT ![r].at = at]
      BY <1>1, <1>5, <2>2, <3>1 DEF Rows!Enter, Rows!Moved
    <3>4. QED
      BY <1>3, <1>4, <3>2, <3>3, RowsOnlyJob
  <2>3. QED
    BY <2>1, <2>2
<1>6. CASE Rows(K, R, D, F, V)!GetRow(r)
  <2>1. CASE job' = Rows(K, R, D, F, V)!Moved(r, "check")
    <3>1. job' = [job EXCEPT ![r].at = "check"]
      BY <2>1 DEF Rows!Moved
    <3>2. QED
      BY <1>3, <1>4, <3>1, RowsOnlyJob
  <2>2. CASE job' # Rows(K, R, D, F, V)!Moved(r, "check")
    <3>1. /\ job[r].at = "row" /\ row[k].label = data
          /\ job' = [job EXCEPT ![r] = [job[r] EXCEPT !.at = "keep", !.payload = row[k].payload]]
      BY <1>1, <1>6, <2>2 DEF Rows!GetRow
    <3>2. row[k].payload \in Nat
      BY <1>2, <3>1
    <3>3. "keep" \notin P
      <4>1. "row" \notin P
        BY <3>1, RowsJobAt
      <4>2. QED
        BY <4>1
    <3>4. JobsTrue(K, R, P, N, data, job)'
      BY <1>2, <1>3, <3>1, <3>2, <3>3, RowsLoads
    <3>5. QED
      BY <1>3, <3>4, RowsOnlyJob
  <2>3. QED
    BY <2>1, <2>2
<1>7. QED
  BY <1>5, <1>6
\* A request that answers from what it read.
LEMMA RowsAnswers ==
  ASSUME NEW K, NEW R, NEW D, NEW F, NEW V, NEW P, NEW N, RowsState(K, R, D, F, V, P, N),
         NEW r \in R, Rows(K, R, D, F, V)!Paint(r) \/ Rows(K, R, D, F, V)!KeepRow(r)
  PROVE  RowsInv(K, R, P, N, V)'
<1>0. /\ P \in {{}, {"row", "keep"}} /\ N \in Nat /\ RowsInv(K, R, P, N, V)
      /\ MaxEntries \in Nat \ {0}
  BY RowsSizes DEF RowsState
<1> USE <1>0
<1>1. PICK k \in K : k = job[r].key
  BY RowsJobAt
<1>2. PICK n \in Nat : n = job[r].payload /\ n <= data
  BY RowsJobAt DEF Rows!Paint, Rows!KeepRow
<1>3. /\ RowsMemory(K, P) /\ RowsLocks(K, N) /\ RowsSets(K) /\ RowsStored(K, V)
      /\ JobsTrue(K, R, P, N, data, job) /\ data \in Nat
  BY DEF RowsInv, RowsStored
<1>4. UNCHANGED <<data, disk, row>>
  BY DEF Rows!Paint, Rows!KeepRow, Rows!stored
<1>5. RowsStored(K, V)'
  BY <1>3, <1>4 DEF RowsStored
<1>6. JobsTrue(K, R, P, N, data, Rows(K, R, D, F, V)!Answered(r))
  BY <1>3, JobAnswered
<1>7. Rows(K, R, D, F, V)!Kept(k) \in SUBSET K
  BY <1>3 DEF Rows!Kept, RowsSets
<1>8. CASE Rows(K, R, D, F, V)!Paint(r)
  <2>1. /\ Rows(K, R, D, F, V)!Remember(k, -1, n)
        /\ Rows(K, R, D, F, V)!Schedule(k, Rows(K, R, D, F, V)!Answered(r), Rows(K, R, D, F, V)!Kept(k))
    BY <1>1, <1>2, <1>8 DEF Rows!Paint, Rows!AnswerPainted, Rows!Absent
  <2>2. RowsMemory(K, P)' /\ RowsLocks(K, N)'
    BY <1>2, <1>3, <1>4, <2>1, RowsRemembers
  <2>3. RowsSets(K)' /\ JobsTrue(K, R, P, N, data, job')
    <3>1. building \subseteq K
      BY <1>3 DEF RowsSets
    <3>2. RowsSets(K)'
      BY <1>3, <1>6, <1>7, <2>1, <3>1, RowsSchedules
    <3>3. JobsTrue(K, R, P, N, data, job')
      BY <1>3, <1>6, <1>7, <2>1, <3>1, RowsSchedules
    <3>4. QED
      BY <3>2, <3>3
  <2>4. QED
    BY <1>4, <1>5, <2>2, <2>3 DEF RowsInv
<1>9. CASE Rows(K, R, D, F, V)!KeepRow(r)
  <2>1. /\ Rows(K, R, D, F, V)!Remember(k, data, n)
        /\ recent' = Rows(K, R, D, F, V)!Kept(k) \cup {k} /\ building' = building \ {k}
        /\ job' = Rows(K, R, D, F, V)!Answered(r) /\ job[r].at = "keep"
    BY <1>1, <1>2, <1>9 DEF Rows!KeepRow
  <2>2. P = {}
    <3>1. "keep" \notin P
      BY <2>1, RowsJobAt
    <3>2. QED
      BY <3>1
  <2>3. RowsMemory(K, P)' /\ RowsLocks(K, N)'
    BY <1>2, <1>3, <1>4, <2>1, <2>2, RowsRemembers
  <2>4. RowsSets(K)'
    BY <1>3, <1>7, <2>1 DEF RowsSets
  <2>5. QED
    BY <1>4, <1>5, <1>6, <2>1, <2>3, <2>4 DEF RowsInv
<1>10. QED
  BY <1>8, <1>9

\* A request that looks for its key.
LEMMA RowsGets ==
  ASSUME NEW K, NEW R, NEW D, NEW F, NEW V, NEW P, NEW N, RowsState(K, R, D, F, V, P, N),
         NEW r \in R, NEW k \in K, Rows(K, R, D, F, V)!Get(r, k)
  PROVE  RowsInv(K, R, P, N, V)'
<1>0. /\ P \in {{}, {"row", "keep"}} /\ N \in Nat /\ RowsInv(K, R, P, N, V)
      /\ Rows(K, R, D, F, V)!CacheAssumption /\ N = Cardinality(K) + Cardinality(R)
  BY DEF RowsState
<1> USE <1>0
<1>1. /\ RowsMemory(K, P) /\ RowsLocks(K, N) /\ RowsSets(K) /\ RowsStored(K, V)
      /\ JobsTrue(K, R, P, N, data, job) /\ data \in Nat
  BY DEF RowsInv, RowsStored
<1>2. UNCHANGED <<data, memory, disk, row>>
  BY DEF Rows!Get, Rows!stored
<1>3. RowsStored(K, V)' /\ RowsMemory(K, P)'
  BY <1>1, <1>2 DEF RowsStored, RowsMemory
<1>4. CASE UNCHANGED <<mutex, building, recent, job>>
  BY <1>1, <1>2, <1>3, <1>4 DEF RowsInv, RowsLocks, RowsSets
<1>5. CASE Rows(K, R, D, F, V)!Schedule(k, job, recent) /\ UNCHANGED mutex
  <2>1. RowsSets(K)' /\ JobsTrue(K, R, P, N, data, job')
    <3>1. building \subseteq K /\ recent \in SUBSET K
      BY <1>1 DEF RowsSets
    <3>2. RowsSets(K)'
      BY <1>0, <1>1, <1>5, <3>1, RowsSchedules
    <3>3. JobsTrue(K, R, P, N, data, job')
      BY <1>0, <1>1, <1>5, <3>1, RowsSchedules
    <3>4. QED
      BY <3>2, <3>3
  <2>2. RowsLocks(K, N)'
    BY <1>1, <1>5 DEF RowsLocks
  <2>3. QED
    BY <1>2, <1>3, <2>1, <2>2 DEF RowsInv
<1>6. CASE /\ mutex' = [mutex EXCEPT ![k] = Rows(K, R, D, F, V)!LockObject(k)]
           /\ job' = [job EXCEPT ![r] = [Rows(K, R, D, F, V)!Done(k) EXCEPT
                        !.at = "wait", !.lock = Rows(K, R, D, F, V)!LockObject(k)]]
           /\ UNCHANGED <<building, recent>>
  <2>1. PICK l \in Nat : l = Rows(K, R, D, F, V)!LockObject(k) /\ l <= N
    BY LockObjects
  <2>2. PICK free \in RowJobs(K) :
          /\ free = Rows(K, R, D, F, V)!Done(k)
          /\ free.version = -1 /\ free.payload = -1
    BY DoneJob
  <2>3. PICK x : x = [free EXCEPT !.at = "wait", !.lock = l]
    OBVIOUS
  <2>4. x \in RowJobs(K) /\ x.at = "wait" /\ x.lock = l /\ x.version = -1 /\ x.payload = -1
    BY <2>2, <2>3 DEF RowJobs, RowPlaces
  <2>5. JobTrue(P, data, x)
    BY <1>1, <2>4 DEF JobTrue
  <2>6. JobsTrue(K, R, P, N, data, [job EXCEPT ![r] = x])
    BY <1>0, <1>1, <2>1, <2>4, <2>5, JobPut
  <2>7. job' = [job EXCEPT ![r] = x] /\ mutex' = [mutex EXCEPT ![k] = l]
    BY <1>6, <2>1, <2>2, <2>3
  <2>8. RowsLocks(K, N)'
    BY <1>1, <2>1, <2>7 DEF RowsLocks
  <2>9. RowsSets(K)'
    BY <1>1, <1>6 DEF RowsSets
  <2>10. QED
    BY <1>2, <1>3, <2>6, <2>7, <2>8, <2>9 DEF RowsInv
<1>7. QED
  BY <1>4, <1>5, <1>6 DEF Rows!Get

\* A request that checks what it found.
LEMMA RowsChecks ==
  ASSUME NEW K, NEW R, NEW D, NEW F, NEW V, NEW P, NEW N, RowsState(K, R, D, F, V, P, N),
         NEW r \in R, Rows(K, R, D, F, V)!CheckRows(r) \/ Rows(K, R, D, F, V)!CheckFiles(r)
  PROVE  RowsInv(K, R, P, N, V)'
<1>0. /\ P \in {{}, {"row", "keep"}} /\ N \in Nat /\ RowsInv(K, R, P, N, V)
      /\ MaxEntries \in Nat \ {0}
  BY RowsSizes DEF RowsState
<1> USE <1>0
<1>1. PICK k \in K : k = job[r].key
  BY RowsJobAt
<1>2. /\ RowsMemory(K, P) /\ RowsLocks(K, N) /\ RowsSets(K) /\ RowsStored(K, V)
      /\ JobsTrue(K, R, P, N, data, job) /\ data \in Nat /\ data' = data
      /\ disk[k] \in Int /\ -1 <= disk[k] /\ disk[k] <= data
  BY DEF RowsInv, RowsStored, Rows!CheckRows, Rows!CheckFiles
<1>3. UNCHANGED <<data, disk, row>>
  BY DEF Rows!CheckRows, Rows!CheckFiles, Rows!stored
<1>4. RowsStored(K, V)'
  BY <1>2, <1>3 DEF RowsStored
<1>5. JobsTrue(K, R, P, N, data, Rows(K, R, D, F, V)!Answered(r))
  BY <1>2, JobAnswered
<1>6. ASSUME job' = Rows(K, R, D, F, V)!ToBuild(r, k) PROVE JobsTrue(K, R, P, N, data, job)'
  <2>1. PICK at \in {"queue", "load"} :
          job' = [job EXCEPT ![r] = [job[r] EXCEPT !.at = at, !.version = data]]
    BY <1>6 DEF Rows!ToBuild
  <2>2. at \notin P
    OBVIOUS
  <2>3. QED
    BY <1>3, <2>1, <2>2, RowsVersions
<1>7. ASSUME Rows(K, R, D, F, V)!Start(Rows(K, R, D, F, V)!Answered(r), k, "queue", data)
      PROVE  JobsTrue(K, R, P, N, data, job)'
  <2>1. JobsTrue(K, R, P, N, data, job')
    BY <1>2, <1>5, <1>7, JobStarts
  <2>2. QED
    BY <1>3, <2>1
<1>8. ASSUME Rows(K, R, D, F, V)!Remember(k, -1, disk[k]), 0 <= disk[k]
      PROVE  RowsMemory(K, P)' /\ RowsLocks(K, N)'
  BY <1>2, <1>8, RowsRemembers
<1>9. ASSUME UNCHANGED <<memory, mutex>> PROVE RowsMemory(K, P)' /\ RowsLocks(K, N)'
  BY <1>2, <1>9 DEF RowsMemory, RowsLocks
<1>10. Rows(K, R, D, F, V)!Kept(k) \subseteq K
  BY <1>2 DEF Rows!Kept, RowsSets
<1>11. CASE Rows(K, R, D, F, V)!CheckRows(r)
  <2>1. UNCHANGED <<memory, recent, mutex>>
    BY <1>11 DEF Rows!CheckRows
  <2>2. JobsTrue(K, R, P, N, data, job)' /\ building' \subseteq K
    <3>1. CASE job' = Rows(K, R, D, F, V)!Answered(r) /\ UNCHANGED building
      BY <1>2, <1>5, <3>1 DEF RowsSets
    <3>2. CASE job' = Rows(K, R, D, F, V)!ToBuild(r, k) /\ building' = building \cup {k}
      BY <1>2, <1>6, <3>2 DEF RowsSets
    <3>3. QED
      BY <1>1, <1>11, <3>1, <3>2 DEF Rows!CheckRows
  <2>3. QED
    BY <1>2, <1>4, <1>9, <2>1, <2>2 DEF RowsInv, RowsSets
<1>12. CASE Rows(K, R, D, F, V)!CheckFiles(r)
  <2>1. CASE job' = Rows(K, R, D, F, V)!Answered(r) /\ UNCHANGED <<memory, mutex, recent, building>>
    BY <1>2, <1>4, <1>5, <1>9, <2>1 DEF RowsInv, RowsSets
  <2>2. CASE Rows(K, R, D, F, V)!ServeStale(r, k)
    <3>1. UNCHANGED <<memory, mutex, recent>> /\ building' \subseteq K
      BY <1>2, <2>2 DEF Rows!ServeStale, RowsSets
    <3>2. JobsTrue(K, R, P, N, data, job)'
      BY <1>2, <1>5, <1>7, <2>2 DEF Rows!ServeStale
    <3>3. QED
      BY <1>2, <1>4, <1>9, <3>1, <3>2 DEF RowsInv, RowsSets
  <2>3. CASE Rows(K, R, D, F, V)!ServePersisted(r, k)
    <3>1. /\ recent' = Rows(K, R, D, F, V)!Kept(k) /\ building' = building \cup {k}
          /\ Rows(K, R, D, F, V)!Remember(k, -1, disk[k]) /\ 0 <= disk[k]
      BY <1>2, <2>3 DEF Rows!ServePersisted, Rows!Found, Rows!Absent
    <3>2. JobsTrue(K, R, P, N, data, job)'
      BY <1>7, <2>3 DEF Rows!ServePersisted
    <3>3. QED
      BY <1>2, <1>4, <1>8, <1>10, <3>1, <3>2 DEF RowsInv, RowsSets
  <2>4. CASE Rows(K, R, D, F, V)!BuildNow(r, k)
    <3>1. JobsTrue(K, R, P, N, data, job)' /\ building' = building \cup {k}
      BY <1>6, <2>4 DEF Rows!BuildNow
    <3>2. RowsMemory(K, P)' /\ RowsLocks(K, N)' /\ recent' \subseteq K
      <4>1. CASE /\ disk[k] # -1 /\ Rows(K, R, D, F, V)!Remember(k, -1, disk[k])
                 /\ recent' = Rows(K, R, D, F, V)!Kept(k)
        BY <1>2, <1>8, <1>10, <4>1
      <4>2. CASE UNCHANGED <<memory, mutex, recent>>
        BY <1>2, <1>9, <4>2 DEF RowsSets
      <4>3. QED
        BY <2>4, <4>1, <4>2 DEF Rows!BuildNow, Rows!Absent
    <3>3. QED
      BY <1>2, <1>4, <3>1, <3>2 DEF RowsInv, RowsSets
  <2>5. QED
    BY <1>1, <1>12, <2>1, <2>2, <2>3, <2>4 DEF Rows!CheckFiles
<1>13. QED
  BY <1>11, <1>12
\* The steps of a build, and of a thread that validates.
LEMMA RowsBuilds ==
  ASSUME NEW K, NEW R, NEW D, NEW F, NEW V, NEW P, NEW N, RowsState(K, R, D, F, V, P, N),
         NEW w \in R \cup Validators,
         Rows(K, R, D, F, V)!Built(w) \/ Rows(K, R, D, F, V)!LoadFails(w)
  PROVE  RowsInv(K, R, P, N, V)'
<1>0. /\ P \in {{}, {"row", "keep"}} /\ N \in Nat /\ RowsInv(K, R, P, N, V)
      /\ MaxEntries \in Nat \ {0}
  BY RowsSizes DEF RowsState
<1> USE <1>0
<1>1. PICK k \in K : k = job[w].key
  BY RowsJobAt
<1>2. /\ RowsMemory(K, P) /\ RowsLocks(K, N) /\ RowsSets(K) /\ RowsStored(K, V)
      /\ JobsTrue(K, R, P, N, data, job) /\ data \in Nat
  BY DEF RowsInv, RowsStored
<1>3. JobsTrue(K, R, P, N, data, Rows(K, R, D, F, V)!Answered(w))
  BY <1>2, JobAnswered
<1>4. CASE Rows(K, R, D, F, V)!TakeSemaphore(w)
  <2>1. /\ UNCHANGED <<data, memory, building, recent, mutex, disk, row>>
        /\ job[w].at = "queue" /\ job' = [job EXCEPT ![w].at = "load"]
    BY <1>4 DEF Rows!TakeSemaphore, Rows!stored, Rows!Moved
  <2>2. 0 <= job[w].version /\ "load" \notin P /\ "load" \in RowPlaces
    BY <2>1, RowsJobAt DEF RowPlaces
  <2>3. JobsTrue(K, R, P, N, data, job)'
    BY <2>1, <2>2, RowsMoves
  <2>4. QED
    BY <2>1, <2>3, RowsOnlyJob
<1>5. CASE Rows(K, R, D, F, V)!Load(w)
  <2>1. /\ UNCHANGED <<data, memory, building, recent, mutex, disk, row>>
        /\ job[w].at = "load"
        /\ job' = [job EXCEPT ![w] = [job[w] EXCEPT !.at = "keep_built", !.payload = data]]
    BY <1>5 DEF Rows!Load, Rows!stored
  <2>2. 0 <= job[w].version /\ job[w].version <= data
    BY <2>1, RowsJobAt
  <2>3. PICK n \in Nat : n = data /\ n <= data
    BY <1>2
  <2>4. /\ job' = [job EXCEPT ![w] = [job[w] EXCEPT !.at = "keep_built", !.payload = n]]
        /\ job[w].version <= n /\ data' = data
    BY <2>1, <2>2, <2>3
  <2>5. JobsTrue(K, R, P, N, data, job')
    BY <1>2, <2>2, <2>3, <2>4, RowsLoads
  <2>6. JobsTrue(K, R, P, N, data, job)'
    BY <2>4, <2>5
  <2>7. QED
    BY <2>1, <2>6, RowsOnlyJob
<1>6. CASE Rows(K, R, D, F, V)!KeepBuilt(w)
  <2>1. PICK m \in Nat, n \in Nat : /\ m = job[w].version /\ n = job[w].payload
                                    /\ m <= n /\ n <= data /\ m <= data
    BY <1>6, RowsJobAt DEF Rows!KeepBuilt
  <2>2. /\ Rows(K, R, D, F, V)!Remember(k, m, n)
        /\ recent' = Rows(K, R, D, F, V)!Kept(k) /\ building' = building \ {k}
        /\ job' = [job EXCEPT ![w].at = "persist"] /\ UNCHANGED <<data, disk, row>>
    BY <1>1, <1>6, <2>1 DEF Rows!KeepBuilt, Rows!Moved, Rows!stored
  <2>3. RowsMemory(K, P)' /\ RowsLocks(K, N)'
    BY <1>2, <2>1, <2>2, RowsRemembers
  <2>4. RowsSets(K)' /\ RowsStored(K, V)'
    BY <1>2, <2>2 DEF RowsSets, RowsStored, Rows!Kept
  <2>5. "persist" \notin P /\ "persist" \in RowPlaces /\ 0 <= job[w].version
    BY <2>1 DEF RowPlaces
  <2>6. JobsTrue(K, R, P, N, data, job)'
    BY <2>1, <2>2, <2>5, RowsMoves
  <2>7. QED
    BY <2>3, <2>4, <2>6 DEF RowsInv
<1>7. CASE Rows(K, R, D, F, V)!Persist(w)
  <2>1. /\ UNCHANGED <<data, memory, building, recent, mutex, row>>
        /\ job[w].at = "persist" /\ job' = [job EXCEPT ![w].at = "put"]
        /\ disk' = [disk EXCEPT ![k] = job[w].payload]
    BY <1>1, <1>7 DEF Rows!Persist, Rows!Moved
  <2>2. /\ 0 <= job[w].version /\ job[w].version <= job[w].payload
        /\ job[w].payload \in Int /\ -1 <= job[w].payload /\ job[w].payload <= data
        /\ "put" \notin P /\ "put" \in RowPlaces
    BY <2>1, RowsJobAt DEF RowPlaces
  <2>3. JobsTrue(K, R, P, N, data, job)'
    BY <2>1, <2>2, RowsMoves
  <2>4. RowsStored(K, V)'
    BY <1>2, <2>1, <2>2 DEF RowsStored
  <2>5. RowsMemory(K, P)' /\ RowsLocks(K, N)' /\ RowsSets(K)'
    BY <1>2, <2>1 DEF RowsMemory, RowsLocks, RowsSets
  <2>6. QED
    BY <2>3, <2>4, <2>5 DEF RowsInv
<1>8. CASE Rows(K, R, D, F, V)!Put(w)
  <2>1. /\ UNCHANGED <<data, memory, building, recent, mutex, disk>> /\ job[w].at = "put"
        /\ job' = Rows(K, R, D, F, V)!Answered(w)
    BY <1>8 DEF Rows!Put
  <2>2. PICK n \in Int : /\ n = job[w].payload /\ 0 <= job[w].version
                         /\ job[w].version <= n /\ n <= data
    BY <2>1, RowsJobAt
  <2>3. RowsStored(K, V)'
    <3>1. CASE row' = row
      BY <1>2, <2>1, <3>1 DEF RowsStored
    <3>2. CASE row' # row
      <4>1. PICK x : x = [label |-> data, payload |-> n]
        OBVIOUS
      <4>2. row' = [row EXCEPT ![k] = x] /\ job[w].version = data
        BY <1>1, <1>8, <2>2, <3>2, <4>1 DEF Rows!Put
      <4>3. x \in RowRecords /\ x.label = data /\ x.payload = n
        BY <1>2, <4>1 DEF RowRecords
      <4>4. QED
        BY <1>2, <2>1, <2>2, <4>2, <4>3 DEF RowsStored
    <3>3. QED
      BY <3>1, <3>2
  <2>4. RowsMemory(K, P)' /\ RowsLocks(K, N)' /\ RowsSets(K)'
    BY <1>2, <2>1 DEF RowsMemory, RowsLocks, RowsSets
  <2>5. QED
    BY <1>3, <2>1, <2>3, <2>4 DEF RowsInv
<1>9. CASE Rows(K, R, D, F, V)!LoadFails(w)
  <2>1. /\ UNCHANGED <<data, memory, recent, mutex, disk, row>> /\ building' \subseteq building
        /\ job' = Rows(K, R, D, F, V)!Answered(w)
    BY <1>9 DEF Rows!LoadFails, Rows!stored
  <2>2. RowsStored(K, V)' /\ RowsMemory(K, P)' /\ RowsLocks(K, N)' /\ RowsSets(K)'
    BY <1>2, <2>1 DEF RowsStored, RowsMemory, RowsLocks, RowsSets
  <2>3. QED
    BY <1>3, <2>1, <2>2 DEF RowsInv
<1>10. QED
  BY <1>4, <1>5, <1>6, <1>7, <1>8, <1>9 DEF Rows!Built

LEMMA RowsValidates ==
  ASSUME NEW K, NEW R, NEW D, NEW F, NEW V, NEW P, NEW N, RowsState(K, R, D, F, V, P, N),
         NEW t \in Validators, Rows(K, R, D, F, V)!Validate(t)
  PROVE  RowsInv(K, R, P, N, V)'
<1>0. /\ P \in {{}, {"row", "keep"}} /\ N \in Nat /\ RowsInv(K, R, P, N, V)
      /\ data \in Nat
  BY DEF RowsState, RowsInv, RowsStored
<1> USE <1>0
<1>1. PICK k \in K : k = job[t].key
  BY RowsJobAt
<1>2. /\ RowsMemory(K, P) /\ RowsLocks(K, N) /\ RowsSets(K) /\ RowsStored(K, V)
      /\ JobsTrue(K, R, P, N, data, job) /\ data \in Nat
  BY DEF RowsInv, RowsStored
<1>3. UNCHANGED <<data, memory, mutex, disk, row>>
  BY DEF Rows!Validate, Rows!stored
<1>4. RowsMemory(K, P)' /\ RowsLocks(K, N)' /\ RowsStored(K, V)'
  BY <1>2, <1>3 DEF RowsMemory, RowsLocks, RowsStored
<1>5. CASE /\ building' = building \ {k} /\ recent' = recent \cup {k}
           /\ job' = Rows(K, R, D, F, V)!Answered(t)
  <2>1. JobsTrue(K, R, P, N, data, Rows(K, R, D, F, V)!Answered(t))
    BY <1>2, JobAnswered
  <2>2. RowsSets(K)'
    BY <1>2, <1>5 DEF RowsSets
  <2>3. QED
    BY <1>3, <1>4, <1>5, <2>1, <2>2 DEF RowsInv
<1>6. CASE /\ job' = [job EXCEPT ![t] = [job[t] EXCEPT !.at = "queue", !.version = data]]
           /\ UNCHANGED <<building, recent>>
  <2>1. "queue" \notin P
    OBVIOUS
  <2>2. JobsTrue(K, R, P, N, data, job)'
    BY <1>3, <1>6, <2>1, RowsVersions
  <2>3. RowsSets(K)'
    BY <1>2, <1>6 DEF RowsSets
  <2>4. QED
    BY <1>4, <2>2, <2>3 DEF RowsInv
<1>7. QED
  BY <1>1, <1>5, <1>6 DEF Rows!Validate

LEMMA RowsStart ==
  ASSUME NEW K, NEW R, NEW D, NEW F, NEW V, Rows(K, R, D, F, V)!CacheAssumption,
         NEW P \in {{}, {"row", "keep"}}, NEW N \in Nat, NEW d \in Nat
  PROVE  JobsTrue(K, R, P, N, d, [w \in R \cup Validators |-> Rows(K, R, D, F, V)!Idle])
<1>1. PICK k \in K : k = CHOOSE x \in K : TRUE
  BY RowsSizes
<1>2. PICK free : free = Rows(K, R, D, F, V)!Done(k)
  OBVIOUS
<1>3. /\ free \in RowJobs(K) /\ free.at = "idle" /\ free.lock = 0
      /\ free.version = -1 /\ free.payload = -1
  BY <1>2, DoneJob
<1>4. free = Rows(K, R, D, F, V)!Idle
  BY <1>1, <1>2 DEF Rows!Idle
<1>5. JobTrue(P, d, free)
  BY <1>3 DEF JobTrue
<1>6. JobsTrue(K, R, P, N, d, [w \in R \cup Validators |-> free])
  BY <1>3, <1>5 DEF JobsTrue
<1>7. QED
  BY <1>4, <1>6

LEMMA EmptyMemory ==
  ASSUME NEW K, MaxEntries \in Nat
  PROVE  /\ <<>> \in Seq(RowEntries(K)) /\ Distinct(<<>>) /\ Len(<<>>) <= MaxEntries
         /\ Len(<<>>) = 0
BY DEF Distinct

\* The data changes, the clock runs, the process starts again.
LEMMA RowsEnvironment ==
  ASSUME NEW K, NEW R, NEW D, NEW F, NEW V, NEW P, NEW N, RowsState(K, R, D, F, V, P, N),
         \/ \E k \in K : Rows(K, R, D, F, V)!IntervalPasses(k)
         \/ Rows(K, R, D, F, V)!Change
         \/ Rows(K, R, D, F, V)!Restart
  PROVE  RowsInv(K, R, P, N, V)'
<1>0. /\ P \in {{}, {"row", "keep"}} /\ N \in Nat /\ RowsInv(K, R, P, N, V)
      /\ Rows(K, R, D, F, V)!CacheAssumption
  BY DEF RowsState
<1> USE <1>0
<1>1. /\ RowsMemory(K, P) /\ RowsLocks(K, N) /\ RowsSets(K) /\ RowsStored(K, V)
      /\ JobsTrue(K, R, P, N, data, job) /\ data \in Nat /\ V \in Nat /\ data <= V
  BY RowsSizes DEF RowsInv, RowsStored
<1>2. CASE \E k \in K : Rows(K, R, D, F, V)!IntervalPasses(k)
  <2>1. /\ UNCHANGED <<data, memory, building, mutex, disk, row, job>>
        /\ recent' \subseteq recent
    BY <1>2 DEF Rows!IntervalPasses, Rows!stored
  <2>2. QED
    BY <1>1, <2>1 DEF RowsInv, RowsMemory, RowsLocks, RowsSets, RowsStored
<1>3. CASE Rows(K, R, D, F, V)!Change
  <2>1. PICK n \in Nat : n = data + 1 /\ n <= V /\ data <= n
    BY <1>1, <1>3 DEF Rows!Change
  <2>2. data' = n /\ UNCHANGED <<memory, building, recent, mutex, disk, row, job>>
    BY <1>3, <2>1 DEF Rows!Change, Rows!stored
  <2>3. RowsStored(K, V)'
    BY <1>1, <2>1, <2>2 DEF RowsStored, RowRecords
  <2>4. RowsMemory(K, P)'
    <3>1. ASSUME NEW e \in RowEntries(K), EntryTrue(P, data, e) PROVE EntryTrue(P, n, e)
      BY <1>1, <2>1, <3>1 DEF EntryTrue, RowEntries
    <3>2. \A i \in 1..Len(memory) : memory[i] \in RowEntries(K)
      BY <1>1 DEF RowsMemory
    <3>3. QED
      BY <1>1, <2>2, <3>1, <3>2 DEF RowsMemory
  <2>5. RowsLocks(K, N)' /\ RowsSets(K)'
    BY <1>1, <2>2 DEF RowsLocks, RowsSets
  <2>6. JobsTrue(K, R, P, N, n, job)
    <3>1. ASSUME NEW j \in RowJobs(K), JobTrue(P, data, j) PROVE JobTrue(P, n, j)
      BY <1>1, <2>1, <3>1 DEF JobTrue, RowJobs
    <3>2. QED
      BY <1>1, <3>1 DEF JobsTrue
  <2>7. JobsTrue(K, R, P, N, data, job)'
    BY <2>2, <2>6
  <2>8. QED
    BY <2>3, <2>4, <2>5, <2>7 DEF RowsInv
<1>4. CASE Rows(K, R, D, F, V)!Restart
  <2>1. /\ memory' = <<>> /\ building' = {} /\ recent' = {} /\ mutex' = [k \in K |-> 0]
        /\ job' = [w \in R \cup Validators |-> Rows(K, R, D, F, V)!Idle]
        /\ UNCHANGED <<data, disk, row>>
    BY <1>4 DEF Rows!Restart, Rows!NoLock, Rows!Workers, Rows!stored
  <2>0. JobsTrue(K, R, P, N, data, [w \in R \cup Validators |-> Rows(K, R, D, F, V)!Idle])
    BY <1>1, RowsStart
  <2>2. JobsTrue(K, R, P, N, data, job') /\ MaxEntries \in Nat
    BY <2>0, <2>1, RowsSizes
  <2>3. RowsStored(K, V)'
    BY <1>1, <2>1 DEF RowsStored
  <2>4. RowsMemory(K, P)'
    BY <2>1, <2>2, EmptyMemory DEF RowsMemory
  <2>5. RowsLocks(K, N)' /\ RowsSets(K)' /\ JobsTrue(K, R, P, N, data, job)'
    BY <2>1, <2>2 DEF RowsLocks, RowsSets
  <2>6. QED
    BY <2>3, <2>4, <2>5 DEF RowsInv
<1>5. QED
  BY <1>2, <1>3, <1>4

LEMMA RowsInit ==
  ASSUME NEW K, NEW R, NEW D, NEW F, NEW V, Rows(K, R, D, F, V)!CacheAssumption,
         NEW P \in {{}, {"row", "keep"}}, NEW N \in Nat, Rows(K, R, D, F, V)!Init
  PROVE  RowsInv(K, R, P, N, V)
<1>1. /\ data = 0 /\ memory = <<>> /\ building = {} /\ recent = {}
      /\ mutex = [k \in K |-> 0]
      /\ job = [w \in R \cup Validators |-> Rows(K, R, D, F, V)!Idle]
      /\ disk = [k \in K |-> -1] /\ row = [k \in K |-> [label |-> -1, payload |-> -1]]
  BY DEF Rows!Init, Rows!NoLock, Rows!Workers, Rows!Absent, Rows!NoRow
<1>2. V \in Nat /\ data \in Nat /\ data <= V
  BY <1>1, RowsSizes
<1>3. JobsTrue(K, R, P, N, data, job) /\ MaxEntries \in Nat
  <2>1. JobsTrue(K, R, P, N, data, [w \in R \cup Validators |-> Rows(K, R, D, F, V)!Idle])
    BY <1>2, RowsStart
  <2>2. QED
    BY <1>1, <2>1, RowsSizes
<1>4. RowsStored(K, V)
  BY <1>1, <1>2 DEF RowsStored, RowRecords
<1>5. RowsMemory(K, P)
  BY <1>1, <1>3, EmptyMemory DEF RowsMemory
<1>6. RowsLocks(K, N) /\ RowsSets(K)
  BY <1>1, <1>3 DEF RowsLocks, RowsSets
<1>7. QED
  BY <1>3, <1>4, <1>5, <1>6 DEF RowsInv

LEMMA RowsKeeps ==
  ASSUME NEW K, NEW R, NEW D, NEW F, NEW V, NEW P, NEW N, RowsState(K, R, D, F, V, P, N),
         Rows(K, R, D, F, V)!Next
  PROVE  RowsInv(K, R, P, N, V)'
<1>1. ASSUME NEW r \in R, Rows(K, R, D, F, V)!Enter(r) \/ Rows(K, R, D, F, V)!GetRow(r)
      PROVE  RowsInv(K, R, P, N, V)'
  BY <1>1, RowsReads
<1>2. ASSUME NEW r \in R, Rows(K, R, D, F, V)!Paint(r) \/ Rows(K, R, D, F, V)!KeepRow(r)
      PROVE  RowsInv(K, R, P, N, V)'
  BY <1>2, RowsAnswers
<1>3. ASSUME NEW r \in R, Rows(K, R, D, F, V)!CheckRows(r) \/ Rows(K, R, D, F, V)!CheckFiles(r)
      PROVE  RowsInv(K, R, P, N, V)'
  BY <1>3, RowsChecks
<1>4. ASSUME NEW r \in R, NEW k \in K, Rows(K, R, D, F, V)!Get(r, k)
      PROVE  RowsInv(K, R, P, N, V)'
  BY <1>4, RowsGets
<1>5. ASSUME NEW t \in Validators, Rows(K, R, D, F, V)!Validate(t)
      PROVE  RowsInv(K, R, P, N, V)'
  BY <1>5, RowsValidates
<1>6. ASSUME NEW w \in R \cup Validators,
             Rows(K, R, D, F, V)!Built(w) \/ Rows(K, R, D, F, V)!LoadFails(w)
      PROVE  RowsInv(K, R, P, N, V)'
  BY <1>6, RowsBuilds
<1>7. CASE \/ \E k \in K : Rows(K, R, D, F, V)!IntervalPasses(k)
           \/ Rows(K, R, D, F, V)!Change
           \/ Rows(K, R, D, F, V)!Restart
  BY <1>7, RowsEnvironment
<1>8. QED
  BY <1>1, <1>2, <1>3, <1>4, <1>5, <1>6, <1>7
  DEF Rows!Next, Rows!Requested, Rows!Workers

LEMMA RowsSameCardinality ==
  ASSUME NEW K, NEW R, NEW D, NEW F, NEW V, NEW S
  PROVE  Rows(K, R, D, F, V)!Cardinality(S) = Cardinality(S)
BY DEF Rows!Cardinality, Cardinality

\* What the invariant says of rows, labels and types.
LEMMA RowsHolds ==
  ASSUME NEW K, NEW R, NEW D, NEW F, NEW V, NEW P, NEW N, RowsState(K, R, D, F, V, P, N)
  PROVE  /\ Rows(K, R, D, F, V)!RowsTrue
         /\ P # {} => Rows(K, R, D, F, V)!LabelsTrue
         /\ Rows(K, R, D, F, V)!TypeOK
<1>0. /\ Rows(K, R, D, F, V)!CacheAssumption
      /\ N = Cardinality(K) + Cardinality(R) /\ RowsInv(K, R, P, N, V)
  BY DEF RowsState
<1> USE <1>0
<1>1. /\ RowsMemory(K, P) /\ RowsLocks(K, N) /\ RowsSets(K) /\ RowsStored(K, V)
      /\ JobsTrue(K, R, P, N, data, job) /\ data \in Nat /\ data <= V /\ V \in Nat /\ N \in Nat
  BY RowsSizes DEF RowsInv, RowsStored
<1>2. Rows(K, R, D, F, V)!RowsTrue
  BY <1>1 DEF RowsStored, RowRecords, Rows!RowsTrue
<1>3. P # {} => Rows(K, R, D, F, V)!LabelsTrue
  <2>1. /\ DOMAIN memory = 1..Len(memory)
        /\ \A i \in 1..Len(memory) : memory[i] \in RowEntries(K) /\ EntryTrue(P, data, memory[i])
    BY <1>1 DEF RowsMemory
  <2>2. QED
    BY <2>1 DEF EntryTrue, RowEntries, Rows!LabelsTrue
<1>4. Rows(K, R, D, F, V)!TypeOK
  <2> DEFINE A == Rows(K, R, D, F, V)!Payloads
             B == Rows(K, R, D, F, V)!Versions
  <2>1. /\ \A n \in Int : -1 <= n /\ n <= data => n \in A
        /\ \A n \in Int : 0 <= n /\ n <= data => n \in B
    BY <1>1 DEF Rows!Payloads, Rows!Versions, Rows!Absent
  <2>2. \A n \in Nat : n <= N => n \in Rows(K, R, D, F, V)!Locks \cup {0}
    BY <1>1, RowsSizes
  <2> HIDE DEF A, B
  <2>3. data \in B
    BY <1>1, <2>1
  <2>4. DOMAIN memory = 1..Len(memory) /\ memory \in Seq([key : K, label : A, payload : B])
    <3>1. \A i \in 1..Len(memory) : /\ memory[i] \in RowEntries(K)
                                    /\ EntryTrue(P, data, memory[i])
      BY <1>1 DEF RowsMemory
    <3>2. \A i \in 1..Len(memory) : memory[i] \in [key : K, label : A, payload : B]
      BY <2>1, <3>1 DEF RowEntries, EntryTrue
    <3>3. memory \in Seq(RowEntries(K))
      BY <1>1 DEF RowsMemory
    <3>4. /\ DOMAIN memory = 1..Len(memory) /\ Len(memory) \in Nat
          /\ memory = [i \in 1..Len(memory) |-> memory[i]]
      BY <3>3
    <3>5. memory \in [1..Len(memory) -> [key : K, label : A, payload : B]]
      BY <3>2, <3>4
    <3>6. QED
      BY <3>4, <3>5, SeqDef
  <2>5. \A k \in K : Rows(K, R, D, F, V)!Cardinality(Rows(K, R, D, F, V)!Entries(k)) <= 1
    <3>1. ASSUME NEW k \in K PROVE Rows(K, R, D, F, V)!Cardinality(Rows(K, R, D, F, V)!Entries(k)) <= 1
      <4>1. PICK S : S = Rows(K, R, D, F, V)!Entries(k)
        OBVIOUS
      <4>2. \A x, y \in S : x = y
        BY <1>1, <2>4, <4>1 DEF RowsMemory, Distinct, Rows!Entries
      <4>3. Cardinality(S) <= 1
        BY <4>2, AtMostOne
      <4>4. QED
        BY <4>1, <4>3, RowsSameCardinality
    <3>2. QED
      BY <3>1
  <2>6. mutex \in [K -> Rows(K, R, D, F, V)!Locks \cup {Rows(K, R, D, F, V)!NoLock}]
    BY <1>1, <2>2 DEF RowsLocks, Rows!NoLock
  <2>7. disk \in [K -> A]
    BY <1>1, <2>1 DEF RowsStored
  <2>8. row \in [K -> [label : A, payload : A]]
    <3>1. ASSUME NEW k \in K PROVE row[k] \in [label : A, payload : A]
      <4>1. /\ row[k] \in RowRecords /\ row[k].label \in Int /\ row[k].payload \in Int
            /\ -1 <= row[k].label /\ row[k].label <= row[k].payload
            /\ row[k].payload <= data
        BY <1>1 DEF RowsStored, RowRecords
      <4>2. row[k].label <= data /\ -1 <= row[k].payload
        BY <1>1, <4>1
      <4>3. row[k].label \in A /\ row[k].payload \in A
        BY <2>1, <4>1, <4>2
      <4>4. QED
        BY <4>1, <4>3 DEF RowRecords
    <3>2. QED
      BY <1>1, <3>1 DEF RowsStored
  <2>9. job \in [Rows(K, R, D, F, V)!Workers ->
           [at : Rows(K, R, D, F, V)!Building \cup
                 {"idle", "wait", "paint", "row", "keep", "check", "queue", "validate"},
            key : K, lock : Rows(K, R, D, F, V)!Locks \cup {Rows(K, R, D, F, V)!NoLock},
            version : A, payload : A]]
    <3> DEFINE J == [at : Rows(K, R, D, F, V)!Building \cup
                 {"idle", "wait", "paint", "row", "keep", "check", "queue", "validate"},
            key : K, lock : Rows(K, R, D, F, V)!Locks \cup {Rows(K, R, D, F, V)!NoLock},
            version : A, payload : A]
    <3>1. ASSUME NEW w \in R \cup Validators PROVE job[w] \in J
      <4>0. job[w] \in RowJobs(K) /\ JobTrue(P, data, job[w]) /\ job[w].lock <= N
        BY <1>1, JobAt
      <4>1. PICK j \in RowJobs(K) : j = job[w] /\ JobTrue(P, data, j) /\ j.lock <= N
        BY <4>0
      <4>2. j.lock \in Nat /\ j.version \in Int /\ j.payload \in Int /\ j.at \in RowPlaces
        BY DEF RowJobs
      <4>3. j.version \in A /\ j.payload \in A
        BY <2>1, <4>1, <4>2 DEF JobTrue
      <4>4. j.lock \in Rows(K, R, D, F, V)!Locks \cup {Rows(K, R, D, F, V)!NoLock}
        BY <2>2, <4>1, <4>2 DEF Rows!NoLock
      <4>5. j.at \in Rows(K, R, D, F, V)!Building \cup
                 {"idle", "wait", "paint", "row", "keep", "check", "queue", "validate"}
        BY <4>2 DEF RowPlaces, Rows!Building
      <4>6. QED
        BY <4>1, <4>3, <4>4, <4>5 DEF RowJobs
    <3>2. QED
      BY <1>1, <3>1 DEF JobsTrue, Rows!Workers
  <2>10. building \subseteq K /\ recent \subseteq K /\ Len(memory) <= MaxEntries
    BY <1>1 DEF RowsSets, RowsMemory
  <2>11. QED
    BY <2>3, <2>4, <2>5, <2>6, <2>7, <2>8, <2>9, <2>10 DEF Rows!TypeOK, A, B
<1>5. QED
  BY <1>2, <1>3, <1>4
-----------------------------------------------------------------------------
(* Responses: a builder holds the lock of its key; without Redis it read the *)
(* data no earlier than what is remembered of the key.                       *)

HttpAges == {"fresh", "stale", "gone"}
HttpEntries(K) == [key : K, version : Nat, age : HttpAges]
HttpCopies == [version : Nat, age : HttpAges]
HttpThreads == [at : {"idle", "wait", "build", "leave"}, version : Nat]
HttpReads(K) == [at : {"idle", "redis", "keep", "keep_stale", "wait", "build"},
                 key : K, version : Nat]

HttpStored(K, V) ==
    /\ source \in Nat /\ source <= V /\ waits \subseteq K
    /\ shared \in [K -> HttpCopies] /\ \A k \in K : shared[k].version <= source
HttpMemory(K) ==
    /\ entries \in Seq(HttpEntries(K)) /\ Distinct(entries) /\ Len(entries) <= MaxEntries
    /\ \A i \in 1..Len(entries) : entries[i].version <= source
HttpRefresh(K) ==
    /\ fresher \in [K -> HttpThreads] /\ \A k \in K : fresher[k].version <= source
\* The places of P are never reached.
HttpReaders(K, P) ==
    /\ reader \in [Readers -> HttpReads(K)]
    /\ \A r \in Readers : reader[r].version <= source /\ reader[r].at \notin P
HttpLocks(K) ==
    /\ lock \in [K -> K \cup Readers \cup {"free"}]
    /\ \A r \in Readers : reader[r].at = "build" => lock[reader[r].key] = r
    /\ \A k \in K : fresher[k].at = "build" => lock[k] = k
\* A builder of the key of an entry has data at least as new.
BuildsNewer(P, e) ==
    P # {} =>
      /\ \A r \in Readers :
            reader[r].at = "build" /\ reader[r].key = e.key => e.version <= reader[r].version
      /\ fresher[e.key].at = "build" => e.version <= fresher[e.key].version
HttpNewest(P) == \A i \in 1..Len(entries) : BuildsNewer(P, entries[i])

HttpInv(K, V, P) ==
    /\ HttpStored(K, V) /\ HttpMemory(K) /\ HttpRefresh(K) /\ HttpReaders(K, P)
    /\ HttpLocks(K) /\ HttpNewest(P)

\* The places of P are for Redis.
HttpAlone(P, X) == X => P = {}
HttpState(K, X, V, P) ==
    /\ Http(K, X, V)!CacheAssumption /\ P \in {{}, {"redis", "keep", "keep_stale"}}
    /\ HttpAlone(P, X) /\ HttpInv(K, V, P)

\* A list of entries, one for each key, and what becomes of it: k is left out,
\* and an entry e is put at its end.
Listed(E, s) == s \in Seq(E) /\ Distinct(s) /\ Len(s) \in Nat
LeftOut(E, s, left, k) ==
    /\ Listed(E, left) /\ From(left, s) /\ Lacks(left, k) /\ Len(left) <= Len(s)
    /\ \A i \in 1..Len(s) : s[i].key = k => Len(left) = Len(s) - 1
PutLast(E, left, e, s) ==
    /\ Listed(E, s) /\ Len(s) = Len(left) + 1
    /\ \A j \in 1..Len(s) : s[j] = e \/ \E i \in 1..Len(left) : s[j] = left[i]

LEMMA PutsLast ==
  ASSUME NEW E, NEW left, Listed(E, left), NEW e \in E, Lacks(left, e.key)
  PROVE  PutLast(E, left, e, Append(left, e))
<1>1. left \in Seq(E) /\ Distinct(left) /\ Len(left) \in Nat
  BY DEF Listed
<1>2. PICK s : s = Append(left, e)
  OBVIOUS
<1>3. s \in Seq(E) /\ Len(s) = Len(left) + 1
  BY <1>1, <1>2, WithOne
<1>4. Distinct(s)
  BY <1>1, <1>2, WithOne
<1>5. \A j \in 1..Len(s) : s[j] = e \/ \E i \in 1..Len(left) : s[j] = left[i]
  BY <1>1, <1>2, WithOne
<1>6. QED
  BY <1>1, <1>2, <1>3, <1>4, <1>5 DEF PutLast, Listed

LEMMA HttpWithout ==
  ASSUME NEW K, NEW X, NEW V, NEW E, NEW list, Listed(E, list), NEW k
  PROVE  LeftOut(E, list, Http(K, X, V)!Without(list, k), k)
<1> DEFINE left == Http(K, X, V)!Without(list, k)
<1>1. PICK S : S = Http(K, X, V)!Places(list, k)
  OBVIOUS
<1>2. /\ S = {i \in 1..Len(list) : list[i].key = k} /\ Len(list) \in Nat
      /\ list \in Seq(E) /\ Distinct(list)
  BY <1>1 DEF Http!Places, Listed
<1>3. CASE S = {}
  <2>1. left = list
    BY <1>1, <1>3 DEF Http!Without
  <2>2. From(list, list) /\ Lacks(list, k) /\ \A i \in 1..Len(list) : list[i].key # k
    BY <1>2, <1>3 DEF From, Lacks
  <2>3. LeftOut(E, list, list, k)
    BY <1>2, <2>2 DEF LeftOut
  <2>4. QED
    BY <2>1, <2>3
<1>4. CASE S # {}
  <2>1. PICK i \in S : i = CHOOSE j \in S : TRUE
    BY <1>4
  <2>2. left = SubSeq(list, 1, i - 1) \o SubSeq(list, i + 1, Len(list))
    BY <1>1, <1>4, <2>1 DEF Http!Without
  <2>3. left = Omit(list, i) /\ i \in 1..Len(list) /\ list[i].key = k
    BY <1>2, <2>1, <2>2 DEF Omit
  <2> HIDE DEF left
  <2>4. left \in Seq(E) /\ Len(left) = Len(list) - 1
    BY <1>2, <2>3, WithoutOne
  <2>5. Distinct(left) /\ From(left, list) /\ Lacks(left, k)
    BY <1>2, <2>3, WithoutOne
  <2>6. LeftOut(E, list, left, k)
    BY <1>2, <2>4, <2>5 DEF LeftOut, Listed
  <2>7. QED
    BY <2>6 DEF left
<1>5. QED
  BY <1>3, <1>4

\* What a request that looks for k leaves in memory.
HttpList(K, list) == Listed(HttpEntries(K), list) /\ Len(list) <= MaxEntries
Moves(K, list) == HttpList(K, list) /\ From(list, entries)

LEMMA HttpTouches ==
  ASSUME NEW K, NEW X, NEW V, MaxEntries \in Nat, HttpMemory(K), NEW k \in K
  PROVE  Moves(K, Http(K, X, V)!Touched(k))
<1>1. PICK left : left = Http(K, X, V)!Without(entries, k)
  OBVIOUS
<1>2. PICK list : list = Http(K, X, V)!Touched(k)
  OBVIOUS
<1>3. /\ Listed(HttpEntries(K), entries) /\ Len(entries) <= MaxEntries /\ Len(entries) \in Nat
      /\ entries \in Seq(HttpEntries(K)) /\ DOMAIN entries = 1..Len(entries)
  BY DEF HttpMemory, Listed
<1>4. LeftOut(HttpEntries(K), entries, left, k)
  BY <1>1, <1>3, HttpWithout
<1>5. /\ Listed(HttpEntries(K), left) /\ From(left, entries) /\ Lacks(left, k)
      /\ Len(left) <= Len(entries) /\ Len(left) \in Nat
      /\ \A i \in 1..Len(entries) : entries[i].key = k => Len(left) = Len(entries) - 1
  BY <1>4 DEF LeftOut, Listed
<1>6. PICK S : S = Http(K, X, V)!Found(k)
  OBVIOUS
<1>7. CASE S = {}
  <2>1. list = left
    BY <1>1, <1>2, <1>6, <1>7 DEF Http!Touched
  <2>2. Len(left) <= MaxEntries
    <3>1. PICK m \in Nat, n \in Nat : m = Len(left) /\ n = Len(entries) /\ m <= n /\ n <= MaxEntries
      BY <1>3, <1>5
    <3>2. m <= MaxEntries
      BY <3>1
    <3>3. QED
      BY <3>1, <3>2
  <2>3. Moves(K, left)
    BY <1>5, <2>2 DEF HttpList, Moves
  <2>4. QED
    BY <1>2, <2>1, <2>3
<1>8. CASE S # {}
  <2>1. PICK i \in S : i = CHOOSE j \in S : TRUE
    BY <1>8
  <2>2. i \in 1..Len(entries) /\ entries[i].key = k
    BY <1>3, <1>6 DEF Http!Found, Http!Places
  <2>3. PICK e \in HttpEntries(K) : e = entries[i] /\ e.key = k
    BY <1>3, <2>2
  <2>4. list = Append(left, e)
    BY <1>1, <1>2, <1>6, <1>8, <2>1, <2>3 DEF Http!Touched
  <2>5. Lacks(left, e.key)
    BY <1>5, <2>3
  <2>6. PutLast(HttpEntries(K), left, e, list)
    BY <1>5, <2>4, <2>5, PutsLast
  <2>7. /\ Listed(HttpEntries(K), list) /\ Len(list) = Len(left) + 1
        /\ \A j \in 1..Len(list) : list[j] = e \/ \E m \in 1..Len(left) : list[j] = left[m]
    BY <2>6 DEF PutLast
  <2>8. From(list, entries)
    BY <1>5, <2>2, <2>3, <2>7 DEF From
  <2>9. Len(left) = Len(entries) - 1
    BY <1>5, <2>2
  <2>10. Len(list) <= MaxEntries
    BY <1>3, <2>7, <2>9
  <2>11. QED
    BY <1>2, <2>7, <2>8, <2>10 DEF HttpList, Moves
<1>9. QED
  BY <1>7, <1>8

\* What is in memory when e is remembered.
Adds(K, list, e) ==
    /\ HttpList(K, list)
    /\ \A j \in 1..Len(list) :
         \/ list[j] = e
         \/ list[j].key # e.key /\ \E i \in 1..Len(entries) : list[j] = entries[i]

LEMMA HttpRemembers ==
  ASSUME NEW K, NEW X, NEW V, MaxEntries \in Nat, HttpMemory(K), NEW k \in K,
         NEW version \in Nat, NEW age \in HttpAges
  PROVE  Adds(K, Http(K, X, V)!Remembered(k, version, age),
              [key |-> k, version |-> version, age |-> age])
<1>1. PICK left : left = Http(K, X, V)!Without(entries, k)
  OBVIOUS
<1>2. PICK list : list = Http(K, X, V)!Remembered(k, version, age)
  OBVIOUS
<1>3. PICK e : e = [key |-> k, version |-> version, age |-> age]
  OBVIOUS
<1>4. e \in HttpEntries(K) /\ e.key = k
  BY <1>3 DEF HttpEntries
<1>5. /\ Listed(HttpEntries(K), entries) /\ Len(entries) <= MaxEntries /\ Len(entries) \in Nat
  BY DEF HttpMemory, Listed
<1>6. LeftOut(HttpEntries(K), entries, left, k)
  BY <1>1, <1>5, HttpWithout
<1>7. /\ Listed(HttpEntries(K), left) /\ From(left, entries) /\ Lacks(left, k)
      /\ Len(left) <= Len(entries) /\ Len(left) \in Nat
  BY <1>6 DEF LeftOut, Listed
<1>8. PICK long : long = Append(left, e)
  OBVIOUS
<1>9. Lacks(left, e.key)
  BY <1>4, <1>7
<1>10. PutLast(HttpEntries(K), left, e, long)
  BY <1>4, <1>7, <1>8, <1>9, PutsLast
<1>11. /\ Listed(HttpEntries(K), long) /\ Len(long) = Len(left) + 1
       /\ \A j \in 1..Len(long) : long[j] = e \/ \E m \in 1..Len(left) : long[j] = left[m]
  BY <1>10 DEF PutLast
<1>12. \A j \in 1..Len(long) :
         \/ long[j] = e
         \/ long[j].key # e.key /\ \E i \in 1..Len(entries) : long[j] = entries[i]
  <2>1. ASSUME NEW m \in 1..Len(left)
        PROVE  left[m].key # e.key /\ \E i \in 1..Len(entries) : left[m] = entries[i]
    BY <1>7, <1>9 DEF From, Lacks
  <2>2. ASSUME NEW j \in 1..Len(long), long[j] # e
        PROVE  \E m \in 1..Len(left) : long[j] = left[m]
    BY <1>11, <2>2
  <2>3. QED
    BY <2>1, <2>2
<1>13. list = IF Len(long) > MaxEntries THEN Tail(long) ELSE long
  BY <1>1, <1>2, <1>3, <1>8 DEF Http!Remembered, Http!Kept
<1>14. Len(long) \in Nat /\ long \in Seq(HttpEntries(K)) /\ Distinct(long)
  BY <1>11 DEF Listed
<1>15. CASE Len(long) > MaxEntries
  <2>1. list = Tail(long) /\ long # <<>>
    BY <1>13, <1>14, <1>15
  <2>2. PICK tail : tail = Tail(long)
    OBVIOUS
  <2>3. tail \in Seq(HttpEntries(K)) /\ Len(tail) = Len(long) - 1
    BY <1>14, <2>1, <2>2, WithoutHead
  <2>4. Distinct(tail)
    BY <1>14, <2>1, <2>2, WithoutHead
  <2>5. From(tail, long)
    BY <1>14, <2>1, <2>2, WithoutHead
  <2>6. Len(tail) \in Nat /\ Len(tail) <= MaxEntries
    BY <1>5, <1>7, <1>11, <1>14, <1>15, <2>3
  <2>7. HttpList(K, tail)
    BY <2>3, <2>4, <2>6 DEF HttpList, Listed
  <2>8. Adds(K, tail, e)
    BY <1>12, <2>5, <2>7 DEF Adds, From
  <2>9. QED
    BY <1>2, <1>3, <2>1, <2>2, <2>8
<1>16. CASE ~(Len(long) > MaxEntries)
  <2>1. Len(long) <= MaxEntries
    BY <1>14, <1>16
  <2>2. Adds(K, long, e)
    BY <1>11, <1>12, <2>1 DEF Adds, HttpList
  <2>3. QED
    BY <1>2, <1>3, <1>13, <1>16, <2>2
<1>17. QED
  BY <1>15, <1>16
\* In a step nobody begins to build.
OldBuilds(K) ==
    /\ \A r \in Readers : reader'[r].at = "build" =>
          /\ reader[r].at = "build" /\ reader'[r].key = reader[r].key
          /\ reader'[r].version = reader[r].version
    /\ \A k \in K : fresher'[k].at = "build" =>
          fresher[k].at = "build" /\ fresher'[k].version = fresher[k].version

LEMMA HttpMoved ==
  ASSUME NEW K, HttpMemory(K), Moves(K, entries'), source' = source
  PROVE  HttpMemory(K)'
BY DEF HttpMemory, Moves, HttpList, Listed, From

LEMMA HttpAdded ==
  ASSUME NEW K, HttpMemory(K), NEW e, e.version <= source, Adds(K, entries', e),
         source' = source
  PROVE  HttpMemory(K)'
BY DEF HttpMemory, Adds, HttpList, Listed

LEMMA NewestMoved ==
  ASSUME NEW K, NEW P, HttpNewest(P), Moves(K, entries'), OldBuilds(K)
  PROVE  HttpNewest(P)'
<1>0. entries' \in Seq(HttpEntries(K)) /\ Len(entries') \in Nat
  BY DEF Moves, HttpList, Listed
<1>1. ASSUME NEW j \in 1..Len(entries') PROVE BuildsNewer(P, entries[j])'
  <2>1. PICK i \in 1..Len(entries) : entries'[j] = entries[i]
    BY DEF Moves, From
  <2>2. BuildsNewer(P, entries[i])
    BY DEF HttpNewest
  <2>3. PICK e \in HttpEntries(K) : e = entries'[j] /\ e.key \in K
    <3>1. entries'[j] \in HttpEntries(K)
      BY <1>0
    <3>2. QED
      BY <3>1 DEF HttpEntries
  <2>4. QED
    BY <2>1, <2>2, <2>3 DEF BuildsNewer, OldBuilds
<1>2. QED
  BY <1>1 DEF HttpNewest

CanRead(K, P, x) == x \in HttpReads(K) /\ x.version <= source /\ x.at \notin P

LEMMA ReaderPut ==
  ASSUME NEW K, NEW P, HttpReaders(K, P), NEW r \in Readers, NEW x, CanRead(K, P, x),
         reader' = [reader EXCEPT ![r] = x], source' = source
  PROVE  HttpReaders(K, P)'
BY DEF HttpReaders, CanRead

LEMMA HttpStarts ==
  ASSUME NEW K, NEW X, NEW V, NEW k \in K, HttpRefresh(K), waits \subseteq K, source \in Nat,
         source' = source,
         Http(K, X, V)!StartRefresh(k) \/ UNCHANGED <<waits, fresher>>
  PROVE  /\ HttpRefresh(K)' /\ waits' \subseteq K
         /\ \A x \in K : fresher'[x].at = "build" => fresher'[x] = fresher[x]
<1>1. CASE UNCHANGED <<waits, fresher>>
  BY <1>1 DEF HttpRefresh
<1>2. CASE waits' = waits \cup {k} /\ fresher' = [fresher EXCEPT ![k] = [at |-> "wait", version |-> 0]]
  <2>1. PICK x : x = [at |-> "wait", version |-> 0]
    OBVIOUS
  <2>2. x \in HttpThreads /\ x.version = 0 /\ x.at = "wait"
    BY <2>1 DEF HttpThreads
  <2>3. fresher' = [fresher EXCEPT ![k] = x] /\ waits' = waits \cup {k}
    BY <1>2, <2>1
  <2>4. QED
    BY <2>2, <2>3 DEF HttpRefresh
<1>3. QED
  BY <1>1, <1>2 DEF Http!StartRefresh

\* A step in which nobody begins to build and no lock changes hands.
LEMMA HttpCalm ==
  ASSUME NEW K, NEW V, NEW P, HttpInv(K, V, P), OldBuilds(K), lock' = lock,
         HttpStored(K, V)', HttpMemory(K)', HttpRefresh(K)', HttpReaders(K, P)',
         Moves(K, entries') \/ P = {}
  PROVE  HttpInv(K, V, P)'
<1>1. HttpLocks(K)'
  BY DEF HttpInv, HttpLocks, OldBuilds
<1>2. HttpNewest(P)'
  <2>1. CASE P = {}
    BY <2>1 DEF HttpNewest, BuildsNewer
  <2>2. CASE Moves(K, entries')
    BY <2>2, NewestMoved DEF HttpInv
  <2>3. QED
    BY <2>1, <2>2
<1>3. QED
  BY <1>1, <1>2 DEF HttpInv

\* Nothing moves in memory.
LEMMA HttpStays == ASSUME NEW K, HttpMemory(K) PROVE Moves(K, entries)
BY DEF HttpMemory, Moves, HttpList, Listed, From

LEMMA HttpParts ==
  ASSUME NEW K, NEW X, NEW V, NEW P, HttpState(K, X, V, P)
  PROVE  /\ HttpInv(K, V, P) /\ HttpStored(K, V) /\ HttpMemory(K) /\ HttpRefresh(K)
         /\ HttpReaders(K, P) /\ HttpLocks(K) /\ HttpNewest(P)
         /\ MaxEntries \in Nat \ {0} /\ MaxEntries \in Nat /\ V \in Nat /\ source \in Nat
         /\ waits \subseteq K /\ P \in {{}, {"redis", "keep", "keep_stale"}} /\ HttpAlone(P, X)
         /\ K \cap Readers = {} /\ "free" \notin K \cup Readers /\ \E k \in K : TRUE
BY DEF HttpState, HttpInv, HttpStored, Http!CacheAssumption

LEMMA ReaderAt ==
  ASSUME NEW K, NEW X, NEW V, NEW P, HttpState(K, X, V, P), NEW r \in Readers
  PROVE  /\ reader[r] \in HttpReads(K) /\ reader[r].key \in K /\ reader[r].version \in Nat
         /\ reader[r].version <= source /\ reader[r].at \notin P
BY HttpParts DEF HttpReaders, HttpReads

LEMMA HttpGets ==
  ASSUME NEW K, NEW X, NEW V, NEW P, HttpState(K, X, V, P),
         NEW r \in Readers, NEW k \in K, Http(K, X, V)!Get(r, k)
  PROVE  HttpInv(K, V, P)'
<1>1. /\ HttpInv(K, V, P) /\ HttpStored(K, V) /\ HttpMemory(K) /\ HttpRefresh(K)
      /\ HttpReaders(K, P) /\ MaxEntries \in Nat /\ waits \subseteq K /\ source \in Nat
  BY HttpParts
<1>2. /\ entries' = Http(K, X, V)!Touched(k) /\ UNCHANGED <<source, shared, lock>>
      /\ Http(K, X, V)!StartRefresh(k) \/ UNCHANGED <<waits, fresher>>
  BY DEF Http!Get
<1>3. Moves(K, entries')
  BY <1>1, <1>2, HttpTouches
<1>4. HttpMemory(K)'
  BY <1>1, <1>2, <1>3, HttpMoved
<1>5. /\ HttpRefresh(K)' /\ waits' \subseteq K
      /\ \A x \in K : fresher'[x].at = "build" => fresher'[x] = fresher[x]
  BY <1>1, <1>2, HttpStarts
<1>6. HttpStored(K, V)'
  BY <1>1, <1>2, <1>5 DEF HttpStored
<1>7. PICK at \in {"idle", "redis", "wait"} :
        /\ reader' = [reader EXCEPT ![r] = [reader[r] EXCEPT !.key = k, !.at = at]]
        /\ at \notin P
  <2>1. PICK found \in {TRUE, FALSE} : found = (Http(K, X, V)!Found(k) # {})
    OBVIOUS
  <2>2. PICK at \in {"idle", "redis", "wait"} :
          at = IF found THEN "idle" ELSE IF X THEN "redis" ELSE "wait"
    OBVIOUS
  <2>3. reader' = [reader EXCEPT ![r] = [reader[r] EXCEPT !.key = k, !.at = at]]
    BY <2>1, <2>2 DEF Http!Get
  <2>4. at \notin P
    BY <2>2, HttpParts DEF HttpAlone
  <2>5. QED
    BY <2>3, <2>4
<1>8. PICK j \in HttpReads(K) : j = reader[r] /\ j.version <= source
  BY ReaderAt
<1>9. PICK x : x = [j EXCEPT !.key = k, !.at = at]
  OBVIOUS
<1>10. x \in HttpReads(K) /\ x.version = j.version /\ x.at = at
  BY <1>9 DEF HttpReads
<1>11. /\ HttpReaders(K, P)' /\ reader'[r] = x
       /\ \A q \in Readers : q # r => reader'[q] = reader[q]
  <2>1. CanRead(K, P, x)
    BY <1>7, <1>8, <1>10 DEF CanRead
  <2>2. reader' = [reader EXCEPT ![r] = x]
    BY <1>7, <1>8, <1>9
  <2>3. HttpReaders(K, P)'
    BY <1>1, <1>2, <2>1, <2>2, ReaderPut
  <2>4. QED
    BY <1>1, <2>2, <2>3 DEF HttpReaders
<1>12. OldBuilds(K)
  BY <1>5, <1>10, <1>11 DEF OldBuilds
<1>13. QED
  BY <1>1, <1>2, <1>3, <1>4, <1>5, <1>6, <1>11, <1>12, HttpCalm

\* Redis answers, or fails, and what it returned is remembered.
LEMMA HttpReadsRedis ==
  ASSUME NEW K, NEW X, NEW V, NEW P, HttpState(K, X, V, P), NEW r \in Readers,
         \/ Http(K, X, V)!RedisGet(r) \/ Http(K, X, V)!RedisFails(r)
         \/ Http(K, X, V)!RedisRemember(r)
  PROVE  HttpInv(K, V, P)'
<1>1. /\ HttpInv(K, V, P) /\ HttpStored(K, V) /\ HttpMemory(K) /\ HttpRefresh(K)
      /\ HttpReaders(K, P) /\ MaxEntries \in Nat /\ waits \subseteq K /\ source \in Nat
  BY HttpParts
<1>2. P = {}
  BY HttpParts, ReaderAt DEF Http!RedisGet, Http!RedisFails, Http!RedisRemember
<1>3. PICK k \in K, j \in HttpReads(K) : j = reader[r] /\ k = j.key /\ j.version <= source
  BY ReaderAt
<1>4. UNCHANGED <<source, shared, lock>>
  BY DEF Http!RedisGet, Http!RedisFails, Http!RedisRemember
<1>5. PICK x \in HttpReads(K) :
        x.version <= source /\ x.at # "build" /\ reader' = [reader EXCEPT ![r] = x]
  <2>1. ASSUME NEW at \in {"wait", "idle"}, reader' = [reader EXCEPT ![r].at = at]
        PROVE  \E x \in HttpReads(K) : /\ x.version <= source /\ x.at # "build"
                                       /\ reader' = [reader EXCEPT ![r] = x]
    <3>1. PICK x : x = [j EXCEPT !.at = at]
      OBVIOUS
    <3>2. x \in HttpReads(K) /\ x.version = j.version /\ x.at # "build"
      BY <3>1 DEF HttpReads
    <3>3. reader' = [reader EXCEPT ![r] = x]
      BY <1>3, <2>1, <3>1
    <3>4. x.version <= source
      BY <1>3, <3>2
    <3>5. QED
      BY <3>2, <3>3, <3>4
  <2>2. CASE Http(K, X, V)!RedisGet(r)
    <3>1. CASE shared[k].age = "gone"
      BY <1>3, <2>1, <2>2, <3>1 DEF Http!RedisGet, Http!Become
    <3>2. CASE shared[k].age # "gone"
      <4>1. PICK v \in Nat : v = shared[k].version /\ v <= source
        BY <1>1 DEF HttpStored, HttpCopies
      <4>2. PICK at \in {"keep", "keep_stale"} :
              at = IF shared[k].age = "fresh" THEN "keep" ELSE "keep_stale"
        OBVIOUS
      <4>3. PICK x : x = [j EXCEPT !.at = at, !.version = v]
        OBVIOUS
      <4>4. reader' = [reader EXCEPT ![r] = x]
        BY <1>3, <2>2, <3>2, <4>1, <4>2, <4>3 DEF Http!RedisGet
      <4>5. x \in HttpReads(K) /\ x.version = v /\ x.at # "build"
        BY <4>3 DEF HttpReads
      <4>6. QED
        BY <4>1, <4>4, <4>5
    <3>3. QED
      BY <3>1, <3>2
  <2>3. CASE Http(K, X, V)!RedisFails(r)
    BY <2>1, <2>3 DEF Http!RedisFails, Http!Become
  <2>4. CASE Http(K, X, V)!RedisRemember(r)
    BY <2>1, <2>4 DEF Http!RedisRemember, Http!Become
  <2>5. QED
    BY <2>2, <2>3, <2>4
<1>6. /\ HttpReaders(K, P)' /\ reader'[r] = x
      /\ \A q \in Readers : q # r => reader'[q] = reader[q]
  <2>1. CanRead(K, P, x)
    BY <1>2, <1>5 DEF CanRead
  <2>2. HttpReaders(K, P)'
    BY <1>1, <1>4, <1>5, <2>1, ReaderPut
  <2>3. QED
    BY <1>1, <1>5, <2>2 DEF HttpReaders
<1>7. HttpMemory(K)'
  <2>1. CASE entries' = entries
    BY <1>1, <1>4, <2>1 DEF HttpMemory
  <2>2. CASE entries' # entries
    <3>1. PICK age \in HttpAges : entries' = Http(K, X, V)!Remembered(k, j.version, age)
      BY <1>3, <2>2 DEF Http!RedisGet, Http!RedisFails, Http!RedisRemember, HttpAges
    <3>2. PICK v \in Nat : v = j.version /\ v <= source
      BY <1>3 DEF HttpReads
    <3>3. PICK e : e = [key |-> k, version |-> v, age |-> age]
      OBVIOUS
    <3>4. Adds(K, entries', e)
      BY <1>1, <3>1, <3>2, <3>3, HttpRemembers
    <3>5. e.version <= source
      BY <3>2, <3>3
    <3>6. QED
      BY <1>1, <1>4, <3>4, <3>5, HttpAdded
  <2>3. QED
    BY <2>1, <2>2
<1>8. Http(K, X, V)!StartRefresh(k) \/ UNCHANGED <<waits, fresher>>
  BY <1>3 DEF Http!RedisGet, Http!RedisFails, Http!RedisRemember
<1>9. /\ HttpRefresh(K)' /\ waits' \subseteq K
      /\ \A y \in K : fresher'[y].at = "build" => fresher'[y] = fresher[y]
  BY <1>1, <1>4, <1>8, HttpStarts
<1>10. HttpStored(K, V)'
  BY <1>1, <1>4, <1>9 DEF HttpStored
<1>11. OldBuilds(K)
  BY <1>5, <1>6, <1>9 DEF OldBuilds
<1>12. QED
  BY <1>1, <1>2, <1>4, <1>6, <1>7, <1>9, <1>10, <1>11, HttpCalm
\* With the lock of a key a reader finds its response, or begins to build it.
LEMMA HttpLocksReader ==
  ASSUME NEW K, NEW X, NEW V, NEW P, HttpState(K, X, V, P), NEW r \in Readers,
         Http(K, X, V)!ReaderLocks(r)
  PROVE  HttpInv(K, V, P)'
<1>1. /\ HttpInv(K, V, P) /\ HttpStored(K, V) /\ HttpMemory(K) /\ HttpRefresh(K)
      /\ HttpReaders(K, P) /\ HttpLocks(K) /\ HttpNewest(P)
      /\ MaxEntries \in Nat /\ source \in Nat /\ "free" \notin K \cup Readers
      /\ P \in {{}, {"redis", "keep", "keep_stale"}}
  BY HttpParts
<1>2. PICK k \in K, j \in HttpReads(K) : j = reader[r] /\ k = j.key /\ j.version <= source
  BY ReaderAt
<1>3. /\ entries' = Http(K, X, V)!Touched(k) /\ lock[k] = "free" /\ j.at = "wait"
      /\ UNCHANGED <<source, shared, waits, fresher>>
  BY <1>2 DEF Http!ReaderLocks, Http!Free
<1>4. Moves(K, entries')
  BY <1>1, <1>3, HttpTouches
<1>5. HttpMemory(K)' /\ HttpStored(K, V)' /\ HttpRefresh(K)'
  <2>1. HttpMemory(K)'
    BY <1>1, <1>3, <1>4, HttpMoved
  <2>2. QED
    BY <1>1, <1>3, <2>1 DEF HttpStored, HttpRefresh
<1>6. CASE Http(K, X, V)!Found(k) # {}
  <2>1. PICK x : x = [j EXCEPT !.at = "idle"]
    OBVIOUS
  <2>2. x \in HttpReads(K) /\ x.version = j.version /\ x.at = "idle"
    BY <2>1 DEF HttpReads
  <2>3. reader' = [reader EXCEPT ![r] = x] /\ lock' = lock
    BY <1>2, <1>6, <2>1 DEF Http!ReaderLocks, Http!Become
  <2>4. CanRead(K, P, x)
    BY <1>1, <1>2, <2>2 DEF CanRead
  <2>5. HttpReaders(K, P)'
    BY <1>1, <1>3, <2>3, <2>4, ReaderPut
  <2>6. OldBuilds(K)
    BY <1>1, <1>3, <2>2, <2>3 DEF OldBuilds, HttpReaders
  <2>7. QED
    BY <1>1, <1>4, <1>5, <2>3, <2>5, <2>6, HttpCalm
<1>7. CASE Http(K, X, V)!Found(k) = {}
  <2>1. PICK v \in Nat : v = source
    BY <1>1
  <2>2. PICK x : x = [j EXCEPT !.at = "build", !.version = v]
    OBVIOUS
  <2>3. x \in HttpReads(K) /\ x.version = v /\ x.at = "build" /\ x.key = k
    BY <1>2, <2>2 DEF HttpReads
  <2>4. reader' = [reader EXCEPT ![r] = x] /\ lock' = [lock EXCEPT ![k] = r]
    BY <1>2, <1>7, <2>1, <2>2 DEF Http!ReaderLocks
  <2>5. CanRead(K, P, x)
    BY <1>1, <2>1, <2>3 DEF CanRead
  <2>6. HttpReaders(K, P)'
    BY <1>1, <1>3, <2>4, <2>5, ReaderPut
  <2>7. reader'[r] = x /\ \A q \in Readers : q # r => reader'[q] = reader[q]
    BY <1>1, <2>4 DEF HttpReaders
  <2>8. HttpLocks(K)'
    <3>1. lock' \in [K -> K \cup Readers \cup {"free"}] /\ lock'[k] = r
          /\ \A y \in K : y # k => lock'[y] = lock[y]
      BY <1>1, <2>4 DEF HttpLocks
    <3>2. ASSUME NEW q \in Readers, reader'[q].at = "build" PROVE lock'[reader'[q].key] = q
      <4>1. CASE q = r
        BY <2>3, <2>7, <3>1, <4>1
      <4>2. CASE q # r
        <5>1. lock[reader[q].key] = q /\ reader'[q] = reader[q] /\ reader[q].key \in K
          BY <1>1, <2>7, <3>2, <4>2, ReaderAt DEF HttpLocks
        <5>2. reader[q].key # k
          BY <1>1, <1>3, <5>1
        <5>3. QED
          BY <3>1, <5>1, <5>2
      <4>3. QED
        BY <4>1, <4>2
    <3>3. ASSUME NEW y \in K, fresher'[y].at = "build" PROVE lock'[y] = y
      <4>1. lock[y] = y
        BY <1>1, <1>3, <3>3 DEF HttpLocks
      <4>2. y # k
        BY <1>1, <1>3, <4>1
      <4>3. QED
        BY <3>1, <4>1, <4>2
    <3>4. QED
      BY <3>1, <3>2, <3>3 DEF HttpLocks
  <2>9. HttpNewest(P)'
    <3>1. ASSUME NEW i \in 1..Len(entries') PROVE BuildsNewer(P, entries[i])'
      <4>1. PICK m \in 1..Len(entries) : entries'[i] = entries[m]
        BY <1>4 DEF Moves, From
      <4>2. BuildsNewer(P, entries[m]) /\ entries[m].version <= source
        BY <1>1 DEF HttpNewest, HttpMemory
      <4>3. PICK e : e = entries[m]
        OBVIOUS
      <4>4. ASSUME NEW q \in Readers, P # {}, reader'[q].at = "build", reader'[q].key = e.key
            PROVE  e.version <= reader'[q].version
        BY <2>1, <2>3, <2>7, <4>2, <4>3, <4>4 DEF BuildsNewer
      <4>5. QED
        BY <1>3, <4>1, <4>2, <4>3, <4>4 DEF BuildsNewer
    <3>2. QED
      BY <3>1 DEF HttpNewest
  <2>10. QED
    BY <1>5, <2>6, <2>8, <2>9 DEF HttpInv
<1>8. QED
  BY <1>6, <1>7

\* The background thread takes the lock.
LEMMA HttpLocksRefresh ==
  ASSUME NEW K, NEW X, NEW V, NEW P, HttpState(K, X, V, P), NEW k \in K,
         Http(K, X, V)!RefreshLocks(k)
  PROVE  HttpInv(K, V, P)'
<1>1. /\ HttpInv(K, V, P) /\ HttpStored(K, V) /\ HttpMemory(K) /\ HttpRefresh(K)
      /\ HttpReaders(K, P) /\ HttpLocks(K) /\ HttpNewest(P)
      /\ source \in Nat /\ "free" \notin K \cup Readers
  BY HttpParts
<1>2. PICK v \in Nat : v = source
  BY <1>1
<1>3. PICK x : x = [at |-> "build", version |-> v]
  OBVIOUS
<1>4. x \in HttpThreads /\ x.at = "build" /\ x.version = v
  BY <1>3 DEF HttpThreads
<1>5. /\ fresher' = [fresher EXCEPT ![k] = x] /\ lock' = [lock EXCEPT ![k] = k]
      /\ lock[k] = "free" /\ UNCHANGED <<source, entries, shared, waits, reader>>
  BY <1>2, <1>3 DEF Http!RefreshLocks, Http!Free
<1>6. fresher'[k] = x /\ \A y \in K : y # k => fresher'[y] = fresher[y]
  BY <1>1, <1>5 DEF HttpRefresh
<1>7. HttpStored(K, V)' /\ HttpMemory(K)' /\ HttpReaders(K, P)'
  BY <1>1, <1>5 DEF HttpStored, HttpMemory, HttpReaders
<1>8. HttpRefresh(K)'
  BY <1>1, <1>2, <1>4, <1>5, <1>6 DEF HttpRefresh
<1>9. HttpLocks(K)'
  <2>1. lock' \in [K -> K \cup Readers \cup {"free"}] /\ lock'[k] = k
        /\ \A y \in K : y # k => lock'[y] = lock[y]
    BY <1>1, <1>5 DEF HttpLocks
  <2>2. ASSUME NEW q \in Readers, reader'[q].at = "build" PROVE lock'[reader'[q].key] = q
    <3>1. lock[reader[q].key] = q /\ reader'[q] = reader[q] /\ reader[q].key \in K
      BY <1>1, <1>5, <2>2, ReaderAt DEF HttpLocks
    <3>2. reader[q].key # k
      BY <1>1, <1>5, <3>1
    <3>3. QED
      BY <2>1, <3>1, <3>2
  <2>3. ASSUME NEW y \in K, fresher'[y].at = "build" PROVE lock'[y] = y
    BY <1>1, <1>6, <2>1, <2>3 DEF HttpLocks
  <2>4. QED
    BY <2>1, <2>2, <2>3 DEF HttpLocks
<1>10. HttpNewest(P)'
  <2>1. ASSUME NEW i \in 1..Len(entries) PROVE BuildsNewer(P, entries[i])'
    <3>1. PICK e : e = entries[i] /\ entries'[i] = e
      BY <1>5
    <3>2. BuildsNewer(P, e) /\ e.version <= source /\ e.key \in K
      <4>1. BuildsNewer(P, e) /\ e.version <= source /\ e \in HttpEntries(K)
        BY <1>1, <3>1 DEF HttpNewest, HttpMemory
      <4>2. QED
        BY <4>1 DEF HttpEntries
    <3>3. fresher'[e.key].at = "build" /\ P # {} => e.version <= fresher'[e.key].version
      BY <1>2, <1>4, <1>6, <3>2 DEF BuildsNewer
    <3>4. QED
      BY <1>5, <3>1, <3>2, <3>3 DEF BuildsNewer
  <2>2. QED
    BY <1>5, <2>1 DEF HttpNewest
<1>11. QED
  BY <1>7, <1>8, <1>9, <1>10 DEF HttpInv
\* Nobody builds k any more.
Freed(K, k) ==
    /\ \A q \in Readers :
          reader'[q].at = "build" => reader'[q] = reader[q] /\ reader[q].key # k
    /\ \A y \in K : fresher'[y].at = "build" => fresher'[y] = fresher[y] /\ y # k
    /\ lock' = [lock EXCEPT ![k] = "free"] /\ UNCHANGED <<source, waits>>

LEMMA HttpBuilds ==
  ASSUME NEW K, NEW X, NEW V, NEW P, HttpState(K, X, V, P), NEW k \in K,
         NEW v \in Nat, v <= source,
         Http(K, X, V)!Built(k, v) \/ UNCHANGED <<entries, shared>>,
         Freed(K, k), HttpReaders(K, P)', HttpRefresh(K)'
  PROVE  HttpInv(K, V, P)'
<1>1. /\ HttpStored(K, V) /\ HttpMemory(K) /\ HttpRefresh(K) /\ HttpLocks(K) /\ HttpNewest(P)
      /\ MaxEntries \in Nat /\ source \in Nat
  BY HttpParts
<1>2. /\ source' = source /\ waits' = waits /\ lock' = [lock EXCEPT ![k] = "free"]
      /\ \A q \in Readers :
            reader'[q].at = "build" => reader'[q] = reader[q] /\ reader[q].key # k
      /\ \A y \in K : fresher'[y].at = "build" => fresher'[y] = fresher[y] /\ y # k
  BY DEF Freed
<1>3. PICK e : e = [key |-> k, version |-> v, age |-> "fresh"]
  OBVIOUS
<1>4. e.key = k /\ e.version <= source
  BY <1>3
<1>5. entries' = entries \/ Adds(K, entries', e)
  <2>1. "fresh" \in HttpAges
    BY DEF HttpAges
  <2>2. Adds(K, Http(K, X, V)!Remembered(k, v, "fresh"), e)
    BY <1>1, <1>3, <2>1, HttpRemembers
  <2>3. QED
    BY <2>2 DEF Http!Built
<1>6. HttpMemory(K)'
  <2>1. CASE entries' = entries
    BY <1>1, <1>2, <2>1 DEF HttpMemory
  <2>2. CASE Adds(K, entries', e)
    BY <1>1, <1>2, <1>4, <2>2, HttpAdded
  <2>3. QED
    BY <1>5, <2>1, <2>2
<1>7. HttpStored(K, V)'
  <2>1. PICK c : c = [version |-> v, age |-> "fresh"]
    OBVIOUS
  <2>2. c \in HttpCopies /\ c.version <= source
    BY <2>1 DEF HttpCopies, HttpAges
  <2>3. shared' = shared \/ shared' = [shared EXCEPT ![k] = c]
    BY <2>1 DEF Http!Built
  <2>4. shared' \in [K -> HttpCopies] /\ \A y \in K : shared'[y].version <= source
    BY <1>1, <2>2, <2>3 DEF HttpStored
  <2>5. QED
    BY <1>1, <1>2, <2>4 DEF HttpStored
<1>8. HttpLocks(K)'
  <2>1. lock' \in [K -> K \cup Readers \cup {"free"}] /\ \A y \in K : y # k => lock'[y] = lock[y]
    BY <1>1, <1>2 DEF HttpLocks
  <2>2. ASSUME NEW q \in Readers, reader'[q].at = "build" PROVE lock'[reader'[q].key] = q
    <3>1. reader'[q] = reader[q] /\ reader[q].key # k /\ reader[q].key \in K
      BY <1>2, <2>2, ReaderAt
    <3>2. lock[reader[q].key] = q
      BY <1>1, <2>2, <3>1 DEF HttpLocks
    <3>3. QED
      BY <2>1, <3>1, <3>2
  <2>3. ASSUME NEW y \in K, fresher'[y].at = "build" PROVE lock'[y] = y
    BY <1>1, <1>2, <2>1, <2>3 DEF HttpLocks
  <2>4. QED
    BY <2>1, <2>2, <2>3 DEF HttpLocks
<1>9. HttpNewest(P)'
  <2>1. ASSUME NEW i \in 1..Len(entries), BuildsNewer(P, entries[i]),
               entries[i] \in HttpEntries(K), NEW j \in 1..Len(entries'), entries'[j] = entries[i]
        PROVE  BuildsNewer(P, entries[j])'
    <3>1. entries[i].key \in K
      BY <2>1 DEF HttpEntries
    <3>2. QED
      BY <1>2, <2>1, <3>1 DEF BuildsNewer
  <2>2. ASSUME NEW j \in 1..Len(entries'), entries'[j].key = k
        PROVE  BuildsNewer(P, entries[j])'
    BY <1>2, <2>2 DEF BuildsNewer
  <2>3. \A i \in 1..Len(entries) : BuildsNewer(P, entries[i]) /\ entries[i] \in HttpEntries(K)
    BY <1>1 DEF HttpNewest, HttpMemory
  <2>4. ASSUME NEW j \in 1..Len(entries') PROVE BuildsNewer(P, entries[j])'
    <3>1. CASE entries' = entries
      BY <2>1, <2>3, <3>1
    <3>2. CASE Adds(K, entries', e)
      <4>1. CASE entries'[j] = e
        BY <1>4, <2>2, <4>1
      <4>2. CASE entries'[j] # e
        <5>1. PICK i \in 1..Len(entries) : entries'[j] = entries[i]
          BY <3>2, <4>2 DEF Adds
        <5>2. QED
          BY <2>1, <2>3, <5>1
      <4>3. QED
        BY <4>1, <4>2
    <3>3. QED
      BY <1>5, <3>1, <3>2
  <2>5. QED
    BY <2>4 DEF HttpNewest
<1>10. QED
  BY <1>6, <1>7, <1>8, <1>9 DEF HttpInv

LEMMA HttpBuildsReader ==
  ASSUME NEW K, NEW X, NEW V, NEW P, HttpState(K, X, V, P), NEW r \in Readers,
         Http(K, X, V)!ReaderBuilds(r)
  PROVE  HttpInv(K, V, P)'
<1>1. /\ HttpRefresh(K) /\ HttpReaders(K, P) /\ HttpLocks(K) /\ K \cap Readers = {}
      /\ P \in {{}, {"redis", "keep", "keep_stale"}}
  BY HttpParts
<1>2. PICK k \in K, j \in HttpReads(K) : j = reader[r] /\ k = j.key /\ j.version <= source
  BY ReaderAt
<1>3. PICK v \in Nat : v = j.version /\ v <= source
  BY <1>2 DEF HttpReads
<1>4. /\ j.at = "build" /\ lock' = [lock EXCEPT ![k] = "free"] /\ UNCHANGED <<source, waits, fresher>>
      /\ Http(K, X, V)!Built(k, v) \/ UNCHANGED <<entries, shared>>
  BY <1>2, <1>3 DEF Http!ReaderBuilds, Http!Free
<1>5. PICK x : x = [j EXCEPT !.at = "idle"]
  OBVIOUS
<1>6. x \in HttpReads(K) /\ x.version = j.version /\ x.at = "idle"
  BY <1>5 DEF HttpReads
<1>7. reader' = [reader EXCEPT ![r] = x]
  BY <1>2, <1>5 DEF Http!ReaderBuilds, Http!Become
<1>8. HttpReaders(K, P)' /\ HttpRefresh(K)'
  <2>1. CanRead(K, P, x)
    BY <1>1, <1>2, <1>6 DEF CanRead
  <2>2. HttpReaders(K, P)'
    BY <1>1, <1>4, <1>7, <2>1, ReaderPut
  <2>3. QED
    BY <1>1, <1>4, <2>2 DEF HttpRefresh
<1>9. Freed(K, k)
  <2>1. lock[k] = r
    BY <1>1, <1>2, <1>4 DEF HttpLocks
  <2>2. reader'[r] = x /\ \A q \in Readers : q # r => reader'[q] = reader[q]
    BY <1>1, <1>7 DEF HttpReaders
  <2>3. ASSUME NEW q \in Readers, reader'[q].at = "build"
        PROVE  reader'[q] = reader[q] /\ reader[q].key # k
    <3>1. q # r /\ reader'[q] = reader[q]
      BY <1>6, <2>2, <2>3
    <3>2. lock[reader[q].key] = q
      BY <1>1, <2>3, <3>1 DEF HttpLocks
    <3>3. QED
      BY <2>1, <3>1, <3>2
  <2>4. ASSUME NEW y \in K, fresher'[y].at = "build" PROVE fresher'[y] = fresher[y] /\ y # k
    BY <1>1, <1>4, <2>1, <2>4 DEF HttpLocks
  <2>5. QED
    BY <1>4, <2>3, <2>4 DEF Freed
<1>10. QED
  BY <1>3, <1>4, <1>8, <1>9, HttpBuilds

LEMMA HttpBuildsRefresh ==
  ASSUME NEW K, NEW X, NEW V, NEW P, HttpState(K, X, V, P), NEW k \in K,
         Http(K, X, V)!RefreshBuilds(k)
  PROVE  HttpInv(K, V, P)'
<1>1. /\ HttpRefresh(K) /\ HttpReaders(K, P) /\ HttpLocks(K) /\ K \cap Readers = {}
  BY HttpParts
<1>2. PICK j \in HttpThreads : j = fresher[k] /\ j.version <= source
  BY <1>1 DEF HttpRefresh
<1>3. PICK v \in Nat : v = j.version /\ v <= source
  BY <1>2 DEF HttpThreads
<1>4. /\ j.at = "build" /\ lock' = [lock EXCEPT ![k] = "free"] /\ UNCHANGED <<source, waits, reader>>
      /\ Http(K, X, V)!Built(k, v) \/ UNCHANGED <<entries, shared>>
  BY <1>2, <1>3 DEF Http!RefreshBuilds, Http!Free
<1>5. PICK x : x = [j EXCEPT !.at = "leave"]
  OBVIOUS
<1>6. x \in HttpThreads /\ x.version = j.version /\ x.at = "leave"
  BY <1>5 DEF HttpThreads
<1>7. fresher' = [fresher EXCEPT ![k] = x]
  BY <1>2, <1>5 DEF Http!RefreshBuilds
<1>8. fresher'[k] = x /\ \A y \in K : y # k => fresher'[y] = fresher[y]
  BY <1>1, <1>7 DEF HttpRefresh
<1>9. HttpReaders(K, P)' /\ HttpRefresh(K)'
  BY <1>1, <1>2, <1>4, <1>6, <1>7 DEF HttpRefresh, HttpReaders
<1>10. Freed(K, k)
  <2>1. lock[k] = k
    BY <1>1, <1>2, <1>4 DEF HttpLocks
  <2>2. ASSUME NEW q \in Readers, reader'[q].at = "build"
        PROVE  reader'[q] = reader[q] /\ reader[q].key # k
    <3>1. reader'[q] = reader[q] /\ lock[reader[q].key] = q
      BY <1>1, <1>4, <2>2 DEF HttpLocks
    <3>2. QED
      BY <1>1, <2>1, <3>1
  <2>3. ASSUME NEW y \in K, fresher'[y].at = "build" PROVE fresher'[y] = fresher[y] /\ y # k
    BY <1>6, <1>8, <2>3
  <2>4. QED
    BY <1>4, <2>2, <2>3 DEF Freed
<1>11. QED
  BY <1>3, <1>4, <1>9, <1>10, HttpBuilds
\* The thread ends; entries age, the data changes, other processes write.
LEMMA HttpOutside ==
  ASSUME NEW K, NEW X, NEW V, NEW P, HttpState(K, X, V, P),
         \/ \E k \in K : Http(K, X, V)!RefreshLeaves(k)
         \/ Http(K, X, V)!SharedAges \/ Http(K, X, V)!Change \/ Http(K, X, V)!OtherProcess
  PROVE  HttpInv(K, V, P)'
<1>1. /\ HttpInv(K, V, P) /\ HttpStored(K, V) /\ HttpMemory(K) /\ HttpRefresh(K)
      /\ HttpReaders(K, P) /\ HttpLocks(K) /\ HttpNewest(P) /\ source \in Nat /\ V \in Nat
      /\ waits \subseteq K
  BY HttpParts
<1>2. entries' = entries /\ reader' = reader /\ lock' = lock
  BY DEF Http!RefreshLeaves, Http!SharedAges, Http!Change, Http!OtherProcess
<1>3. Moves(K, entries')
  BY <1>1, <1>2, HttpStays
<1>4. CASE \E k \in K : Http(K, X, V)!RefreshLeaves(k)
  <2>1. PICK k \in K : Http(K, X, V)!RefreshLeaves(k)
    BY <1>4
  <2>2. PICK x : x = Http(K, X, V)!Nobody
    OBVIOUS
  <2>3. x \in HttpThreads /\ x.version = 0 /\ x.at = "idle"
    BY <2>2 DEF Http!Nobody, HttpThreads
  <2>4. /\ fresher' = [fresher EXCEPT ![k] = x] /\ waits' = waits \ {k}
        /\ UNCHANGED <<source, shared>>
    BY <2>1, <2>2 DEF Http!RefreshLeaves
  <2>5. HttpRefresh(K)' /\ HttpStored(K, V)' /\ HttpMemory(K)' /\ HttpReaders(K, P)'
    BY <1>1, <1>2, <2>3, <2>4 DEF HttpRefresh, HttpStored, HttpMemory, HttpReaders
  <2>6. OldBuilds(K)
    BY <1>1, <1>2, <2>3, <2>4 DEF HttpRefresh, OldBuilds
  <2>7. QED
    BY <1>1, <1>2, <1>3, <2>5, <2>6, HttpCalm
<1>5. CASE Http(K, X, V)!SharedAges \/ Http(K, X, V)!OtherProcess
  <2>1. UNCHANGED <<source, waits, fresher>>
    BY <1>5 DEF Http!SharedAges, Http!OtherProcess
  <2>2. PICK k \in K, c \in HttpCopies : c.version <= source /\ shared' = [shared EXCEPT ![k] = c]
    <3>1. CASE Http(K, X, V)!SharedAges
      <4>1. PICK k \in K : shared' = [shared EXCEPT ![k].age = Http(K, X, V)!Older[shared[k].age]]
        BY <3>1 DEF Http!SharedAges
      <4>2. PICK old \in HttpCopies : old = shared[k] /\ old.version <= source
        BY <1>1 DEF HttpStored
      <4>3. PICK age \in HttpAges : age = Http(K, X, V)!Older[old.age]
        BY DEF HttpAges, HttpCopies, Http!Older
      <4>4. PICK c : c = [old EXCEPT !.age = age]
        OBVIOUS
      <4>5. c \in HttpCopies /\ c.version = old.version
        BY <4>4 DEF HttpCopies
      <4>6. shared' = [shared EXCEPT ![k] = c]
        BY <4>1, <4>2, <4>3, <4>4
      <4>7. QED
        BY <4>2, <4>5, <4>6
    <3>2. CASE Http(K, X, V)!OtherProcess
      <4>1. PICK k \in K, v \in 0..source :
              shared' = [shared EXCEPT ![k] = [version |-> v, age |-> "fresh"]]
        BY <3>2 DEF Http!OtherProcess
      <4>2. PICK c : c = [version |-> v, age |-> "fresh"]
        OBVIOUS
      <4>3. v \in Nat /\ v <= source
        BY <1>1
      <4>4. c \in HttpCopies /\ c.version = v
        BY <4>2, <4>3 DEF HttpCopies, HttpAges
      <4>5. QED
        BY <4>1, <4>2, <4>3, <4>4
    <3>3. QED
      BY <1>5, <3>1, <3>2
  <2>3. shared' \in [K -> HttpCopies] /\ \A y \in K : shared'[y].version <= source
    BY <1>1, <2>2 DEF HttpStored
  <2>4. HttpRefresh(K)' /\ HttpStored(K, V)' /\ HttpMemory(K)' /\ HttpReaders(K, P)'
    BY <1>1, <1>2, <2>1, <2>3 DEF HttpRefresh, HttpStored, HttpMemory, HttpReaders
  <2>5. OldBuilds(K)
    BY <1>2, <2>1 DEF OldBuilds
  <2>6. QED
    BY <1>1, <1>2, <1>3, <2>4, <2>5, HttpCalm
<1>6. CASE Http(K, X, V)!Change
  <2>1. PICK n \in Nat : n = source + 1 /\ n <= V /\ source <= n
    BY <1>1, <1>6 DEF Http!Change
  <2>2. source' = n /\ UNCHANGED <<shared, waits, fresher>>
    BY <1>6, <2>1 DEF Http!Change
  <2>3. \A m \in Nat : m <= source => m <= n
    BY <1>1, <2>1
  <2>4. HttpStored(K, V)'
    BY <1>1, <2>1, <2>2, <2>3 DEF HttpStored, HttpCopies
  <2>5. HttpRefresh(K)'
    BY <1>1, <2>2, <2>3 DEF HttpRefresh, HttpThreads
  <2>6. HttpReaders(K, P)'
    BY <1>1, <1>2, <2>2, <2>3 DEF HttpReaders, HttpReads
  <2>7. HttpMemory(K)'
    <3>1. ASSUME NEW i \in 1..Len(entries) PROVE entries[i].version <= n
      <4>1. entries[i] \in HttpEntries(K) /\ entries[i].version <= source
        BY <1>1 DEF HttpMemory
      <4>2. entries[i].version \in Nat
        BY <4>1 DEF HttpEntries
      <4>3. QED
        BY <2>3, <4>1, <4>2
    <3>2. QED
      BY <1>1, <1>2, <2>2, <3>1 DEF HttpMemory
  <2>8. OldBuilds(K)
    BY <1>2, <2>2 DEF OldBuilds
  <2>9. QED
    BY <1>1, <1>2, <1>3, <2>4, <2>5, <2>6, <2>7, <2>8, HttpCalm
<1>7. QED
  BY <1>4, <1>5, <1>6

\* An entry ages: keys and versions stay.
LEMMA HttpGrowsOld ==
  ASSUME NEW K, NEW X, NEW V, HttpMemory(K), Http(K, X, V)!Aging
  PROVE  /\ entries' \in Seq(HttpEntries(K)) /\ Len(entries') = Len(entries)
         /\ \A j \in 1..Len(entries) : /\ entries'[j].key = entries[j].key
                                       /\ entries'[j].version = entries[j].version
<1>1. entries \in Seq(HttpEntries(K)) /\ Len(entries) \in Nat /\ DOMAIN entries = 1..Len(entries)
  BY DEF HttpMemory
<1>2. PICK i \in 1..Len(entries) :
        entries' = [entries EXCEPT ![i].age = Http(K, X, V)!Older[entries[i].age]]
  BY <1>1 DEF Http!Aging
<1>3. PICK old \in HttpEntries(K) : old = entries[i]
  BY <1>1
<1>4. PICK age \in HttpAges : age = Http(K, X, V)!Older[old.age]
  BY DEF HttpAges, HttpEntries, Http!Older
<1>5. PICK x : x = [old EXCEPT !.age = age]
  OBVIOUS
<1>6. x \in HttpEntries(K) /\ x.version = old.version /\ x.key = old.key
  BY <1>5 DEF HttpEntries
<1>7. entries' = [entries EXCEPT ![i] = x]
  BY <1>2, <1>3, <1>4, <1>5
<1>8. entries' \in Seq(HttpEntries(K)) /\ Len(entries') = Len(entries)
  BY <1>1, <1>6, <1>7
<1>9. \A j \in 1..Len(entries) : entries'[j] = IF j = i THEN x ELSE entries[j]
  BY <1>1, <1>7
<1>10. QED
  BY <1>3, <1>6, <1>8, <1>9

LEMMA HttpAged ==
  ASSUME NEW K, NEW X, NEW V, NEW P, HttpState(K, X, V, P), Http(K, X, V)!Aging
  PROVE  HttpInv(K, V, P)'
<1>1. /\ HttpInv(K, V, P) /\ HttpStored(K, V) /\ HttpMemory(K) /\ HttpRefresh(K)
      /\ HttpReaders(K, P) /\ HttpLocks(K) /\ HttpNewest(P)
  BY HttpParts
<1>2. UNCHANGED <<source, shared, waits, fresher, reader, lock>>
  BY DEF Http!Aging
<1>3. entries' \in Seq(HttpEntries(K)) /\ Len(entries') = Len(entries)
  BY <1>1, HttpGrowsOld
<1>4. \A j \in 1..Len(entries) : /\ entries'[j].key = entries[j].key
                                 /\ entries'[j].version = entries[j].version
  BY <1>1, HttpGrowsOld
<1>5. HttpMemory(K)'
  BY <1>1, <1>2, <1>3, <1>4 DEF HttpMemory, Distinct
<1>6. HttpNewest(P)'
  BY <1>1, <1>2, <1>3, <1>4 DEF HttpNewest, BuildsNewer
<1>7. HttpStored(K, V)' /\ HttpRefresh(K)' /\ HttpReaders(K, P)' /\ HttpLocks(K)'
  BY <1>1, <1>2 DEF HttpStored, HttpRefresh, HttpReaders, HttpLocks
<1>8. QED
  BY <1>5, <1>6, <1>7 DEF HttpInv

LEMMA HttpKeeps ==
  ASSUME NEW K, NEW X, NEW V, NEW P, HttpState(K, X, V, P), Http(K, X, V)!Next
  PROVE  HttpInv(K, V, P)'
<1>1. ASSUME NEW r \in Readers,
             \/ Http(K, X, V)!RedisGet(r) \/ Http(K, X, V)!RedisFails(r)
             \/ Http(K, X, V)!RedisRemember(r)
      PROVE  HttpInv(K, V, P)'
  BY <1>1, HttpReadsRedis
<1>2. ASSUME NEW r \in Readers, Http(K, X, V)!ReaderLocks(r) PROVE HttpInv(K, V, P)'
  BY <1>2, HttpLocksReader
<1>3. ASSUME NEW r \in Readers, Http(K, X, V)!ReaderBuilds(r) PROVE HttpInv(K, V, P)'
  BY <1>3, HttpBuildsReader
<1>4. ASSUME NEW r \in Readers, NEW k \in K, Http(K, X, V)!Get(r, k) PROVE HttpInv(K, V, P)'
  BY <1>4, HttpGets
<1>5. ASSUME NEW k \in K, Http(K, X, V)!RefreshLocks(k) PROVE HttpInv(K, V, P)'
  BY <1>5, HttpLocksRefresh
<1>6. ASSUME NEW k \in K, Http(K, X, V)!RefreshBuilds(k) PROVE HttpInv(K, V, P)'
  BY <1>6, HttpBuildsRefresh
<1>7. CASE \/ \E k \in K : Http(K, X, V)!RefreshLeaves(k)
           \/ Http(K, X, V)!SharedAges \/ Http(K, X, V)!Change \/ Http(K, X, V)!OtherProcess
  BY <1>7, HttpOutside
<1>8. CASE Http(K, X, V)!Aging
  BY <1>8, HttpAged
<1>9. QED
  BY <1>1, <1>2, <1>3, <1>4, <1>5, <1>6, <1>7, <1>8
  DEF Http!Next, Http!Working, Http!Refreshing
LEMMA HttpInit ==
  ASSUME NEW K, NEW X, NEW V, NEW P, Http(K, X, V)!CacheAssumption,
         P \in {{}, {"redis", "keep", "keep_stale"}}, Http(K, X, V)!Init
  PROVE  HttpInv(K, V, P)
<1>1. MaxEntries \in Nat /\ V \in Nat /\ \E k \in K : TRUE
  BY DEF Http!CacheAssumption
<1>2. source = 0 /\ entries = <<>> /\ waits = {} /\ lock = [k \in K |-> "free"]
  BY DEF Http!Init, Http!Free
<1>3. HttpStored(K, V)
  <2>1. PICK c : c = [version |-> 0, age |-> "gone"]
    OBVIOUS
  <2>2. c \in HttpCopies /\ c.version = 0
    BY <2>1 DEF HttpCopies, HttpAges
  <2>3. shared = [k \in K |-> c]
    BY <2>1 DEF Http!Init, Http!NoCopy
  <2>4. QED
    BY <1>1, <1>2, <2>2, <2>3 DEF HttpStored
<1>4. HttpRefresh(K) /\ \A k \in K : fresher[k].at = "idle"
  <2>1. PICK x : x = Http(K, X, V)!Nobody
    OBVIOUS
  <2>2. x \in HttpThreads /\ x.version = 0 /\ x.at = "idle"
    BY <2>1 DEF Http!Nobody, HttpThreads
  <2>3. fresher = [k \in K |-> x]
    BY <2>1 DEF Http!Init
  <2>4. QED
    BY <1>2, <2>2, <2>3 DEF HttpRefresh
<1>5. HttpReaders(K, P) /\ \A r \in Readers : reader[r].at = "idle"
  <2>1. PICK k \in K : k = CHOOSE y \in K : TRUE
    BY <1>1
  <2>2. PICK x : x = [at |-> "idle", key |-> k, version |-> 0]
    OBVIOUS
  <2>3. x \in HttpReads(K) /\ x.version = 0 /\ x.at = "idle"
    BY <2>2 DEF HttpReads
  <2>4. reader = [r \in Readers |-> x]
    BY <2>1, <2>2 DEF Http!Init
  <2>5. x.at \notin P
    BY <2>3
  <2>6. QED
    BY <1>2, <2>3, <2>4, <2>5 DEF HttpReaders
<1>6. HttpMemory(K) /\ HttpNewest(P)
  BY <1>1, <1>2 DEF HttpMemory, HttpNewest, Distinct
<1>7. HttpLocks(K)
  BY <1>2, <1>4, <1>5 DEF HttpLocks
<1>8. QED
  BY <1>3, <1>4, <1>5, <1>6, <1>7 DEF HttpInv

LEMMA HttpSameCardinality ==
  ASSUME NEW K, NEW X, NEW V, NEW S
  PROVE  Http(K, X, V)!Cardinality(S) = Cardinality(S)
BY DEF Http!Cardinality, Cardinality

\* Who builds a response holds its lock: there is one.
LEMMA HttpOneBuild ==
  ASSUME NEW K, NEW X, NEW V, HttpLocks(K)
  PROVE  Http(K, X, V)!OneBuild
<1>1. ASSUME NEW k \in K
      PROVE  Http(K, X, V)!Cardinality(Http(K, X, V)!Builders(k)) <= 1
  <2>1. PICK S : S = Http(K, X, V)!Builders(k)
    OBVIOUS
  <2>2. \A x \in S : x = lock[k]
    BY <2>1 DEF HttpLocks, Http!Builders
  <2>3. Cardinality(S) <= 1
    BY <2>2, AtMostOne
  <2>4. QED
    BY <2>1, <2>3, HttpSameCardinality
<1>2. QED
  BY <1>1 DEF Http!OneBuild

LEMMA HttpHolds ==
  ASSUME NEW K, NEW X, NEW V, NEW P, HttpState(K, X, V, P)
  PROVE  Http(K, X, V)!TypeOK
<1>1. /\ HttpStored(K, V) /\ HttpMemory(K) /\ HttpRefresh(K) /\ HttpReaders(K, P)
      /\ HttpLocks(K) /\ MaxEntries \in Nat /\ V \in Nat /\ source \in Nat
  BY HttpParts
<1> DEFINE B == Http(K, X, V)!Versions
<1>2. \A n \in Nat : n <= source => n \in B
  BY <1>1 DEF HttpStored, Http!Versions
<1> HIDE DEF B
<1>3. source \in B
  BY <1>1, <1>2
<1>4. entries \in Seq([key : K, version : B, age : HttpAges]) /\ Len(entries) <= MaxEntries
  <2>1. ASSUME NEW i \in 1..Len(entries)
        PROVE  entries[i] \in [key : K, version : B, age : HttpAges]
    <3>1. PICK e \in HttpEntries(K) : e = entries[i] /\ e.version <= source
      BY <1>1 DEF HttpMemory
    <3>2. e.version \in B
      BY <1>2, <3>1 DEF HttpEntries
    <3>3. QED
      BY <3>1, <3>2 DEF HttpEntries
  <2>2. entries \in Seq(HttpEntries(K)) /\ Len(entries) <= MaxEntries
    BY <1>1 DEF HttpMemory
  <2>3. PICK T : T = [key : K, version : B, age : HttpAges]
    OBVIOUS
  <2>4. entries \in Seq(T)
    BY <2>1, <2>2, <2>3, InSeq
  <2>5. QED
    BY <2>2, <2>3, <2>4
<1>5. shared \in [K -> [version : B, age : HttpAges]]
  <2>1. ASSUME NEW k \in K PROVE shared[k] \in [version : B, age : HttpAges]
    <3>1. PICK c \in HttpCopies : c = shared[k] /\ c.version <= source
      BY <1>1 DEF HttpStored
    <3>2. c.version \in B
      BY <1>2, <3>1 DEF HttpCopies
    <3>3. QED
      BY <3>1, <3>2 DEF HttpCopies
  <2>2. QED
    BY <1>1, <2>1 DEF HttpStored
<1>6. fresher \in [K -> [at : {"idle", "wait", "build", "leave"}, version : B]]
  <2>1. ASSUME NEW k \in K
        PROVE  fresher[k] \in [at : {"idle", "wait", "build", "leave"}, version : B]
    <3>1. PICK c \in HttpThreads : c = fresher[k] /\ c.version <= source
      BY <1>1 DEF HttpRefresh
    <3>2. c.version \in B
      BY <1>2, <3>1 DEF HttpThreads
    <3>3. QED
      BY <3>1, <3>2 DEF HttpThreads
  <2>2. QED
    BY <1>1, <2>1 DEF HttpRefresh
<1>7. reader \in [Readers -> [at : {"idle", "redis", "keep", "keep_stale", "wait", "build"},
                              key : K, version : B]]
  <2>1. ASSUME NEW r \in Readers
        PROVE  reader[r] \in [at : {"idle", "redis", "keep", "keep_stale", "wait", "build"},
                              key : K, version : B]
    <3>1. PICK c \in HttpReads(K) : c = reader[r] /\ c.version <= source
      BY <1>1 DEF HttpReaders
    <3>2. c.version \in B
      BY <1>2, <3>1 DEF HttpReads
    <3>3. QED
      BY <3>1, <3>2 DEF HttpReads
  <2>2. QED
    BY <1>1, <2>1 DEF HttpReaders
<1>8. waits \subseteq K /\ lock \in [K -> K \cup Readers \cup {"free"}]
  BY <1>1 DEF HttpStored, HttpLocks
<1>9. QED
  BY <1>3, <1>4, <1>5, <1>6, <1>7, <1>8
  DEF Http!TypeOK, Http!Entry, Http!Ages, Http!Free, HttpAges, B
\* A reader begins to build only with the lock, when nothing was found.
LEMMA HttpMissesOnly ==
  ASSUME NEW K, NEW X, NEW V, NEW P, HttpState(K, X, V, P), Http(K, X, V)!Next
  PROVE  Http(K, X, V)!MissesOnly
<1> SUFFICES ASSUME NEW r \in Readers, reader[r].at # "build", reader'[r].at = "build"
             PROVE  Http(K, X, V)!Found(reader[r].key) = {}
  BY DEF Http!MissesOnly
<1>1. reader \in [Readers -> HttpReads(K)] /\ reader[r] \in HttpReads(K)
  BY HttpParts DEF HttpReaders
<1>2. ASSUME NEW q \in Readers, NEW at, at # "build",
             \/ reader' = [reader EXCEPT ![q].at = at]
             \/ \E k : reader' = [reader EXCEPT ![q] = [reader[q] EXCEPT !.key = k, !.at = at]]
             \/ \E v : reader' = [reader EXCEPT ![q] = [reader[q] EXCEPT !.at = at, !.version = v]]
      PROVE  FALSE
  <2>1. q = r
    BY <1>1, <1>2
  <2>2. PICK j \in HttpReads(K) : j = reader[r]
    BY <1>1
  <2>3. PICK x : x.at = at /\ reader' = [reader EXCEPT ![r] = x]
    <3>1. CASE reader' = [reader EXCEPT ![q].at = at]
      <4>1. PICK x : x = [j EXCEPT !.at = at]
        OBVIOUS
      <4>2. x.at = at
        BY <4>1 DEF HttpReads
      <4>3. reader' = [reader EXCEPT ![r] = x]
        BY <2>1, <2>2, <3>1, <4>1
      <4>4. QED
        BY <4>2, <4>3
    <3>2. CASE \E k : reader' = [reader EXCEPT ![q] = [reader[q] EXCEPT !.key = k, !.at = at]]
      <4>1. PICK k : reader' = [reader EXCEPT ![q] = [reader[q] EXCEPT !.key = k, !.at = at]]
        BY <3>2
      <4>2. PICK x : x = [j EXCEPT !.key = k, !.at = at]
        OBVIOUS
      <4>3. x.at = at
        BY <4>2 DEF HttpReads
      <4>4. reader' = [reader EXCEPT ![r] = x]
        BY <2>1, <2>2, <4>1, <4>2
      <4>5. QED
        BY <4>3, <4>4
    <3>3. CASE \E v : reader' = [reader EXCEPT ![q] = [reader[q] EXCEPT !.at = at, !.version = v]]
      <4>1. PICK v : reader' = [reader EXCEPT ![q] = [reader[q] EXCEPT !.at = at, !.version = v]]
        BY <3>3
      <4>2. PICK x : x = [j EXCEPT !.at = at, !.version = v]
        OBVIOUS
      <4>3. x.at = at
        BY <4>2 DEF HttpReads
      <4>4. reader' = [reader EXCEPT ![r] = x]
        BY <2>1, <2>2, <4>1, <4>2
      <4>5. QED
        BY <4>3, <4>4
    <3>4. QED
      BY <1>2, <3>1, <3>2, <3>3
  <2>4. reader'[r].at = at
    BY <1>1, <2>3
  <2>5. QED
    BY <1>2, <2>4
<1>3. reader' # reader
  OBVIOUS
<1>4. ASSUME NEW q \in Readers, NEW k \in K, Http(K, X, V)!Get(q, k) PROVE FALSE
  <2>1. PICK at : at = IF Http(K, X, V)!Found(k) # {} THEN "idle" ELSE IF X THEN "redis" ELSE "wait"
    OBVIOUS
  <2>2. reader' = [reader EXCEPT ![q] = [reader[q] EXCEPT !.key = k, !.at = at]]
    BY <1>4, <2>1 DEF Http!Get
  <2>3. at # "build"
    BY <2>1
  <2>4. QED
    BY <1>2, <2>2, <2>3
<1>5. ASSUME NEW q \in Readers, Http(K, X, V)!RedisGet(q) PROVE FALSE
  <2>1. PICK held : held = shared[reader[q].key]
    OBVIOUS
  <2>2. PICK at \in {"keep", "keep_stale"} : at = IF held.age = "fresh" THEN "keep" ELSE "keep_stale"
    OBVIOUS
  <2>3. \/ reader' = [reader EXCEPT ![q].at = "wait"]
        \/ reader' = [reader EXCEPT ![q] = [reader[q] EXCEPT !.at = at, !.version = held.version]]
    BY <1>5, <2>1, <2>2 DEF Http!RedisGet, Http!Become
  <2>4. QED
    BY <1>2, <2>3
<1>6. ASSUME NEW q \in Readers,
             \/ Http(K, X, V)!RedisFails(q) \/ Http(K, X, V)!RedisRemember(q)
             \/ Http(K, X, V)!ReaderBuilds(q)
      PROVE  FALSE
  <2>1. PICK at \in {"wait", "idle"} : reader' = [reader EXCEPT ![q].at = at]
    BY <1>6 DEF Http!RedisFails, Http!RedisRemember, Http!ReaderBuilds, Http!Become
  <2>2. QED
    BY <1>2, <2>1
<1>7. ASSUME NEW q \in Readers, Http(K, X, V)!ReaderLocks(q)
      PROVE  Http(K, X, V)!Found(reader[r].key) = {}
  <2>1. CASE Http(K, X, V)!Found(reader[q].key) # {}
    <3>1. reader' = [reader EXCEPT ![q].at = "idle"]
      BY <1>7, <2>1 DEF Http!ReaderLocks, Http!Become
    <3>2. QED
      BY <1>2, <3>1
  <2>2. CASE Http(K, X, V)!Found(reader[q].key) = {}
    <3>1. PICK x : reader' = [reader EXCEPT ![q] = x]
      BY <1>7, <2>2 DEF Http!ReaderLocks
    <3>2. q = r
      BY <1>1, <3>1
    <3>3. QED
      BY <2>2, <3>2
  <2>3. QED
    BY <2>1, <2>2
<1>8. CASE \/ \E k \in K : Http(K, X, V)!Refreshing(k)
           \/ Http(K, X, V)!Aging \/ Http(K, X, V)!SharedAges \/ Http(K, X, V)!Change
           \/ Http(K, X, V)!OtherProcess
  <2>1. reader' = reader
    BY <1>8 DEF Http!Refreshing, Http!RefreshLocks, Http!RefreshBuilds, Http!RefreshLeaves,
                Http!Aging, Http!SharedAges, Http!Change, Http!OtherProcess
  <2>2. QED
    BY <1>3, <2>1
<1>9. QED
  BY <1>4, <1>5, <1>6, <1>7, <1>8 DEF Http!Next, Http!Working

\* What a build without Redis puts in place of an entry is at least as new.
LEMMA HttpOnward ==
  ASSUME NEW K, NEW X, NEW V, NEW P, HttpState(K, X, V, P), P # {}, Http(K, X, V)!Next
  PROVE  Http(K, X, V)!NeverOlder
<1>1. /\ HttpMemory(K) /\ HttpNewest(P) /\ HttpReaders(K, P) /\ MaxEntries \in Nat
      /\ P = {"redis", "keep", "keep_stale"} /\ HttpRefresh(K)
  BY HttpParts
<1>2. /\ DOMAIN entries = 1..Len(entries) /\ Distinct(entries) /\ entries \in Seq(HttpEntries(K))
      /\ \A i \in 1..Len(entries) : entries[i].version \in Nat
  <2>1. entries \in Seq(HttpEntries(K)) /\ Distinct(entries)
    BY <1>1 DEF HttpMemory
  <2>2. ASSUME NEW i \in 1..Len(entries) PROVE entries[i].version \in Nat
    <3>1. entries[i] \in HttpEntries(K)
      BY <2>1
    <3>2. QED
      BY <3>1 DEF HttpEntries
  <2>3. QED
    BY <2>1, <2>2
<1> DEFINE Goes == \A i \in 1..Len(entries), j \in DOMAIN entries' :
                      entries[i].key = entries'[j].key => entries'[j].version >= entries[i].version
<1>3. SUFFICES Goes
  BY <1>2 DEF Http!NeverOlder
<1>4. ASSUME entries' = entries PROVE Goes
  BY <1>2, <1>4 DEF Distinct
<1>5. ASSUME Moves(K, entries') PROVE Goes
  <2>1. DOMAIN entries' = 1..Len(entries') /\ From(entries', entries)
    BY <1>5 DEF Moves, HttpList, Listed
  <2>2. QED
    BY <1>2, <2>1 DEF From, Distinct
<1>6. ASSUME NEW k \in K, NEW v \in Nat, Http(K, X, V)!Built(k, v) \/ UNCHANGED <<entries, shared>>,
             \A i \in 1..Len(entries) : entries[i].key = k => entries[i].version <= v
      PROVE  Goes
  <2>1. CASE UNCHANGED <<entries, shared>>
    BY <1>4, <2>1
  <2>2. CASE Http(K, X, V)!Built(k, v)
    <3>1. PICK e : e = [key |-> k, version |-> v, age |-> "fresh"]
      OBVIOUS
    <3>2. e.key = k /\ e.version = v /\ "fresh" \in HttpAges
      BY <3>1 DEF HttpAges
    <3>3. entries' = Http(K, X, V)!Remembered(k, v, "fresh")
      BY <2>2 DEF Http!Built
    <3>4. Adds(K, entries', e)
      BY <1>1, <3>1, <3>2, <3>3, HttpRemembers
    <3>5. /\ DOMAIN entries' = 1..Len(entries')
          /\ \A j \in 1..Len(entries') :
                \/ entries'[j] = e
                \/ entries'[j].key # e.key /\ \E i \in 1..Len(entries) : entries'[j] = entries[i]
      BY <3>4 DEF Adds, HttpList, Listed
    <3>6. QED
      BY <1>2, <1>6, <3>2, <3>5 DEF Distinct
  <2>3. QED
    BY <1>6, <2>1, <2>2
<1>7. ASSUME NEW r \in Readers, NEW k \in K, Http(K, X, V)!Get(r, k) PROVE Goes
  <2>1. entries' = Http(K, X, V)!Touched(k)
    BY <1>7 DEF Http!Get
  <2>2. Moves(K, entries')
    BY <1>1, <2>1, HttpTouches
  <2>3. QED
    BY <1>5, <2>2
<1>8. ASSUME NEW r \in Readers, Http(K, X, V)!ReaderLocks(r) PROVE Goes
  <2>1. PICK k \in K : k = reader[r].key
    BY ReaderAt
  <2>2. entries' = Http(K, X, V)!Touched(k)
    BY <1>8, <2>1 DEF Http!ReaderLocks
  <2>3. Moves(K, entries')
    BY <1>1, <2>2, HttpTouches
  <2>4. QED
    BY <1>5, <2>3
<1>9. ASSUME NEW r \in Readers, Http(K, X, V)!ReaderBuilds(r) PROVE Goes
  <2>1. PICK k \in K, v \in Nat : k = reader[r].key /\ v = reader[r].version
    BY ReaderAt
  <2>2. Http(K, X, V)!Built(k, v) \/ UNCHANGED <<entries, shared>>
    BY <1>9, <2>1 DEF Http!ReaderBuilds
  <2>3. \A i \in 1..Len(entries) : entries[i].key = k => entries[i].version <= v
    BY <1>1, <1>9, <2>1 DEF Http!ReaderBuilds, HttpNewest, BuildsNewer
  <2>4. QED
    BY <1>6, <2>2, <2>3
<1>10. ASSUME NEW k \in K, Http(K, X, V)!RefreshBuilds(k) PROVE Goes
  <2>1. PICK v \in Nat : v = fresher[k].version
    BY <1>1 DEF HttpRefresh, HttpThreads
  <2>2. Http(K, X, V)!Built(k, v) \/ UNCHANGED <<entries, shared>>
    BY <1>10, <2>1 DEF Http!RefreshBuilds
  <2>3. \A i \in 1..Len(entries) : entries[i].key = k => entries[i].version <= v
    BY <1>1, <1>10, <2>1 DEF Http!RefreshBuilds, HttpNewest, BuildsNewer
  <2>4. QED
    BY <1>6, <2>2, <2>3
<1>11. CASE Http(K, X, V)!Aging
  <2>1. entries' \in Seq(HttpEntries(K)) /\ Len(entries') = Len(entries)
    BY <1>1, <1>11, HttpGrowsOld
  <2>2. \A j \in 1..Len(entries) : /\ entries'[j].key = entries[j].key
                                   /\ entries'[j].version = entries[j].version
    BY <1>1, <1>11, HttpGrowsOld
  <2>3. DOMAIN entries' = 1..Len(entries)
    BY <2>1
  <2>4. QED
    BY <1>2, <2>2, <2>3 DEF Distinct
<1>12. ASSUME NEW r \in Readers,
              \/ Http(K, X, V)!RedisGet(r) \/ Http(K, X, V)!RedisFails(r)
              \/ Http(K, X, V)!RedisRemember(r)
       PROVE  Goes
  <2>1. reader[r].at \notin P
    BY ReaderAt
  <2>2. QED
    BY <1>1, <1>12, <2>1 DEF Http!RedisGet, Http!RedisFails, Http!RedisRemember
<1>13. CASE \/ \E k \in K : Http(K, X, V)!RefreshLocks(k) \/ Http(K, X, V)!RefreshLeaves(k)
            \/ Http(K, X, V)!SharedAges \/ Http(K, X, V)!Change \/ Http(K, X, V)!OtherProcess
  <2>1. entries' = entries
    BY <1>13 DEF Http!RefreshLocks, Http!RefreshLeaves, Http!SharedAges, Http!Change,
                 Http!OtherProcess
  <2>2. QED
    BY <1>4, <2>1
<1>14. QED
  BY <1>7, <1>8, <1>9, <1>10, <1>11, <1>12, <1>13
  DEF Http!Next, Http!Working, Http!Refreshing
-----------------------------------------------------------------------------
(* The suite: each behaviour keeps the invariant of its component.          *)

RedisPlaces == {"redis", "keep", "keep_stale"}
Locking(K, R) == Cardinality(K) + Cardinality(R)

LocalInv == HttpInv(Keys, FewVersions, RedisPlaces)
RemoteInv == HttpInv(FewKeys, FewVersions, {})
IndexedInv == RowsInv(FewKeys, Readers, {}, Locking(FewKeys, Readers), FewVersions)
PlainInv == RowsInv(Keys, FewReaders, {"row", "keep"}, Locking(Keys, FewReaders), FewVersions)
PolledInv == RowsInv(FewKeys, Readers, {"row", "keep"}, Locking(FewKeys, Readers), MaxVersion)

CachesInv ==
    /\ part = "memory" => LocalInv
    /\ part = "redis" => RemoteInv
    /\ part = "rows" => IndexedInv
    /\ part = "files" => PlainInv
    /\ part = "polled" => PolledInv
    /\ part = "views" => ViewInv
    /\ part = "groups" => GroupInv /\ grouping \in BOOLEAN
    /\ part = "boards" => OwnedInv

\* The instances are states their lemmas speak of.
LEMMA LocalState == LocalInv => HttpState(Keys, FALSE, FewVersions, RedisPlaces)
BY HttpAssumption DEF LocalInv, HttpState, HttpAlone, RedisPlaces
LEMMA RemoteState == RemoteInv => HttpState(FewKeys, TRUE, FewVersions, {})
BY HttpAssumption DEF RemoteInv, HttpState, HttpAlone
LEMMA LockingSizes ==
    /\ Locking(FewKeys, Readers) \in Nat /\ Locking(Keys, FewReaders) \in Nat
<1>1. Cardinality(FewKeys) \in Nat /\ Cardinality(Readers) \in Nat
  BY RowsAssumption, RowsSizes
<1>2. Cardinality(Keys) \in Nat /\ Cardinality(FewReaders) \in Nat
  BY RowsAssumption, RowsSizes
<1>3. QED
  BY <1>1, <1>2 DEF Locking
LEMMA IndexedState ==
    IndexedInv => RowsState(FewKeys, Readers, TRUE, TRUE, FewVersions, {}, Locking(FewKeys, Readers))
BY RowsAssumption, LockingSizes DEF IndexedInv, RowsState, FilesAlone, Locking
LEMMA PlainState ==
    PlainInv => RowsState(Keys, FewReaders, FALSE, TRUE, FewVersions, {"row", "keep"},
                          Locking(Keys, FewReaders))
BY RowsAssumption, LockingSizes DEF PlainInv, RowsState, FilesAlone, Locking
LEMMA PolledState ==
    PolledInv => RowsState(FewKeys, Readers, FALSE, FALSE, MaxVersion, {"row", "keep"},
                           Locking(FewKeys, Readers))
BY RowsAssumption, LockingSizes DEF PolledInv, RowsState, FilesAlone, Locking

\* A stuttering step keeps them too.
LEMMA HttpIdles ==
  ASSUME NEW K, NEW V, NEW P, HttpInv(K, V, P), UNCHANGED httpVars
  PROVE  HttpInv(K, V, P)'
BY DEF httpVars, HttpInv, HttpStored, HttpMemory, HttpRefresh, HttpReaders, HttpLocks,
       HttpNewest, BuildsNewer
LEMMA RowsIdle ==
  ASSUME NEW K, NEW R, NEW P, NEW N, NEW V, RowsInv(K, R, P, N, V), UNCHANGED analyticsVars
  PROVE  RowsInv(K, R, P, N, V)'
BY DEF analyticsVars, RowsInv, RowsStored, RowsMemory, RowsLocks, RowsSets

LEMMA CachesStart == SuiteInit => CachesInv
<1> SUFFICES ASSUME SuiteInit PROVE CachesInv
  OBVIOUS
<1>1. CASE part = "memory"
  <2>1. Http(Keys, FALSE, FewVersions)!Init /\ Http(Keys, FALSE, FewVersions)!CacheAssumption
    BY <1>1, HttpAssumption DEF SuiteInit
  <2>2. LocalInv
    BY <2>1, HttpInit DEF LocalInv, RedisPlaces
  <2>3. QED
    BY <1>1, <2>2 DEF CachesInv
<1>2. CASE part = "redis"
  <2>1. Http(FewKeys, TRUE, FewVersions)!Init /\ Http(FewKeys, TRUE, FewVersions)!CacheAssumption
    BY <1>2, HttpAssumption DEF SuiteInit
  <2>2. RemoteInv
    BY <2>1, HttpInit DEF RemoteInv
  <2>3. QED
    BY <1>2, <2>2 DEF CachesInv
<1>3. CASE part = "rows"
  <2>1. /\ Rows(FewKeys, Readers, TRUE, TRUE, FewVersions)!Init
        /\ Rows(FewKeys, Readers, TRUE, TRUE, FewVersions)!CacheAssumption
    BY <1>3, RowsAssumption DEF SuiteInit
  <2>2. IndexedInv
    BY <2>1, LockingSizes, RowsInit DEF IndexedInv
  <2>3. QED
    BY <1>3, <2>2 DEF CachesInv
<1>4. CASE part = "files"
  <2>1. /\ Rows(Keys, FewReaders, FALSE, TRUE, FewVersions)!Init
        /\ Rows(Keys, FewReaders, FALSE, TRUE, FewVersions)!CacheAssumption
    BY <1>4, RowsAssumption DEF SuiteInit
  <2>2. PlainInv
    BY <2>1, LockingSizes, RowsInit DEF PlainInv
  <2>3. QED
    BY <1>4, <2>2 DEF CachesInv
<1>5. CASE part = "polled"
  <2>1. /\ Rows(FewKeys, Readers, FALSE, FALSE, MaxVersion)!Init
        /\ Rows(FewKeys, Readers, FALSE, FALSE, MaxVersion)!CacheAssumption
    BY <1>5, RowsAssumption DEF SuiteInit
  <2>2. PolledInv
    BY <2>1, LockingSizes, RowsInit DEF PolledInv
  <2>3. QED
    BY <1>5, <2>2 DEF CachesInv
<1>6. CASE part = "views"
  BY <1>6, ViewInit DEF SuiteInit, CachesInv
<1>7. CASE part = "groups"
  <2>1. grouping \in BOOLEAN
    BY DEF SuiteInit, Group!Init
  <2>2. QED
    BY <1>7, <2>1, GroupInit DEF SuiteInit, CachesInv
<1>8. CASE part = "boards"
  BY <1>8, OwnedInit DEF SuiteInit, CachesInv
<1>9. QED
  BY <1>1, <1>2, <1>3, <1>4, <1>5, <1>6, <1>7, <1>8 DEF SuiteInit

LEMMA CachesKeep == CachesInv /\ [SuiteNext]_suiteVars => CachesInv'
<1> SUFFICES ASSUME CachesInv, [SuiteNext]_suiteVars PROVE CachesInv'
  OBVIOUS
<1>1. CASE LocalStep
  <2>1. part = "memory" /\ part' = part /\ LocalInv /\ Http(Keys, FALSE, FewVersions)!Next
    BY <1>1 DEF LocalStep, OnlyHttp, CachesInv
  <2>2. LocalInv'
    BY <2>1, LocalState, HttpKeeps DEF LocalInv
  <2>3. QED
    BY <2>1, <2>2 DEF CachesInv
<1>2. CASE RemoteStep
  <2>1. part = "redis" /\ part' = part /\ RemoteInv /\ Http(FewKeys, TRUE, FewVersions)!Next
    BY <1>2 DEF RemoteStep, OnlyHttp, CachesInv
  <2>2. RemoteInv'
    BY <2>1, RemoteState, HttpKeeps DEF RemoteInv
  <2>3. QED
    BY <2>1, <2>2 DEF CachesInv
<1>3. CASE IndexedStep
  <2>1. /\ part = "rows" /\ part' = part /\ IndexedInv
        /\ Rows(FewKeys, Readers, TRUE, TRUE, FewVersions)!Next
    BY <1>3 DEF IndexedStep, OnlyAnalytics, CachesInv
  <2>2. IndexedInv'
    BY <2>1, IndexedState, RowsKeeps DEF IndexedInv
  <2>3. QED
    BY <2>1, <2>2 DEF CachesInv
<1>4. CASE PlainStep
  <2>1. /\ part = "files" /\ part' = part /\ PlainInv
        /\ Rows(Keys, FewReaders, FALSE, TRUE, FewVersions)!Next
    BY <1>4 DEF PlainStep, OnlyAnalytics, CachesInv
  <2>2. PlainInv'
    BY <2>1, PlainState, RowsKeeps DEF PlainInv
  <2>3. QED
    BY <2>1, <2>2 DEF CachesInv
<1>5. CASE PolledStep
  <2>1. /\ part = "polled" /\ part' = part /\ PolledInv
        /\ Rows(FewKeys, Readers, FALSE, FALSE, MaxVersion)!Next
    BY <1>5 DEF PolledStep, OnlyAnalytics, CachesInv
  <2>2. PolledInv'
    BY <2>1, PolledState, RowsKeeps DEF PolledInv
  <2>3. QED
    BY <2>1, <2>2 DEF CachesInv
<1>6. CASE ViewStep
  <2>1. part = "views" /\ part' = part /\ ViewInv /\ View!Next
    BY <1>6 DEF ViewStep, OnlyView, CachesInv
  <2>2. QED
    BY <2>1, ViewKeeps DEF CachesInv
<1>7. CASE GroupStep
  <2>1. /\ part = "groups" /\ part' = part /\ GroupInv /\ Group!Next
        /\ grouping \in BOOLEAN
    BY <1>7 DEF GroupStep, OnlyGroup, CachesInv
  <2>2. QED
    BY <2>1, GroupKeeps, GroupFlag DEF CachesInv
<1>8. CASE OwnedStep
  <2>1. part = "boards" /\ part' = part /\ OwnedInv /\ Owned!Next
    BY <1>8 DEF OwnedStep, OnlyOwned, CachesInv
  <2>2. QED
    BY <2>1, OwnedKeeps DEF CachesInv
<1>9. CASE UNCHANGED suiteVars
  <2>1. /\ part' = part /\ UNCHANGED httpVars /\ UNCHANGED analyticsVars
        /\ UNCHANGED viewVars /\ UNCHANGED groupVars /\ UNCHANGED ownedVars
    BY <1>9 DEF suiteVars
  <2>2. part = "memory" => LocalInv'
    BY <2>1, HttpIdles DEF CachesInv, LocalInv
  <2>3. part = "redis" => RemoteInv'
    BY <2>1, HttpIdles DEF CachesInv, RemoteInv
  <2>4. part = "rows" => IndexedInv'
    BY <2>1, RowsIdle DEF CachesInv, IndexedInv
  <2>5. part = "files" => PlainInv'
    BY <2>1, RowsIdle DEF CachesInv, PlainInv
  <2>6. part = "polled" => PolledInv'
    BY <2>1, RowsIdle DEF CachesInv, PolledInv
  <2>7. part = "views" => ViewInv'
    BY <2>1 DEF CachesInv, viewVars, ViewInv, ViewMemory, ViewDisk, ViewWork, ViewOne,
                TrueFile, TrueLabel, Refreshed
  <2>8. part = "groups" => GroupInv' /\ grouping' \in BOOLEAN
    BY <2>1 DEF CachesInv, groupVars, GroupInv, GroupTypes, GroupBounds, GroupLabels
  <2>9. part = "boards" => OwnedInv'
    BY <2>1 DEF CachesInv, ownedVars, OwnedInv
  <2>10. QED
    BY <2>1, <2>2, <2>3, <2>4, <2>5, <2>6, <2>7, <2>8, <2>9 DEF CachesInv
<1>10. QED
  BY <1>1, <1>2, <1>3, <1>4, <1>5, <1>6, <1>7, <1>8, <1>9 DEF SuiteNext

LEMMA CachesHold == CachesInv => TypesOK /\ LabelsTrue
<1> SUFFICES ASSUME CachesInv PROVE TypesOK /\ LabelsTrue
  OBVIOUS
<1>1. part = "memory" => Http(Keys, FALSE, FewVersions)!TypeOK
  BY LocalState, HttpHolds DEF CachesInv
<1>2. part = "redis" => Http(FewKeys, TRUE, FewVersions)!TypeOK
  BY RemoteState, HttpHolds DEF CachesInv
<1>3. part = "rows" => /\ Rows(FewKeys, Readers, TRUE, TRUE, FewVersions)!TypeOK
                       /\ Rows(FewKeys, Readers, TRUE, TRUE, FewVersions)!RowsTrue
  BY IndexedState, RowsHolds DEF CachesInv
<1>4. part = "files" => /\ Rows(Keys, FewReaders, FALSE, TRUE, FewVersions)!TypeOK
                        /\ Rows(Keys, FewReaders, FALSE, TRUE, FewVersions)!LabelsTrue
  BY PlainState, RowsHolds DEF CachesInv
<1>5. part = "polled" => /\ Rows(FewKeys, Readers, FALSE, FALSE, MaxVersion)!TypeOK
                         /\ Rows(FewKeys, Readers, FALSE, FALSE, MaxVersion)!LabelsTrue
                         /\ Rows(FewKeys, Readers, FALSE, FALSE, MaxVersion)!RowsTrue
  BY PolledState, RowsHolds DEF CachesInv
<1>6. part = "views" => View!TypeOK /\ View!LabelNotAhead /\ View!OneRefresh
  BY ViewHolds DEF CachesInv
<1>7. part = "groups" => Group!TypeOK /\ Group!VersionNotAhead
  BY GroupHolds DEF CachesInv
<1>8. part = "boards" => Owned!TypeOK /\ Owned!CopyTrue
  BY OwnedHolds DEF CachesInv
<1>9. QED
  BY <1>1, <1>2, <1>3, <1>4, <1>5, <1>6, <1>7, <1>8 DEF TypesOK, LabelsTrue
LEMMA LocalOneBuild == HttpLocks(Keys) => Http(Keys, FALSE, FewVersions)!OneBuild
BY HttpOneBuild
LEMMA RemoteOneBuild == HttpLocks(FewKeys) => Http(FewKeys, TRUE, FewVersions)!OneBuild
BY HttpOneBuild

\* What a step of the response cache is allowed to do.
LEMMA CachesStep ==
  ASSUME CachesInv, SuiteNext
  PROVE  /\ part = "memory" => /\ Http(Keys, FALSE, FewVersions)!OneBuild'
                               /\ Http(Keys, FALSE, FewVersions)!MissesOnly
                               /\ Http(Keys, FALSE, FewVersions)!NeverOlder
         /\ part = "redis" => Http(FewKeys, TRUE, FewVersions)!OneBuild'
<1>1. part' = part
  BY DEF SuiteNext, LocalStep, RemoteStep, IndexedStep, PlainStep, PolledStep, ViewStep,
         GroupStep, OwnedStep, OnlyHttp, OnlyAnalytics, OnlyView, OnlyGroup, OnlyOwned
<1>2. CachesInv'
  BY CachesKeep
<1>3. ASSUME part = "memory" PROVE Http(Keys, FALSE, FewVersions)!OneBuild'
  <2>1. HttpLocks(Keys)'
    BY <1>1, <1>2, <1>3 DEF CachesInv, LocalInv, HttpInv
  <2>2. QED
    BY <2>1, LocalOneBuild, PTL
<1>4. ASSUME part = "redis" PROVE Http(FewKeys, TRUE, FewVersions)!OneBuild'
  <2>1. HttpLocks(FewKeys)'
    BY <1>1, <1>2, <1>4 DEF CachesInv, RemoteInv, HttpInv
  <2>2. QED
    BY <2>1, RemoteOneBuild, PTL
<1>5. ASSUME part = "memory"
      PROVE  /\ Http(Keys, FALSE, FewVersions)!MissesOnly
             /\ Http(Keys, FALSE, FewVersions)!NeverOlder
  <2>1. LocalInv /\ Http(Keys, FALSE, FewVersions)!Next
    BY <1>5 DEF CachesInv, SuiteNext, LocalStep, RemoteStep, IndexedStep, PlainStep, PolledStep,
                ViewStep, GroupStep, OwnedStep
  <2>2. HttpState(Keys, FALSE, FewVersions, RedisPlaces)
    BY <2>1, LocalState
  <2>3. Http(Keys, FALSE, FewVersions)!MissesOnly
    BY <2>1, <2>2, HttpMissesOnly
  <2>4. RedisPlaces # {}
    BY DEF RedisPlaces
  <2>5. Http(Keys, FALSE, FewVersions)!NeverOlder
    BY <2>1, <2>2, <2>4, HttpOnward
  <2>6. QED
    BY <2>3, <2>5
<1>6. QED
  BY <1>3, <1>4, <1>5

\* Every variable of every cache keeps its type, for any keys, readers, threads and
\* sizes, with Redis or without, with the database or without: at most MaxEntries
\* responses or payloads are in memory, and one of each key
\* (JSONResponseCache; the caches of doubao_dashboard_server.py).
THEOREM CachesTyped == SuiteSpec => []TypesOK
<1>1. CachesInv => TypesOK
  BY CachesHold
<1>2. QED
  BY CachesStart, CachesKeep, <1>1, PTL DEF SuiteSpec

\* Nothing is kept as current that lacks data: a payload in the database, in memory
\* where no database is, a view, a grouping and a board hold all the data of the
\* version they are labelled with, whatever requests, background builds, failures and
\* writes interleave (the caches of doubao_dashboard_server.py).
THEOREM CachesLabelled == SuiteSpec => []LabelsTrue
<1>1. CachesInv => LabelsTrue
  BY CachesHold
<1>2. QED
  BY CachesStart, CachesKeep, <1>1, PTL DEF SuiteSpec

\* Two builders of one response never run at once, with Redis or without; without
\* it a reader builds only what nobody built while it waited for the lock, and what
\* a process holds of a key never goes back to older data (JSONResponseCache).
THEOREM CachesOnward == SuiteSpec => OneBuildOnward
<1> DEFINE A == /\ part = "memory" => /\ Http(Keys, FALSE, FewVersions)!OneBuild'
                                      /\ Http(Keys, FALSE, FewVersions)!MissesOnly
                                      /\ Http(Keys, FALSE, FewVersions)!NeverOlder
                /\ part = "redis" => Http(FewKeys, TRUE, FewVersions)!OneBuild'
<1>1. CachesInv /\ SuiteNext => A
  BY CachesStep
<1>2. CachesInv /\ [SuiteNext]_suiteVars => [A]_suiteVars
  BY <1>1
<1> HIDE DEF A
<1>3. SuiteSpec => [][A]_suiteVars
  BY CachesStart, CachesKeep, <1>2, PTL DEF SuiteSpec
<1>4. QED
  BY <1>3 DEF OneBuildOnward, A
=============================================================================
