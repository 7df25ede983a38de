----------------------------- MODULE OwnedBoard ------------------------------
(***************************************************************************)
(* The owned-product board of the newest day, laid over a snapshot that    *)
(* may be old: it is shown from memory at once and built again in the      *)
(* background, with a copy in the database for the other processes.  A     *)
(* version of the day's runs stands for what a board is built from.        *)
(***************************************************************************)
EXTENDS Integers

CONSTANTS
    Clients,        \* requests of an overview, each of one thread
    MaxData, MaxFails \* bounds

VARIABLES
    runs,       \* version of the day's runs
    historical, \* version the snapshot's board was built from; 0 when it has none
    board,      \* _OWNED_BOARD_CACHE, 0 when empty
    copy,       \* analytics_cache: the version it is labelled with, what it holds
    thread,     \* clients that build, and the background thread
    due,        \* has the validation interval passed?
    building,   \* _OWNED_BOARD_BUILDING
    fails

owned == <<runs, historical, board, copy, thread, due, building, fails>>

Background == "background"
Threads == Clients \cup {Background}
Rest == [at |-> "rest", version |-> 0, data |-> 0]

Init ==
    /\ runs = 1 /\ historical \in {0, 1} /\ board = 0 /\ copy = [label |-> 0, data |-> 0]
    /\ thread = [t \in Threads |-> Rest]
    /\ due = TRUE /\ building = FALSE /\ fails = 0

Go(t, state) == thread' = [thread EXCEPT ![t] = state]

Collected ==
    /\ runs < MaxData /\ runs' = runs + 1
    /\ UNCHANGED <<historical, board, copy, thread, due, building, fails>>
Interval ==
    /\ ~due /\ due' = TRUE
    /\ UNCHANGED <<runs, historical, board, copy, thread, building, fails>>

-----------------------------------------------------------------------------
(* A request shows the board of memory, or the snapshot's, and has it      *)
(* validated; with neither it builds one itself.                           *)

Schedule ==
    IF building \/ ~due THEN UNCHANGED <<thread, due, building>>
    ELSE /\ building' = TRUE /\ due' = FALSE
         /\ Go(Background, [Rest EXCEPT !.at = "version"])

Ask(c) ==
    /\ thread[c] = Rest
    /\ IF board # 0 \/ historical # 0
       THEN board' = (IF board # 0 THEN board ELSE historical) /\ Schedule
       ELSE Go(c, [Rest EXCEPT !.at = "version"]) /\ UNCHANGED <<board, due, building>>
    /\ UNCHANGED <<runs, historical, copy, fails>>

-----------------------------------------------------------------------------
(* _build_owned_product_board.                                             *)

Version(t) ==
    /\ thread[t].at = "version"
    /\ Go(t, [thread[t] EXCEPT !.at = "copy", !.version = runs])
    /\ UNCHANGED <<runs, historical, board, copy, due, building, fails>>

ReadCopy(t) ==
    /\ thread[t].at = "copy"
    /\ Go(t, IF copy.label = runs THEN [thread[t] EXCEPT !.at = "publish", !.data = copy.data]
             ELSE [thread[t] EXCEPT !.at = "load"])
    /\ UNCHANGED <<runs, historical, board, copy, due, building, fails>>

Load(t) ==
    /\ thread[t].at = "load"
    /\ Go(t, [thread[t] EXCEPT !.at = "put", !.data = runs])
    /\ UNCHANGED <<runs, historical, board, copy, due, building, fails>>

PutAnyway(t) ==
    /\ thread[t].at = "put"
    /\ copy' = [label |-> runs, data |-> thread[t].data]
    /\ Go(t, [thread[t] EXCEPT !.at = "publish"])
    /\ UNCHANGED <<runs, historical, board, due, building, fails>>
\* cache_put: not under a version that came while the board was built
Put(t) ==
    /\ thread[t].at = "put"
    /\ copy' = IF runs = thread[t].version THEN [label |-> runs, data |-> thread[t].data] ELSE copy
    /\ Go(t, [thread[t] EXCEPT !.at = "publish"])
    /\ UNCHANGED <<runs, historical, board, due, building, fails>>

StillBuilding(t) == UNCHANGED building
Discard(t) == building' = IF t = Background THEN FALSE ELSE building

Publish(t) ==
    /\ thread[t].at = "publish"
    /\ board' = thread[t].data
    /\ Go(t, Rest) /\ Discard(t)
    /\ UNCHANGED <<runs, historical, copy, due, fails>>

\* the database does not answer: the request shows what it has
Fail(t) ==
    /\ thread[t].at \in {"version", "copy", "load", "put"} /\ fails < MaxFails
    /\ fails' = fails + 1
    /\ Go(t, Rest) /\ Discard(t)
    /\ UNCHANGED <<runs, historical, board, copy, due>>

Build(t) == Version(t) \/ ReadCopy(t) \/ Load(t) \/ Put(t) \/ Publish(t)
Next ==
    \/ Collected \/ Interval
    \/ \E c \in Clients : Ask(c)
    \/ \E t \in Threads : Build(t) \/ Fail(t)
Spec == Init /\ [][Next]_owned

\* Threads run, the interval passes, somebody looks.
FairSpec ==
    /\ Spec /\ WF_owned(Interval)
    /\ \A t \in Threads : WF_owned(Build(t))
    /\ WF_owned(\E c \in Clients : Ask(c) /\ due)

-----------------------------------------------------------------------------
TypeOK ==
    /\ board \in 0..runs /\ historical \in 0..1
    /\ thread \in [Threads -> [at : {"rest", "version", "copy", "load", "put", "publish"},
                              version : 0..runs, data : 0..runs]]

(* "Never label the old snapshot with the newer scope version": a board in *)
(* the database is of the version it is labelled with, though every        *)
(* process builds and stores at any time.                                  *)
CopyTrue == copy.data = copy.label

(* In the end, when the collectors come to rest: the board shows their last *)
(* runs, after failures and whichever build ends last.                     *)
BoardCatchesUp == board = runs
=============================================================================
