---------------------------- MODULE PaidDashboard ---------------------------
(***************************************************************************)
(* The panel of a paid monitor: one task a day, whose accepted answers the *)
(* panel sums over the days.  The page polls a summary; a server keeps the *)
(* last summary with a signature of the tasks it was made of, and makes it *)
(* again when the signature differs.  Polls of one panel take turns, by a  *)
(* lock of the server; tasks go on while a panel is made.                  *)
(***************************************************************************)
EXTENDS Integers, Sequences, FiniteSets, SequencesExt, FiniteSetsExt

CONSTANTS
    Servers,        \* server processes on one database
    Pages,          \* open pages of the customer
    MaxDay,         \* bound on days
    Expires,        \* the last paid day
    Rounds,         \* rounds a day
    MaxRepairs      \* bound on rounds the operator deletes and runs made again

VARIABLES
    date,           \* today
    runs,           \* the tasks of the days so far, one a day
    summary,        \* server -> what its summary cache holds
    building,       \* server -> the page whose poll holds the panel's lock
    page,           \* page -> what its request came to
    deleted, rerun

panel == <<date, runs, summary, building, page, deleted, rerun>>

NewRun(id) == [id |-> id, status |-> "queued", results |-> <<>>]
Empty == [days |-> {}, latest |-> 0, answers |-> 0, targetDays |-> 0]
Nothing == [signature |-> <<>>, view |-> Empty]
Idle == [pc |-> "idle", view |-> Empty, signature |-> <<>>, server |-> "none"]
Open == "open"
Allowed == date <= Expires

Init ==
    /\ date = 1 /\ runs = <<NewRun(1)>>
    /\ summary = [s \in Servers |-> Nothing] /\ building = [s \in Servers |-> Open]
    /\ page = [p \in Pages |-> Idle]
    /\ deleted = 0 /\ rerun = 0

-----------------------------------------------------------------------------
(* The tasks behind the panel.                                             *)

SetRun(d, r) == runs' = [runs EXCEPT ![d] = r]

NextDay ==
    /\ date < MaxDay /\ date' = date + 1
    /\ runs' = IF date + 1 <= Expires THEN Append(runs, NewRun(1)) ELSE runs
    /\ UNCHANGED <<summary, building, page, deleted, rerun>>

Start(d) ==
    /\ runs[d].status = "queued" /\ SetRun(d, [runs[d] EXCEPT !.status = "running"])
    /\ UNCHANGED <<date, summary, building, page, deleted, rerun>>

\* the worker delivers a round; "yes" recommends the brand
Collect(d, a) ==
    /\ runs[d].status = "running" /\ Len(runs[d].results) < Rounds
    /\ SetRun(d, [runs[d] EXCEPT !.results = Append(@, a)])
    /\ UNCHANGED <<date, summary, building, page, deleted, rerun>>
Finish(d) ==
    /\ runs[d].status = "running" /\ Len(runs[d].results) = Rounds
    /\ SetRun(d, [runs[d] EXCEPT !.status = "completed"])
    /\ UNCHANGED <<date, summary, building, page, deleted, rerun>>

\* the operator deletes a round, which pauses the task, and resumes it
DeleteResult(d) ==
    /\ runs[d].status \in {"completed", "paused"} /\ deleted + rerun < MaxRepairs
    /\ \E k \in 1..Len(runs[d].results) :
         SetRun(d, [runs[d] EXCEPT !.status = "paused", !.results = RemoveAt(@, k)])
    /\ deleted' = deleted + 1
    /\ UNCHANGED <<date, summary, building, page, rerun>>
Resume(d) ==
    /\ runs[d].status = "paused" /\ SetRun(d, [runs[d] EXCEPT !.status = "queued"])
    /\ UNCHANGED <<date, summary, building, page, deleted, rerun>>
\* the day gets a new task; only today's may be made again
Rerun ==
    /\ deleted + rerun < MaxRepairs /\ date <= Len(runs)
    /\ SetRun(date, NewRun(runs[date].id + 1))
    /\ rerun' = rerun + 1
    /\ UNCHANGED <<date, summary, building, page, deleted>>

-----------------------------------------------------------------------------
(* The panel.                                                              *)

IdsOnly == [d \in 1..Len(runs) |-> runs[d].id]
SummarySignature ==
    [d \in 1..Len(runs) |-> <<runs[d].id, Len(runs[d].results), runs[d].status>>]

\* diagnosis_report of a day, as far as the panel shows it
DayReport(d) ==
    LET recommended == Len(SelectSeq(runs[d].results, LAMBDA a : a = "yes"))
    IN [date |-> d, status |-> runs[d].status,
        completed |-> Len(runs[d].results), recommended |-> recommended]
Days == {DayReport(d) : d \in {e \in 1..Len(runs) : Len(runs[e].results) > 0}}

\* what the page is given: the days, the newest of them, and the sums over them
Dashboard ==
    [days |-> Days,
     latest |-> IF Days = {} THEN 0 ELSE Max({r.date : r \in Days}),
     answers |-> FoldSet(LAMBDA r, n : r.completed + n, 0, Days),
     targetDays |-> Cardinality({r \in Days : r.recommended > 0})]

\* a poll: the panel's lock, the monitor and its runs, then the cache
AllowedIfCached(s) == Allowed \/ summary[s].signature = SummarySignature
MayRead(s) == Allowed
Poll(p, s) ==
    /\ page[p].pc = "idle" /\ building[s] = Open
    /\ IF ~MayRead(s)
       THEN /\ page' = [page EXCEPT ![p] = [Idle EXCEPT !.pc = "denied", !.server = s]]
            /\ UNCHANGED building
       ELSE IF summary[s].signature = SummarySignature
       THEN /\ page' = [page EXCEPT ![p] =
                  [pc |-> "cached", view |-> summary[s].view,
                   signature |-> SummarySignature, server |-> s]]
            /\ UNCHANGED building
       ELSE /\ page' = [page EXCEPT ![p] =
                  [pc |-> "making", view |-> Empty, signature |-> SummarySignature, server |-> s]]
            /\ building' = [building EXCEPT ![s] = p]
    /\ UNCHANGED <<date, runs, summary, deleted, rerun>>

\* the reports of the days are read after the signature, then kept under it
Make(p) ==
    /\ page[p].pc = "making"
    /\ LET s == page[p].server IN
         /\ summary' = [summary EXCEPT ![s] = [signature |-> page[p].signature, view |-> Dashboard]]
         /\ building' = [building EXCEPT ![s] = Open]
    /\ page' = [page EXCEPT ![p].pc = "made", ![p].view = Dashboard]
    /\ UNCHANGED <<date, runs, deleted, rerun>>

\* the export and the full panel never use the cache
Export(p, s) ==
    /\ page[p].pc = "idle" /\ building[s] = Open
    /\ page' = [page EXCEPT ![p] =
          IF Allowed THEN [Idle EXCEPT !.pc = "made", !.view = Dashboard, !.server = s]
          ELSE [Idle EXCEPT !.pc = "denied", !.server = s]]
    /\ UNCHANGED <<date, runs, summary, building, deleted, rerun>>

Shown(p) ==
    /\ page[p].pc \in {"denied", "cached", "made"}
    /\ page' = [page EXCEPT ![p] = Idle]
    /\ UNCHANGED <<date, runs, summary, building, deleted, rerun>>

\* the server restarts: the cache, the lock and the requests it served are gone
Restart(s) ==
    /\ summary' = [summary EXCEPT ![s] = Nothing]
    /\ building' = [building EXCEPT ![s] = Open]
    /\ page' = [p \in Pages |-> IF page[p].server = s THEN Idle ELSE page[p]]
    /\ UNCHANGED <<date, runs, deleted, rerun>>

Next ==
    \/ NextDay \/ Rerun
    \/ \E d \in 1..Len(runs) : \/ Start(d) \/ Finish(d) \/ DeleteResult(d) \/ Resume(d)
                               \/ \E a \in {"yes", "no"} : Collect(d, a)
    \/ \E p \in Pages : Make(p) \/ Shown(p) \/ \E s \in Servers : Poll(p, s) \/ Export(p, s)
    \/ \E s \in Servers : Restart(s)
Spec == Init /\ [][Next]_panel

-----------------------------------------------------------------------------
(* A server makes one panel at a time, for a page that waits for it.       *)
TypeOK ==
    /\ \A d \in 1..Len(runs) : Len(runs[d].results) <= Rounds
    /\ Len(runs) <= date
    /\ \A s \in Servers : building[s] # Open =>
         page[building[s]].pc = "making" /\ page[building[s]].server = s

(* What a page is shown from the cache is what the reports of the days say *)
(* at that moment.                                                         *)
CannotDrift ==
    [][\A p \in Pages : page[p].pc = "idle" /\ page'[p].pc = "cached" => page'[p].view = Dashboard]_panel

(* Short of a deleted round that was collected again it is so: new rounds, *)
(* new days, runs made again and restarts all change the signature.        *)
OnlyDeletionsDrift ==
    [][\A p \in Pages : page[p].pc = "idle" /\ page'[p].pc = "cached" /\ deleted = 0
         => page'[p].view = Dashboard]_panel

(* When the term is over nothing is shown, from the cache neither.         *)
TermEnds ==
    [][\A p \in Pages : page[p].pc = "idle" /\ page'[p].pc \in {"cached", "making", "made"} => Allowed]_panel
=============================================================================
