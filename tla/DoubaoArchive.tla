---------------------------- MODULE DoubaoArchive ---------------------------
(***************************************************************************)
(* The local archive of captured answers: a table of sources, of answers   *)
(* and of products, keyed by run number.  A saver process reserves a run   *)
(* (or finds the one of an earlier submission of the capture), archives    *)
(* the answer as pending, has it reviewed by a model outside the lock, and *)
(* stores the verdict and the products in two more critical sections.  A   *)
(* background process reviews archived answers again; a repair gives new   *)
(* numbers to captures that once shared one.  A critical section is one    *)
(* step here (WriteLock models the lock itself).                           *)
(***************************************************************************)
EXTENDS Integers, FiniteSets, FiniteSetsExt

CONSTANTS
    Savers,         \* processes that save a capture
    Captures,       \* captures: a chat and the time its answer was extracted
    Recommends,     \* the captures whose answer names products
    MaxRefs,        \* bound on the sources of a submission
    MaxRuns,        \* bound on the run numbers
    MaxCuts,        \* bound: crashes, busy files, lock timeouts
    Legacy          \* whether the archive starts with two captures under one run

ArchiveAssumption ==
    /\ IsFiniteSet(Captures) /\ Recommends \subseteq Captures /\ Legacy \in BOOLEAN
    /\ {MaxRefs, MaxRuns, MaxCuts} \subseteq Nat
    /\ Legacy => MaxRuns >= 1      \* the run that is shared

VARIABLES
    refs,           \* doubao_refs.csv: [run, cap, n]
    answers,        \* doubao_answers.csv: [run, cap, status]
    products,       \* doubao_products.csv: [run, cap]
    counted,        \* doubao_run_counter.txt
    reviewed,       \* doubao_product_ai_cache.json: the captures with a cached result
    saver,          \* the savers
    job,            \* the background review: the answers it selected, and its verdicts
    torn,           \* runs whose products were not written after their verdict (history)
    cuts

archive == <<refs, answers, products, counted, reviewed, saver, job, torn, cuts>>

HighestRow == Max({0} \cup {x.run : x \in refs \cup answers \cup products})
HighestCounted == counted
\* the highest number in the three tables and the counter file
Highest == Max({counted} \cup {x.run : x \in refs \cup answers \cup products})
Idle == [pc |-> "idle"]
Ids(rows) == {[run |-> x.run, cap |-> x.cap] : x \in rows}
Truth(c) == IF c \in Recommends THEN "some" ELSE "none"
VerifiedAnyway(verdict) == "ai_verified"
StatusOf(verdict) == IF verdict = "pending" THEN "ai_pending" ELSE "ai_verified"

Old(c, status) == [run |-> 1, cap |-> c, status |-> status]
Init ==
    /\ saver = [s \in Savers |-> Idle]
    /\ job = [verdicts |-> <<>>]
    /\ reviewed = {} /\ torn = {} /\ cuts = 0
    /\ IF Legacy
       THEN \E kept \in Captures :
               /\ refs = {[run |-> 1, cap |-> c, n |-> 1] : c \in Captures}
               /\ answers = {Old(c, "ai_verified") : c \in Captures}
               /\ products = {[run |-> 1, cap |-> kept]} \cap Ids(refs)
               /\ counted = 1
       ELSE refs = {} /\ answers = {} /\ products = {} /\ counted = 0

-----------------------------------------------------------------------------
(* One submission: append_csv, append_products_csv.                        *)

RunsOfAnswers(c) == {x.run : x \in {y \in answers : y.cap = c}}
\* find_existing_source_run: the sources first, then the answers
RunsOf(c) ==
    LET sourced == {x.run : x \in {y \in refs : y.cap = c}}
    IN IF sourced # {} THEN sourced ELSE {x.run : x \in {y \in answers : y.cap = c}}

Sources(r) == {x \in refs : x.run = r}
Repaired(r, c, n) ==
    IF MapThenSumSet(LAMBDA x : x.n, Sources(r)) < n
    THEN (refs \ Sources(r)) \cup {[run |-> r, cap |-> c, n |-> n]} ELSE refs

AppendSources(s, c, n) ==
    LET at(r) == [saver EXCEPT ![s] = [pc |-> "answer", cap |-> c, run |-> r, verdict |-> "pending"]]
    IN /\ saver[s] = Idle
       /\ \/ \E r \in RunsOf(c) :
                /\ refs' = Repaired(r, c, n)
                /\ saver' = at(r) /\ UNCHANGED counted
          \/ /\ RunsOf(c) = {} /\ Highest < MaxRuns
             /\ counted' = Highest + 1
             /\ refs' = IF n = 0 THEN refs ELSE refs \cup {[run |-> Highest + 1, cap |-> c, n |-> n]}
             /\ saver' = at(Highest + 1)
       /\ UNCHANGED <<answers, products, reviewed, job, torn, cuts>>

Move(s, label) == saver' = [saver EXCEPT ![s].pc = label]
Ends(s) == saver' = [saver EXCEPT ![s] = Idle]
Key(s) == [run |-> saver[s].run, cap |-> saver[s].cap]

\* append_answer_csv: one row for a run and a body
AppendAnswer(s) ==
    /\ saver[s].pc = "answer"
    /\ answers' = IF Key(s) \in Ids(answers) THEN answers
                  ELSE answers \cup {[run |-> saver[s].run, cap |-> saver[s].cap,
                                      status |-> "ai_pending"]}
    /\ Move(s, "review")
    /\ UNCHANGED <<refs, products, counted, reviewed, job, torn, cuts>>

\* review_products_with_ai: the cache, else the model, which may fail
Review(s) ==
    LET c == saver[s].cap IN
    /\ saver[s].pc = "review"
    /\ \/ /\ saver' = [saver EXCEPT ![s].pc = "status", ![s].verdict = Truth(c)]
          /\ reviewed' = reviewed \cup {c}
       \/ /\ c \notin reviewed
          /\ Move(s, "status") /\ UNCHANGED reviewed
    /\ UNCHANGED <<refs, answers, products, counted, job, torn, cuts>>

Mark(keys, status) ==
    {IF [run |-> x.run, cap |-> x.cap] \in keys THEN [x EXCEPT !.status = status] ELSE x : x \in answers}

\* update_answer_review; a busy file or lock defers it
UpdateReview(s) ==
    /\ saver[s].pc = "status"
    /\ \/ answers' = Mark({Key(s)}, StatusOf(saver[s].verdict)) /\ UNCHANGED cuts
       \/ cuts < MaxCuts /\ cuts' = cuts + 1 /\ UNCHANGED answers
    /\ IF saver[s].verdict = "some" THEN Move(s, "products") ELSE Ends(s)
    /\ UNCHANGED <<refs, products, counted, reviewed, job, torn>>

\* the snapshot of the run is replaced; a busy file leaves it, with no error
OtherRuns(runs) == {x \in products : x.run \notin runs}
ReplaceProducts(s) ==
    /\ saver[s].pc = "products"
    /\ \/ /\ products' = OtherRuns({saver[s].run}) \cup {Key(s)}
          /\ torn' = torn \ {saver[s].run} /\ UNCHANGED cuts
       \/ /\ cuts < MaxCuts /\ cuts' = cuts + 1
          /\ torn' = torn \cup {saver[s].run} /\ UNCHANGED products
    /\ Ends(s)
    /\ UNCHANGED <<refs, answers, counted, reviewed, job>>

\* A process ends, or raises, between two sections; the capture may be sent again.
Crash(s) ==
    /\ saver[s] # Idle /\ cuts < MaxCuts
    /\ cuts' = cuts + 1
    /\ torn' = IF saver[s].pc = "products" THEN torn \cup {saver[s].run} ELSE torn
    /\ Ends(s)
    /\ UNCHANGED <<refs, answers, products, counted, reviewed, job>>

-----------------------------------------------------------------------------
(* The background review.                                                  *)

\* The answers are read without the lock, and reviewed.
Select ==
    /\ job.verdicts = <<>>
    /\ \E chosen \in {Ids(answers), Ids({x \in answers : x.status = "ai_pending"})},
          fails \in SUBSET (Captures \ reviewed) :
          /\ chosen # {}
          /\ job' = [verdicts |-> [k \in chosen |->
                        IF k.cap \in fails THEN "pending" ELSE Truth(k.cap)]]
          /\ reviewed' = reviewed \cup {k.cap : k \in {x \in chosen : x.cap \notin fails}}
    /\ UNCHANGED <<refs, answers, products, counted, saver, torn, cuts>>

\* Both tables are read again and written under the lock, the products first.
CommitReview ==
    LET v == job.verdicts
        runs == {k.run : k \in DOMAIN v}
        some == {k \in DOMAIN v : v[k] = "some"}
        failed == {k \in DOMAIN v : v[k] = "pending"}
    IN /\ v # <<>>
       /\ products' = OtherRuns(runs) \cup some
       /\ \/ /\ answers' = {LET k == [run |-> x.run, cap |-> x.cap]
                            IN IF k \in DOMAIN v THEN [x EXCEPT !.status = StatusOf(v[k])] ELSE x
                               : x \in answers}
             /\ torn' = torn \ runs /\ UNCHANGED cuts
          \/ /\ cuts < MaxCuts /\ cuts' = cuts + 1     \* the answers file is busy
             /\ torn' = torn \cup {k.run : k \in failed} /\ UNCHANGED answers
       /\ job' = [verdicts |-> <<>>]
       /\ UNCHANGED <<refs, counted, reviewed, saver>>

-----------------------------------------------------------------------------
(* The repair of shared run numbers, run while nothing is captured.        *)

Shared == {r \in 1..MaxRuns : Cardinality({x \in answers : x.run = r}) > 1}
Numbered(k, map) == IF k \in DOMAIN map THEN map[k] ELSE k.run
Renumber(rows, map) == {[x EXCEPT !.run = Numbered([run |-> x.run, cap |-> x.cap], map)] : x \in rows}

\* the capture whose products survived keeps the number, else the oldest
Keeps(r, c) ==
    LET withProducts == {x.cap : x \in {p \in products : p.run = r}}
                          \cap {x.cap : x \in {a \in answers : a.run = r}}
    IN withProducts = {} \/ c \in withProducts

Fresh(map, n) == /\ \A k, m \in DOMAIN map : map[k] = map[m] => k = m
                 /\ \A k \in DOMAIN map : map[k] \in (Highest + 1)..n

Repair ==
    \E kept \in [Shared -> Captures] :
        LET moved == {k \in Ids(answers) : k.run \in Shared /\ k.cap # kept[k.run]}
            last == Highest + Cardinality(moved)
        IN /\ Shared # {} /\ last <= MaxRuns
           /\ \A s \in Savers : saver[s] = Idle
           /\ job.verdicts = <<>>
           /\ \A r \in Shared : Keeps(r, kept[r]) /\ [run |-> r, cap |-> kept[r]] \in Ids(answers)
           /\ \E map \in [moved -> (Highest + 1)..last] :
                 /\ Fresh(map, last)
                 /\ refs' = Renumber(refs, map)
                 /\ \/ /\ products' = Renumber(products, map)
                       /\ answers' = {IF [run |-> x.run, cap |-> x.cap] \in products' THEN x
                                      ELSE [x EXCEPT !.status = "ai_pending"]
                                      : x \in Renumber(answers, map)}
                       /\ counted' = last /\ torn' = {} /\ UNCHANGED cuts
                    \/ /\ cuts < MaxCuts /\ cuts' = cuts + 1   \* the answers stay busy for a minute
                       /\ UNCHANGED <<answers, products, counted, torn>>
           /\ UNCHANGED <<reviewed, saver, job>>

Next ==
    \/ \E s \in Savers, c \in Captures, n \in 0..MaxRefs : AppendSources(s, c, n)
    \/ \E s \in Savers :
          \/ AppendAnswer(s) \/ Review(s) \/ UpdateReview(s) \/ ReplaceProducts(s)
          \/ Crash(s)
    \/ Select \/ CommitReview \/ Repair

Spec == Init /\ [][Next]_archive

-----------------------------------------------------------------------------
(* What the dashboard shows of a run with sources: product_review_coverage. *)

Shown(r) ==
    CASE \E x \in products : x.run = r -> "with_products"
      [] \A x \in answers : x.run # r  -> "not_archived"
      [] \E x \in answers : x.run = r /\ x.status = "ai_pending" -> "ai_pending"
      [] OTHER -> "verified_no_products"

(* Properties.                                                             *)

TypeOK ==
    /\ \A x \in refs : x.run \in 1..MaxRuns /\ x.cap \in Captures /\ x.n \in 1..MaxRefs
    /\ \A x \in answers : x.run \in 1..MaxRuns /\ x.status \in {"ai_pending", "ai_verified"}
    /\ Ids(products) \subseteq [run : 1..MaxRuns, cap : Captures]
    /\ counted \in 0..MaxRuns /\ reviewed \subseteq Captures

\* The sources of a capture are counted under one run, however often it was
\* submitted, alone or at the same time, with all of its sources or with none.
OneSourcedRun ==
    \A x, y \in refs : x.cap = y.cap => x = y

\* No two captures share a run, in the sources or the answers, whatever was
\* interrupted, and none comes to share one in an archive where none did.
RunsNotShared ==
    ~Legacy => Shared = {} /\ \A x, y \in refs : x.run = y.run => x = y
\* Once the repair has written its files, every answer has a run of its own.
RepairSeparates ==
    [][Repair /\ UNCHANGED cuts =>
          /\ Shared' = {}
          /\ {x.cap : x \in answers} = {x.cap : x \in answers'}]_archive

Writing(r) == \E s \in Savers : saver[s].pc = "products" /\ saver[s].run = r

\* A run whose answer names products is not shown as one verified to have none,
\* unless the products were not written after the verdict.
VerifiedIsShown ==
    ~Legacy =>
    \A x \in refs : x.cap \in Recommends /\ x.run \notin torn /\ ~Writing(x.run)
                       => Shown(x.run) # "verified_no_products"

\* "If a model timeout or process interruption happens below, the background
\* retry worker still has the exact answer body to review": an answer whose
\* products are missing is pending, whenever the process was interrupted.
PendingUntilStored ==
    \A x \in refs : x.cap \in Recommends /\ ~Writing(x.run)
                       => Shown(x.run) # "verified_no_products"
=============================================================================
