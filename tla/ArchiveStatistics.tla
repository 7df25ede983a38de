-------------------------- MODULE ArchiveStatistics -------------------------
(***************************************************************************)
(* The figures of the archive page: runs, references, products and brands, *)
(* per question, day, device and account, computed from three tables that  *)
(* writers fill at different times: the answers, their references, and the *)
(* products that a review reads out of an answer.  A run may lack any of   *)
(* the three, be captured again with another text, or be reviewed twice.   *)
(***************************************************************************)
EXTENDS Integers, Sequences, FiniteSets, SequencesExt, FiniteSetsExt

CONSTANTS
    Questions,      \* product questions
    Devices,        \* capture devices; NoDevice stands for rows before they were recorded
    NoDevice,
    Urls,
    Listings,       \* sequences of product names a review may return
    BrandOf,        \* product -> its brand
    MaxRuns,        \* bound on runs
    MaxDay,         \* bound on days
    MaxReviews      \* bound on reviews

VARIABLES
    answers,        \* doubao_answers: a row for every text of a run
    refs,           \* doubao_refs: a row for every reference of a run
    products,       \* doubao_products: a row for every product of a review
    day, reviews

archive == <<answers, refs, products, day, reviews>>

Brands == Range(BrandOf)
Runs == {a.run : a \in answers} \cup {r.run : r \in refs}
RowsOf(rows, question) == {r \in rows : r.question = question}
OnDevice(rows, device) == {r \in rows : r.device = device}
RunsIn(rows) == {r.run : r \in rows}

Init == answers = {} /\ refs = {} /\ products = {} /\ day = 1 /\ reviews = 0

-----------------------------------------------------------------------------
(* The writers.                                                            *)

NextRun == Cardinality(Runs) + 1
Answer(run, question, device, on, hash) ==
    [run |-> run, question |-> question, device |-> device, day |-> on,
     hash |-> hash, at |-> 0, status |-> "ai_pending"]

\* a run is captured: its answer, its references, or both reach the archive
Capture(question, device) ==
    /\ NextRun <= MaxRuns
    /\ \E answered \in BOOLEAN, cited \in SUBSET Urls :
         /\ answered \/ cited # {}
         /\ answers' = IF answered THEN answers \cup {Answer(NextRun, question, device, day, 1)} ELSE answers
         /\ refs' = refs \cup {[run |-> NextRun, question |-> question, device |-> device,
                                day |-> day, url |-> u] : u \in cited}
    /\ UNCHANGED <<products, day, reviews>>

\* the run is captured again, with another text
Recapture(a) ==
    /\ a.hash = 1
    /\ ~\E b \in answers : b.run = a.run /\ b.hash = 2
    /\ answers' = answers \cup {Answer(a.run, a.question, a.device, a.day, 2)}
    /\ UNCHANGED <<refs, products, day, reviews>>

\* the same capture is stored again with more references than before
Recover(a, u) ==
    /\ \A r \in refs : r.run = a.run => r.url # u
    /\ refs' = refs \cup {[run |-> a.run, question |-> a.question, device |-> a.device,
                           day |-> a.day, url |-> u]}
    /\ UNCHANGED <<answers, products, day, reviews>>

\* the reviewer, and the retry worker some seconds after it
Review(a) ==
    /\ reviews < MaxReviews /\ reviews' = reviews + 1
    /\ \E list \in Listings :
         /\ products' = products \cup
              {[run |-> a.run, question |-> a.question, device |-> a.device, day |-> a.day,
                hash |-> a.hash, name |-> list[k], index |-> k, at |-> reviews'] : k \in DOMAIN list}
         /\ answers' = (answers \ {a}) \cup
              {[a EXCEPT !.at = reviews',
                         !.status = IF list = <<>> THEN "no_products" ELSE "ai_verified"]}
    /\ UNCHANGED <<refs, day>>

NextDay == day < MaxDay /\ day' = day + 1 /\ UNCHANGED <<answers, refs, products, reviews>>

Next ==
    \/ NextDay
    \/ \E q \in Questions, d \in Devices \cup {NoDevice} : Capture(q, d)
    \/ \E a \in answers : Recapture(a) \/ Review(a) \/ \E u \in Urls : Recover(a, u)
Spec == Init /\ [][Next]_archive

-----------------------------------------------------------------------------
(* Questions, days, devices.                                               *)

QuestionSummary(question) ==
    LET cited == RowsOf(refs, question)   answered == RowsOf(answers, question)
    IN [refs |-> Cardinality(cited), links |-> Cardinality({r.url : r \in cited}),
        runs |-> Cardinality(RunsIn(cited \cup answered)), sourceRuns |-> Cardinality(RunsIn(cited)),
        latest |-> Max({0} \cup RunsIn(cited \cup answered))]

DailyRuns(question, d) ==
    RunsIn({r \in RowsOf(refs, question) \cup RowsOf(answers, question) : r.day = d})
DailyRefs(question, d) == {r \in RowsOf(refs, question) : r.day = d}

CitedRuns == RunsIn(refs)
TotalRuns == Runs
RunDates == [n \in Runs |-> (CHOOSE r \in answers \cup refs : r.run = n).day]
TodayRuns == {n \in Runs : \A m \in Runs : RunDates[m] <= RunDates[n]}

DeviceOptions == {r.device : r \in answers \cup refs} \ {NoDevice}
ScopeRuns(device) == RunsIn(OnDevice(answers \cup refs, device))
DeviceOverview ==
    [devices |-> Cardinality(DeviceOptions),
     identifiedRuns |-> FoldSet(LAMBDA d, n : Cardinality(ScopeRuns(d)) + n, 0, DeviceOptions),
     identifiedRefs |-> FoldSet(LAMBDA d, n : Cardinality(OnDevice(refs, d)) + n, 0, DeviceOptions),
     unassignedRuns |-> Cardinality(ScopeRuns(NoDevice)),
     unassignedRefs |-> Cardinality(OnDevice(refs, NoDevice))]
\* without an account id the device stands for the account
AccountRuns(account) == ScopeRuns(account)

-----------------------------------------------------------------------------
(* Products.  A snapshot is what one review of one text returned.          *)

EveryRow(rows) == rows
\* the last snapshot of every text; one row for a name and a place in it
Deduped(rows) ==
    LET latest(r) == \A s \in rows : s.run = r.run /\ s.hash = r.hash => s.at <= r.at
    IN {r \in rows : latest(r)}

ProductRows(question) == RowsOf(Deduped(products), question)
ProductRuns(question) == RunsIn(ProductRows(question))
ByProduct(question, p) == Cardinality({r \in ProductRows(question) : r.name = p})
RowsNamingBrand(question, b) == Cardinality({r \in ProductRows(question) : BrandOf[r.name] = b})
\* a brand counts once a run
ByBrand(question, b) == Cardinality(RunsIn({r \in ProductRows(question) : BrandOf[r.name] = b}))
BestPlace(question, b, n) ==
    Min({r.index : r \in {s \in ProductRows(question) : s.run = n /\ BrandOf[s.name] = b}})
\* all runs, an answer pending review among them
QuestionRuns(question) ==
    LET sources == RunsIn(RowsOf(refs, question))
    IN IF sources = {} THEN ProductRuns(question) ELSE sources

DailyMentions(question, d) == Cardinality({r \in ProductRows(question) : r.day = d})
DailyBrand(question, d, b) ==
    Cardinality(RunsIn({r \in ProductRows(question) : r.day = d /\ BrandOf[r.name] = b}))
ReviewedDenominator(question, d) == RunsIn({r \in ProductRows(question) : r.day = d})
SourcesDenominator(question, d) == RunsIn({r \in RowsOf(refs, question) : r.day = d})
\* the answers of the day are the denominator, where there are any
DailyDenominator(question, d) ==
    LET answered == RunsIn({a \in RowsOf(answers, question) : a.day = d})
    IN IF answered = {} THEN ReviewedDenominator(question, d) ELSE answered
\* equal counts share a rank
DailyRank(question, d, b) ==
    1 + Cardinality({c \in Brands : DailyBrand(question, d, c) > DailyBrand(question, d, b)})

-----------------------------------------------------------------------------
(* Why a run with references has no products.                              *)

Explained(n) ==
    LET answered == {a \in answers : a.run = n}
        last == CHOOSE a \in answered : \A b \in answered : b.hash <= a.hash
        first == Min(RunsIn(answers))
    IN IF n \in RunsIn(products) THEN "with_products"
       ELSE IF answered = {}
            THEN IF answers # {} /\ n < first THEN "legacy_not_archived" ELSE "answer_not_archived"
       ELSE IF last.status = "ai_pending" THEN "ai_pending" ELSE "verified_no_products"
Kinds == {"with_products", "legacy_not_archived", "answer_not_archived", "ai_pending",
          "verified_no_products"}
Coverage(kind) == {n \in RunsIn(refs) : Explained(n) = kind}

-----------------------------------------------------------------------------
TypeOK ==
    /\ RunsIn(products) \subseteq RunsIn(answers)
    /\ \A a \in answers : a.run <= MaxRuns /\ a.day <= day /\ a.at <= reviews

(* No brand has more mentions on a day than runs were asked that day, and  *)
(* none more in all than there are runs with products, however often a run *)
(* was captured, reviewed or reviewed again.                               *)
BrandsBounded ==
    \A q \in Questions, b \in Brands :
        /\ ByBrand(q, b) <= Cardinality(ProductRuns(q))
        /\ \A d \in 1..MaxDay : DailyBrand(q, d, b) <= Cardinality(DailyDenominator(q, d))

(* The same of products, as dedupe_product_rows_for_stats promises.        *)
ProductsBounded ==
    \A q \in Questions, p \in DOMAIN BrandOf : ByProduct(q, p) <= Cardinality(ProductRuns(q))

(* The days of a question add up to its runs and references, the questions *)
(* to the whole archive, and so do the devices with what is unassigned and *)
(* the explanations of the runs that have references.                      *)
TotalsAddUp ==
    LET total(f(_), S) == FoldSet(LAMBDA x, n : f(x) + n, 0, S)
    IN /\ \A q \in Questions :
            LET runs(d) == Cardinality(DailyRuns(q, d))   cited(d) == Cardinality(DailyRefs(q, d))
            IN /\ total(runs, 1..MaxDay) = QuestionSummary(q).runs
               /\ total(cited, 1..MaxDay) = QuestionSummary(q).refs
       /\ LET runs(q) == QuestionSummary(q).runs
          IN total(runs, Questions) = Cardinality(TotalRuns)
       /\ DeviceOverview.identifiedRuns + DeviceOverview.unassignedRuns = Cardinality(TotalRuns)
       /\ LET explained(k) == Cardinality(Coverage(k))
          IN total(explained, Kinds) = Cardinality(RunsIn(refs))
       /\ DeviceOverview.identifiedRefs + DeviceOverview.unassignedRefs = Cardinality(refs)

=============================================================================
