---------------------------- MODULE ModelAnalytics ---------------------------
(***************************************************************************)
(* The analytics of the web models: which brands and products the answers  *)
(* name, which owned products a model lists on a day, and what the cited   *)
(* pages say.  The figures are computed again for every snapshot from runs *)
(* that are reviewed later than they are collected and from pages that are *)
(* archived later still, so the same day is shown many times, each time    *)
(* with more evidence.                                                     *)
(***************************************************************************)
EXTENDS Integers, Sequences, FiniteSets, SequencesExt, FiniteSetsExt

CONSTANTS
    Models, Backed,     \* web models; those whose answers always cite sources
    Questions, OwnedFor, \* question -> the owned products it is about
    Curated, OwnedBrands, \* brands of the vocabulary, the owned ones among them
    BrandOf,            \* product -> brand, which the vocabulary may lack
    Paraphrased,        \* products that a reviewer recognises and the prose matcher does not
    Answers,            \* what an answer may name: sets of brands and products
    Urls, Videos,       \* canonical links, the videos among them
    Titles, Placeholders, \* titles of cited pages; those that only repeat the domain
    TitleBrands, BodyBrands, \* title -> brands, link -> brands of the page
    Citations,          \* sequences of cited pages, [url, title]
    DayLimit,           \* days of the owned-product board
    MaxRuns, MaxDay     \* bounds

VARIABLES
    collected,  \* the runs of all models
    page,       \* link -> what the content worker's index says of it
    today

snapshot == <<collected, page, today>>

Products == DOMAIN BrandOf
BrandsOfProducts(S) == {BrandOf[p] : p \in S}
Brands == Curated \cup BrandsOfProducts(Products)
Archived == {"high", "low"}

Init == collected = {} /\ page = [u \in Urls |-> "none"] /\ today = 1

-----------------------------------------------------------------------------
(* Runs are collected and reviewed, pages are archived.                    *)

TitleKey(s) == IF s.title \in Placeholders THEN "" ELSE s.title
KeptByUrl(cites) ==
    FoldLeft(LAMBDA kept, s : IF \E k \in kept : k.url = s.url THEN kept ELSE kept \cup {s}, {}, cites)
\* a link and a title count once a run
Kept(cites) ==
    LET repeats(s, k) == k.url = s.url \/ (TitleKey(s) # "" /\ TitleKey(k) = TitleKey(s))
    IN FoldLeft(LAMBDA kept, s : IF \E k \in kept : repeats(s, k) THEN kept ELSE kept \cup {s},
                {}, cites)

Collect(m, q) ==
    /\ Cardinality(collected) < MaxRuns
    /\ \E says \in Answers, cites \in Citations, capture \in {"whole", "no_sources", "cut"} :
         collected' = collected \cup
            {[id |-> Cardinality(collected), model |-> m, question |-> q, day |-> today,
              says |-> says, sources |-> Kept(cites), capture |-> capture,
              review |-> "ai_pending", products |-> {}]}
    /\ UNCHANGED <<page, today>>

\* the product review: a grounded subset of what the answer names
Review(r) ==
    /\ r.review = "ai_pending"
    /\ \E found \in SUBSET (r.says \cap Products) :
         collected' = (collected \ {r}) \cup {[r EXCEPT !.review = "verified", !.products = found]}
    /\ UNCHANGED <<page, today>>

Archive(u) ==
    /\ page[u] \notin Archived
    /\ \E found \in Archived \cup {"empty", "failed"} : page' = [page EXCEPT ![u] = found]
    /\ UNCHANGED <<collected, today>>

NextDay == today < MaxDay /\ today' = today + 1 /\ UNCHANGED <<collected, page>>

Next ==
    \/ NextDay
    \/ \E m \in Models, q \in Questions : Collect(m, q)
    \/ \E r \in collected : Review(r)
    \/ \E u \in Urls \ Videos : Archive(u)
Spec == Init /\ [][Next]_snapshot

-----------------------------------------------------------------------------
(* Brands and products of a run.                                           *)

\* the catalogue is learned from the reviewed products of every run
Catalogued == UNION {r.products : r \in collected}
Known == Curated \cup BrandsOfProducts(Catalogued)
Mentions(names) == names \cap Known

Ready(r) == r.review # "ai_pending"
InProse(r, p) == p \in r.says \ Paraphrased
\* a reviewed run without products is completed with the catalogued ones it spells out
ProductsOf(r) ==
    IF ~Ready(r) THEN {} ELSE IF r.products # {} THEN r.products
    ELSE {p \in Catalogued : InProse(r, p)}
BrandsOf(r) == Mentions(r.says) \cup BrandsOfProducts(ProductsOf(r))

\* production_complete: partial captures stay out of the figures
Complete(r) == r.capture = "whole" /\ (r.model \in Backed => r.sources # {})
Scope(m, q) == {r \in collected : r.model = m /\ r.question = q /\ Complete(r)}
On(runs, d) == {r \in runs : r.day = d}

EligibleReady(runs) == {r \in runs : Ready(r)}
\* a brand is read off every answer, a product needs the review
BrandEligible(runs) == runs
ProductEligible(runs) == EligibleReady(runs)
BrandMentions(runs, b) == Cardinality({r \in BrandEligible(runs) : b \in BrandsOf(r)})
ProductMentions(runs, p) == Cardinality({r \in ProductEligible(runs) : p \in ProductsOf(r)})
\* mentions per hundred runs, in hundredths, as a fraction
BrandRate(runs, b) == [over |-> BrandMentions(runs, b), under |-> Cardinality(BrandEligible(runs))]

-----------------------------------------------------------------------------
(* The daily board of owned products.                                      *)

BoardRuns(m, q) == {r \in collected : r.model = m /\ r.question = q /\ r.capture # "cut"}
BoardDays ==
    LET days == {r.day : r \in UNION {BoardRuns(m, q) : m \in Models, q \in Questions}}
    IN {d \in days : Cardinality({e \in days : e > d}) < DayLimit}
Listed(r, p) == InProse(r, p) \/ p \in ProductsOf(r)

StateReviewed(m, q, d, p) ==
    LET eligible == {r \in On(BoardRuns(m, q), d) : Ready(r)}
    IN IF \E r \in eligible : Listed(r, p) THEN "listed"
       ELSE IF eligible = {} THEN "not_collected" ELSE "not_listed"
BoardState(m, q, d, p) ==
    LET eligible == On(BoardRuns(m, q), d)
    IN IF \E r \in eligible : Listed(r, p) THEN "listed"
       ELSE IF eligible = {} THEN "not_collected"
       ELSE IF \E r \in eligible : ~Ready(r) THEN "pending" ELSE "not_listed"
\* The live board reads runs that were never prepared, and a run that does not
\* say whether it is ready counts as reviewed.
LiveState(m, q, d, p) ==
    LET eligible == On(BoardRuns(m, q), d)
    IN IF \E r \in eligible : InProse(r, p) \/ p \in r.products THEN "listed"
       ELSE IF eligible = {} THEN "not_collected" ELSE "not_listed"

-----------------------------------------------------------------------------
(* What the cited pages say.                                               *)

TitleHits(s) == Mentions(TitleBrands[s.title])
\* the index names curated brands; its excerpt is searched when it names none,
\* which also happens to the few words of a page that was not archived
BodyHits(s) ==
    LET labels == BodyBrands[s.url] \cap Curated
    IN IF s.url \in Videos \/ page[s.url] \in {"none", "failed"} THEN {}
       ELSE IF page[s.url] \in Archived /\ labels # {} THEN labels
       ELSE Mentions(BodyBrands[s.url])
Hits(s) == TitleHits(s) \cup BodyHits(s)
OwnedHits(s) == Hits(s) \cap OwnedBrands
OwnBrand(s) == OwnedHits(s) # {}
BodyReady(s) == s.url \notin Videos /\ page[s.url] = "high"
Status(s) ==
    IF s.url \in Videos THEN "title_only" ELSE IF BodyReady(s) THEN "complete"
    ELSE IF page[s.url] = "failed" THEN "failed" ELSE "pending"

\* a citation is a run and a source of it
Cited(runs) == UNION {{[run |-> r.id, source |-> s] : s \in r.sources} : r \in runs}

Evaluable(s) == s.url \in Videos \/ BodyReady(s)
OwnedEligible(s) == Evaluable(s) \/ OwnBrand(s)
BrandedEligible(s) == Evaluable(s) \/ TitleHits(s) # {}

SourceAnalysis(runs) ==
    LET cited == Cited(runs)
        count(holds(_)) == Cardinality({c \in cited : holds(c.source)})
    IN [sources |-> Cardinality(cited),
        bodyReady |-> count(Evaluable),
        bodyFailed |-> count(LAMBDA s : Status(s) = "failed"),
        bodyPending |-> count(LAMBDA s : Status(s) = "pending"),
        owned |-> count(OwnBrand), ownedEligible |-> count(OwnedEligible),
        branded |-> count(LAMBDA s : Hits(s) # {}),
        brandedEligible |-> count(BrandedEligible)]

VideoShare(runs) ==
    LET cited == Cited(runs)
        urls(holds(_)) == Cardinality({c.source.url : c \in {x \in cited : holds(x.source)}})
    IN [all |-> urls(LAMBDA s : TRUE), video |-> urls(LAMBDA s : s.url \in Videos),
        owned |-> urls(LAMBDA s : s.url \in Videos /\ OwnBrand(s))]

\* Owned sources are shown once per title, with the runs that cite them.
GroupKey(s) == IF TitleKey(s) = "" THEN <<"url", s.url>> ELSE <<"title", TitleKey(s)>>
OwnedGroups(runs) == {GroupKey(c.source) : c \in {x \in Cited(runs) : OwnBrand(x.source)}}
GroupCount(runs, key) ==
    Cardinality({r \in runs : \E s \in r.sources : OwnBrand(s) /\ GroupKey(s) = key})

-----------------------------------------------------------------------------
(* The links that several web models cite: articles whose archived text    *)
(* names a competitor, counted once a run and listed by the models that    *)
(* cite them; per competitor, and once per link with all its competitors.  *)
(* A filter is a value, or every one.                                      *)
Every == "every"
Passes(r, q, d) == (q = Every \/ r.question = q) /\ (d = 0 \/ r.day = d)
\* partial captures are not left out here
Filtered(m, q, d) == {r \in collected : r.model = m /\ Passes(r, q, d)}
CitesOf(r, u) == {s \in r.sources : s.url = u}

OwnedCount(m, q, d, u) == Cardinality({r \in Filtered(m, q, d) : \E s \in CitesOf(r, u) : OwnBrand(s)})
CitingModels(count) == {m \in Models : count[m] > 0}

-----------------------------------------------------------------------------
(* Competitors: brands of reviewed products that an article's text names.  *)

StructuredBrands(q, d) ==
    UNION {BrandsOfProducts(ProductsOf(r)) : r \in {x \in collected : Passes(x, q, d)}}
Competitors(s, q, d) ==
    IF BodyReady(s) THEN (BodyHits(s) \ OwnedHits(s)) \cap StructuredBrands(q, d) ELSE {}
CompetitorCatalog(q, d) ==
    UNION {Competitors(c.source, q, d) : c \in Cited(UNION {Filtered(m, q, d) : m \in Models})}

CompetitorCount(m, q, d, b, u) ==
    Cardinality({r \in Filtered(m, q, d) : \E s \in CitesOf(r, u) : b \in Competitors(s, q, d)})
CompetitorModels(q, d, b, u) == CitingModels([m \in Models |-> CompetitorCount(m, q, d, b, u)])

MergedUnowned(m, q, d, u) ==
    {r \in Filtered(m, q, d) : \E s \in CitesOf(r, u) : ~OwnBrand(s) /\ Competitors(s, q, d) # {}}
MergedRuns(m, q, d, u) ==
    {r \in Filtered(m, q, d) : \E s \in CitesOf(r, u) : Competitors(s, q, d) # {}}
MergedCount(m, q, d, u) == Cardinality(MergedRuns(m, q, d, u))
MergedBrands(q, d, u) ==
    UNION {Competitors(s, q, d) : s \in {c.source : c \in
              {x \in Cited(UNION {MergedRuns(m, q, d, u) : m \in Models}) : x.source.url = u}}}

-----------------------------------------------------------------------------
Views == {On(Scope(m, q), d) : m \in Models, q \in Questions, d \in 1..MaxDay}

TypeOK ==
    /\ page \in [Urls -> Archived \cup {"none", "empty", "failed"}]
    /\ \A r \in collected :
         r.day \in 1..today /\ r.products \subseteq r.says \cap Products /\ BrandsOf(r) \subseteq Brands

(* The parts of a page of figures fit: every citation is ready, failed or  *)
(* pending; no more owned sources than sources that could be judged; owned *)
(* videos among videos among links; the groups under which the owned       *)
(* sources are listed account for each owned citation exactly once; and no *)
(* product is counted more often than its brand.                           *)
FiguresFit ==
    \A runs \in Views :
        LET a == SourceAnalysis(runs)   v == VideoShare(runs)
        IN /\ a.bodyReady + a.bodyFailed + a.bodyPending = a.sources
           /\ a.owned <= a.ownedEligible /\ a.ownedEligible <= a.sources
           /\ v.owned <= v.video /\ v.video <= v.all
           /\ FoldSet(LAMBDA k, n : GroupCount(runs, k) + n, 0, OwnedGroups(runs)) = a.owned
           /\ \A p \in Products : ProductMentions(runs, p) <= BrandMentions(runs, BrandOf[p])

(* "today's rate changes merely because the product worker is backlogged": *)
(* a review that comes later never lowers the rate of a brand, on any day. *)
ReviewNeverLowers ==
    [][\A m \in Models, q \in Questions, d \in 1..MaxDay, b \in Brands :
          LET was == BrandRate(On(Scope(m, q), d), b)
          IN (\E r \in collected : Review(r)) =>
                was.over * BrandRate(On(Scope(m, q), d), b)'.under
                   <= BrandRate(On(Scope(m, q), d), b)'.over * was.under]_snapshot

(* "Zero recommendations become authoritative only after every eligible    *)
(* run is reviewed": what the board shows as not listed stays so until the *)
(* model is asked again, and what it shows as listed stays listed.         *)
VerdictsStand ==
    [][\A m \in Models, q \in Questions, d \in BoardDays \cap BoardDays' : \A p \in OwnedFor[q] :
          LET was == BoardState(m, q, d, p)
          IN /\ was = "listed" => BoardState(m, q, d, p)' = "listed"
             /\ was = "not_listed" /\ BoardState(m, q, d, p)' # "not_listed" =>
                   Cardinality(On(BoardRuns(m, q), d)') > Cardinality(On(BoardRuns(m, q), d))]_snapshot

(* "The dashboard never turns missing evidence into a negative conclusion": *)
(* nor does the live board that is laid over it.                           *)
NoVerdictPending ==
    \A m \in Models, q \in Questions, d \in BoardDays : \A p \in OwnedFor[q] :
        LiveState(m, q, d, p) = "not_listed" => \A r \in On(BoardRuns(m, q), d) : Ready(r)

(* A share of sources is a share: no more sources name a brand than could  *)
(* be judged.                                                              *)
BrandedWithinEligible ==
    \A runs \in Views : SourceAnalysis(runs).branded <= SourceAnalysis(runs).brandedEligible

Filters == (Questions \cup {Every}) \X (0..MaxDay)

(* The two views of the same articles agree: a link listed for a brand is  *)
(* listed, under that brand among others, with all brands merged, for at   *)
(* least the models and runs that the brand has, and the brand is one the  *)
(* filter offers.                                                          *)
RowsAgree ==
    \A f \in Filters, u \in Urls, b \in Brands :
        LET q == f[1]   d == f[2]
        IN CompetitorModels(q, d, b, u) # {} =>
              /\ b \in MergedBrands(q, d, u) \cap CompetitorCatalog(q, d)
              /\ \A m \in Models : CompetitorCount(m, q, d, b, u) <= MergedCount(m, q, d, u)

(* So do a model's own page and the table of the owned links: a citation   *)
(* that the page of a day shows as owned is in the table of that day.      *)
OwnedAgree ==
    \A m \in Models, q \in Questions, d \in 1..MaxDay :
        SourceAnalysis(On(Scope(m, q), d)).owned
           <= MapThenSumSet(LAMBDA u : OwnedCount(m, q, d, u), Urls)

(* Evidence is only added: no later run, review or archived page takes a   *)
(* competitor's article away from a model that was shown to cite it.       *)
RowsGrow ==
    [][\A f \in Filters, u \in Urls, b \in Brands :
          CompetitorModels(f[1], f[2], b, u) \subseteq CompetitorModels(f[1], f[2], b, u)']_snapshot
=============================================================================
