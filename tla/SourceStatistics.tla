-------------------------- MODULE SourceStatistics --------------------------
(***************************************************************************)
(* Which brands the sources of a question name, day by day, beside which   *)
(* brands its reviewed answers recommend.  A source names a brand in its   *)
(* title, or in the body that the content worker archives some time later; *)
(* one that is not archived yet is unknown, not a miss.                    *)
(***************************************************************************)
EXTENDS ArchiveStatistics

CONSTANTS
    TitleBrands,    \* url -> the brands its title names
    BodyBrands,     \* url -> the brands its body names
    KindOf,         \* url -> "article", "video" or "other"
    OwnBrands       \* the user's own brands

VARIABLE body       \* url -> "none", "ok" or "failed", the status of its body
sources == <<answers, refs, products, day, reviews, body>>

SourceInit == Init /\ body = [u \in Urls |-> "none"]
\* the content worker archives a body or fails; it keeps what it archived
Crawl(u, status) ==
    /\ body[u] # "ok" /\ u \in {r.url : r \in refs}
    /\ body' = [body EXCEPT ![u] = status]
    /\ UNCHANGED archive
SourceNext == (Next /\ UNCHANGED body) \/ \E u \in Urls, s \in {"ok", "failed"} : Crawl(u, s)
SourceSpec == SourceInit /\ [][SourceNext]_sources

-----------------------------------------------------------------------------
(* Answers: of several texts of a run, the one reviewed last counts.       *)

NewestText(n) ==
    CHOOSE a \in answers : a.run = n /\ \A b \in answers : b.run = n => b.hash <= a.hash
Authoritative(n) ==
    LET texts == {a \in answers : a.run = n}
        newer(a, b) == b.at < a.at \/ (b.at = a.at /\ b.hash <= a.hash)
    IN CHOOSE a \in texts : \A b \in texts : newer(a, b)
Observed(question) == RunsIn(RowsOf(answers, question))
Terminal(a) == a.status \in {"ai_verified", "no_products"}
ReviewedRuns(question) == {n \in Observed(question) : Terminal(Authoritative(n))}
BrandsOfRun(question, n) ==
    {BrandOf[r.name] : r \in {s \in ProductRows(question) :
        s.run = n /\ n \in ReviewedRuns(question) /\ s.hash = Authoritative(n).hash}}

ObservedOn(question, d) == {n \in Observed(question) : Authoritative(n).day = d}
ReviewedOn(question, d) == ObservedOn(question, d) \cap ReviewedRuns(question)
MentionedOn(question, d, b) == {n \in ReviewedOn(question, d) : b \in BrandsOfRun(question, n)}
BestRank(question, n, b) == BestPlace(question, b, n)

\* references count for runs whose answer is archived
SourceRows(question) == {r \in RowsOf(refs, question) : r.run \in Observed(question)}
SourcesOn(question, d) == {r \in SourceRows(question) : r.day = d}
SourcedOn(question, d) == ObservedOn(question, d) \cap RunsIn(SourceRows(question))
\* only a reviewed run with a source row is aligned: none is filled in as zero
AlignedOn(question, d) == ReviewedOn(question, d) \cap RunsIn(SourceRows(question))
AlignedMentionsOn(question, d, b) == AlignedOn(question, d) \cap MentionedOn(question, d, b)

-----------------------------------------------------------------------------
(* Sources.                                                                *)

Archived(u) == body[u] = "ok"
TitleHit(r, b) == b \in TitleBrands[r.url]
ContentHit(r, b) == Archived(r.url) /\ b \in BodyBrands[r.url]
BodyElseTitle(r, b) == IF Archived(r.url) THEN ContentHit(r, b) ELSE TitleHit(r, b)
Matches(r, b) == TitleHit(r, b) \/ ContentHit(r, b)
MatchingOn(question, d, b) == {r \in SourcesOn(question, d) : Matches(r, b)}
ContentOnlyOn(question, d, b) ==
    {r \in SourcesOn(question, d) : ContentHit(r, b) /\ ~TitleHit(r, b)}
OfKind(rows, kind) == {r \in rows : KindOf[r.url] = kind}
Example(b, u) ==
    LET hits == {r \in refs : r.url = u /\ Matches(r, b)}
    IN [refs |-> Cardinality(hits), runs |-> Cardinality(RunsIn(hits)),
        days |-> {r.day : r \in hits}]

SourceDay(question, d) ==
    LET rows == SourcesOn(question, d)
    IN [refs |-> Cardinality(rows), urls |-> {r.url : r \in rows},
        sourceRuns |-> Cardinality(RunsIn(rows)),
        available |-> Cardinality({r \in rows : Archived(r.url)}),
        failed |-> Cardinality({r \in rows : body[r.url] = "failed"}),
        pending |-> Cardinality({r \in rows : body[r.url] = "none"})]
\* today is never closed; a day is, once all its answers are reviewed and have sources
DayStatus(question, d) ==
    LET observed == ObservedOn(question, d)   reviewed == ReviewedOn(question, d)
    IN IF d = day THEN "partial"
       ELSE IF reviewed = {} THEN "data_unavailable"
       ELSE IF reviewed # observed \/ ~(observed \subseteq RunsIn(SourcesOn(question, d)))
            THEN "incomplete"
       ELSE "closed"
CorrelationEligible(question, d) == DayStatus(question, d) = "closed" /\ AlignedOn(question, d) # {}

-----------------------------------------------------------------------------
(* The user's own products and videos.                                     *)

OwnedRows(question) == {r \in RowsOf(refs, question) : \E b \in OwnBrands : Matches(r, b)}
\* without a confirmed hit the whole category is the baseline
OwnedRecords(question) ==
    IF OwnedRows(question) = {} THEN RowsOf(refs, question) ELSE OwnedRows(question)
OwnedDay(question, d) ==
    LET rows == {r \in OwnedRecords(question) : r.day = d}
        bodyOnly == {r \in rows : \A b \in OwnBrands : ~TitleHit(r, b)}
    IN [refs |-> Cardinality(rows),
        article |-> Cardinality(OfKind(rows, "article")), video |-> Cardinality(OfKind(rows, "video")),
        other |-> Cardinality(OfKind(rows, "other")),
        bodyOnly |-> Cardinality(bodyOnly), urls |-> Cardinality({r.url : r \in rows})]
VideoShare(question) ==
    LET videos == OfKind(RowsOf(refs, question), "video")
    IN [all |-> {r.url : r \in RowsOf(refs, question)}, video |-> {r.url : r \in videos},
        owned |-> {r.url : r \in videos \cap OwnedRows(question)}]

-----------------------------------------------------------------------------
BodiesOK == \A u \in Urls : body[u] # "none" => u \in {r.url : r \in refs}

(* The rates compare like with like: an aligned run is a reviewed one that *)
(* has sources, and a brand is counted only for runs in the denominator.   *)
(* The parts of a day add up to its sources.                               *)
RatesAligned ==
    \A q \in Questions, d \in 1..MaxDay :
        /\ AlignedOn(q, d) \subseteq ReviewedOn(q, d)
        /\ ReviewedOn(q, d) \subseteq ObservedOn(q, d)
        /\ \A b \in Brands :
             /\ AlignedMentionsOn(q, d, b) \subseteq AlignedOn(q, d)
             /\ \A n \in MentionedOn(q, d, b) :
                  /\ BestRank(q, n, b) >= 1
                  /\ \E r \in products : r.run = n /\ r.hash = Authoritative(n).hash /\ BrandOf[r.name] = b
             /\ ContentOnlyOn(q, d, b) \subseteq MatchingOn(q, d, b)
        /\ LET s == SourceDay(q, d) IN s.available + s.failed + s.pending = s.refs
        /\ LET o == OwnedDay(q, d) IN o.article + o.video + o.other = o.refs /\ o.urls <= o.refs
        /\ VideoShare(q).owned \subseteq VideoShare(q).video

(* While the brands stay the same, what a source was found to name is not  *)
(* lost: archiving its body, another run or a new review only add hits.    *)
HitsNeverLost ==
    [][\A q \in Questions, d \in 1..MaxDay, b \in Brands :
         /\ MatchingOn(q, d, b) \subseteq MatchingOn(q, d, b)'
         /\ VideoShare(q).owned \subseteq VideoShare(q).owned']_sources

(* A run that was reviewed stays in the denominator when it is captured    *)
(* again: the new text takes over with its own review, not before.         *)
ReviewedStays ==
    [][\A q \in Questions : ReviewedRuns(q) \subseteq ReviewedRuns(q)']_sources
=============================================================================
