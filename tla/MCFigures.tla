------------------------------ MODULE MCFigures ------------------------------
(* The figures the dashboards show, on small instances for TLC: the score   *)
(* of a report, the dashboard of a paid monitor, the statistics of the      *)
(* capture archive and its sources, and the analytics of the web models     *)
(* with the sources they share. The parts share no state, so one graph has  *)
(* an instance of each side by side; part says which of them a behaviour    *)
(* belongs to.                                                              *)
EXTENDS ReportScore, TLC

VARIABLES
    part,           \* which instance this behaviour is of; never changes
    \* PaidDashboard
    date, runs, summary, building, open, deleted, rerun,
    \* ArchiveStatistics, and body of SourceStatistics
    given, refs, products, day, reviews, body,
    \* ModelAnalytics
    collected, page, today

\* An answer of each kind the report tells apart.
Shape(where, titled, listed, rank, says, saysRank, kept, links, expected, rival) ==
    [where |-> where, titled |-> titled, listed |-> listed, rank |-> rank,
     analysis |-> says, analysedRank |-> saysRank, body |-> kept,
     links |-> links, expected |-> expected, rival |-> rival]
ScoredShapes == {
    Shape("prose", FALSE, "recommended", 1, "yes", 1, "whole", {"l1"}, 1, "none"),
    Shape("prose", FALSE, "recommended", 0, "none", 0, "tail", {"l1", "l2"}, 3, "praised"),
    Shape("prose", FALSE, "listed", 0, "yes", 4, "whole", {}, 0, "named"),
    Shape("prose", TRUE, "recommended", 2, "yes", 0, "whole", {"l2"}, 1, "praised"),
    Shape("card", FALSE, "listed", 2, "yes", 2, "cut", {"l2"}, 2, "none")}
ScoredPolicies == [high : {FALSE}, version : {4, 6}] \cup [high : {TRUE}, version : {6}]
ScoredRounds == "deepseek" :> 3 @@ "doubao" :> 1

\* Products of the archive, and what its sources name.
Listings == {<<>>, <<"p1", "p2">>}
ShortListings == {<<>>, <<"p1">>}
OneMaker == "p1" :> "b1" @@ "p2" :> "b1"
TwoMakers == "p1" :> "b1" @@ "p2" :> "b2"
Sources == {"u1", "u2"}
SourceTitles == "u1" :> {"b1"} @@ "u2" :> {}
SourceBodies == [u \in Sources |-> {"b2"}]
SourceKinds == "u1" :> "video" @@ "u2" :> "article"

\* Answers of the web models: the vocabulary has brand "a" and lacks "c", and
\* only a reviewer recognises the product "as".
Asked == {"q"}
OwnedFor == [q \in Asked |-> {"ap", "as"}]
Curated == {"a"}
MakerOf == "ap" :> "a" @@ "as" :> "a" @@ "cp" :> "c"
Paraphrased == {"as"}
WebLinks == {"u", "v"}
Videos == {"v"}
Titles == {"t0", "t1"}
Placeholders == {"t0"}
TitleNames == "t0" :> {} @@ "t1" :> {"a"}
PageNames == [u \in WebLinks |-> {"c"}]
WebAnswers == {{"a", "ap"}, {"c", "cp"}}
OwnAnswers == {{"a", "ap"}, {"a", "as"}}
Cited(u, t) == [url |-> u, title |-> t]
WebCitations ==
    {<<>>, <<Cited("u", "t1"), Cited("v", "t1"), Cited("u", "t0")>>}

Panel == INSTANCE PaidDashboard WITH
    Servers <- {"s1"}, Pages <- {"p1"}, MaxDay <- 2, Expires <- 1,
    Rounds <- 1, MaxRepairs <- 1, page <- open
Archive == INSTANCE ArchiveStatistics WITH
    Questions <- {"q1", "q2"}, Devices <- {"d1"}, NoDevice <- "none",
    Urls <- {"u1"}, Listings <- Listings, BrandOf <- OneMaker,
    MaxRuns <- 2, MaxDay <- 2, MaxReviews <- 2, answers <- given
Source == INSTANCE SourceStatistics WITH
    Questions <- {"q1"}, Devices <- {}, NoDevice <- "none",
    Urls <- Sources, Listings <- ShortListings, BrandOf <- TwoMakers,
    MaxRuns <- 2, MaxDay <- 1, MaxReviews <- 2,
    TitleBrands <- SourceTitles, BodyBrands <- SourceBodies,
    KindOf <- SourceKinds, OwnBrands <- {"b2"}, answers <- given
Model == INSTANCE ModelAnalytics WITH
    Questions <- Asked, OwnedFor <- OwnedFor, Curated <- Curated,
    OwnedBrands <- Curated, BrandOf <- MakerOf,
    Paraphrased <- Paraphrased, Videos <- Videos, Titles <- Titles,
    Placeholders <- Placeholders, TitleBrands <- TitleNames,
    BodyBrands <- PageNames, Models <- {"doubao", "wenxin"},
    Backed <- {"wenxin"}, Urls <- WebLinks, Answers <- WebAnswers,
    Citations <- WebCitations, DayLimit <- 1, MaxRuns <- 2, MaxDay <- 1
Days == INSTANCE ModelAnalytics WITH
    Questions <- Asked, OwnedFor <- OwnedFor, Curated <- Curated,
    OwnedBrands <- Curated, BrandOf <- MakerOf,
    Paraphrased <- Paraphrased, Videos <- Videos, Titles <- Titles,
    Placeholders <- Placeholders, TitleBrands <- TitleNames,
    BodyBrands <- PageNames, Models <- {"doubao"}, Backed <- {},
    Urls <- {"u"}, Answers <- OwnAnswers, Citations <- {<<>>},
    DayLimit <- 1, MaxRuns <- 2, MaxDay <- 2

\* The variables of each component.
scoreVars == <<answers, scoring>>
panelVars == <<date, runs, summary, building, open, deleted, rerun>>
archiveVars == <<given, refs, products, day, reviews, body>>
modelVars == <<collected, page, today>>
suiteVars == <<part, scoreVars, panelVars, archiveVars, modelVars>>

SuiteInit ==
    /\ part \in {"score", "panel", "archive", "sources", "model", "days"}
    /\ Init
    /\ Panel!Init
    /\ CASE part = "sources" -> Source!SourceInit
         [] OTHER -> Archive!Init /\ body = [u \in Sources |-> "none"]
    /\ CASE part = "days" -> Days!Init [] OTHER -> Model!Init
    /\ part # "score" => scoring = [high |-> FALSE, version |-> 6]

OnlyScore == UNCHANGED <<part, panelVars, archiveVars, modelVars>>
OnlyPanel == UNCHANGED <<part, scoreVars, archiveVars, modelVars>>
OnlyArchive == UNCHANGED <<part, scoreVars, panelVars, modelVars>>
OnlyModel == UNCHANGED <<part, scoreVars, panelVars, archiveVars>>

ScoreStep == part = "score" /\ Next /\ OnlyScore
PanelStep == part = "panel" /\ Panel!Next /\ OnlyPanel
ArchiveStep == part = "archive" /\ Archive!Next /\ UNCHANGED body /\ OnlyArchive
SourceStep == part = "sources" /\ Source!SourceNext /\ OnlyArchive
ModelStep == part = "model" /\ Model!Next /\ OnlyModel
DaysStep == part = "days" /\ Days!Next /\ OnlyModel

SuiteNext ==
    \/ ScoreStep \/ PanelStep \/ ArchiveStep \/ SourceStep \/ ModelStep
    \/ DaysStep

SuiteSpec == SuiteInit /\ [][SuiteNext]_suiteVars

\* The state of each component has its type.
TypesOK ==
    /\ part = "score" => TypeOK
    /\ part = "panel" => Panel!TypeOK
    /\ part = "archive" => Archive!TypeOK
    /\ part = "sources" => Source!TypeOK /\ Source!BodiesOK
    /\ part = "model" => Model!TypeOK
    /\ part = "days" => Days!TypeOK

\* The score of a report stands on the prose of the answers, calibration only
\* lowers it, and the shares of the first places fit into one another, for the
\* models that are asked, the one that mirrors another, and the total.
ScoresFit ==
    part = "score" => SharesNested /\ OnlyDiscounts /\ OnlyProseCounts

\* The parts of the archive's and the analytics' figures fit: days, questions and
\* devices add up, no brand is counted more often than runs were asked, rates
\* share their denominator, and each row of a table agrees with its page.
FiguresFit ==
    /\ part = "archive" => Archive!BrandsBounded /\ Archive!TotalsAddUp
    /\ part = "sources" => Source!RatesAligned
    /\ part = "model" => Model!FiguresFit /\ Model!RowsAgree /\ Model!OwnedAgree
    /\ part = "days" => Days!FiguresFit /\ Days!RowsAgree /\ Days!OwnedAgree

\* More evidence takes nothing back: a later review, text or page lowers no rate
\* and loses no source, a run that was reviewed stays counted, a verdict on a
\* product stands until the model is asked again; and what a paid dashboard shows
\* from its cache is what the reports say, until the term is over.
EvidenceStands ==
    /\ Source!HitsNeverLost /\ Source!ReviewedStays
    /\ Model!ReviewNeverLowers /\ Model!VerdictsStand /\ Model!RowsGrow
    /\ Panel!OnlyDeletionsDrift /\ Panel!TermEnds

\* "The dashboard never turns missing evidence into a negative conclusion": nor
\* does the live board of owned products that is laid over it.
NoVerdictPending == part = "days" => Days!NoVerdictPending
==============================================================================
