----------------------------- MODULE ReportScore ----------------------------
(***************************************************************************)
(* What a diagnosis report says of the answers collected so far: which     *)
(* answers recommend the brand and at what rank, the calibrated rate of    *)
(* every model, the shares of the first places, the citations, and the     *)
(* competitors.  Kimi's row is a mirror of DeepSeek's answers.  Rates are  *)
(* whole tenths of a percent; the square root and the exponential of the   *)
(* code are computed in integers, exact up to the last rounding.           *)
(***************************************************************************)
EXTENDS Integers, Sequences, FiniteSets, SequencesExt

CONSTANTS
    Shapes,         \* the answers a worker may deliver
    RoundsOf,       \* model that is collected -> rounds it is asked
    Links,          \* sources
    Policies        \* the policies of tasks: [high : BOOLEAN, version : 4..6]

VARIABLES
    answers,        \* the accepted results of every collected model
    scoring         \* the policy copied into the task when it was created

scored == <<answers, scoring>>

Collected == DOMAIN RoundsOf
Mirror == "kimi"
Reported == Collected \cup {Mirror}
Records(m) == answers[IF m = Mirror THEN "deepseek" ELSE m]

Rounded(x, d) == (2 * x + d) \div (2 * d)
Smaller(x, y) == IF x < y THEN x ELSE y
Larger(x, y) == IF x < y THEN y ELSE x
Total(f(_), s) == FoldSeq(LAMBDA a, t : f(a) + t, 0, s)
HowMany(P(_), s) == Len(SelectSeq(s, P))

-----------------------------------------------------------------------------
(* One answer.  The brand may be in the prose, or only on a source card,   *)
(* whose text is removed; so is prose equal to the title of a source.      *)

OccursAnywhere(a) == a.where # "nowhere"
Occurs(a) == a.where = "prose" /\ ~a.titled
\* the products are listed in the order of the answer; the brand's is the first
ListedRank(a) ==
    IF a.listed = "none" THEN 0
    ELSE IF a.rank > 0 THEN a.rank ELSE IF a.listed = "recommended" THEN 1 ELSE 0
Recommended(a) ==
    Occurs(a) /\ (a.analysis = "yes" \/ a.listed = "recommended" \/ ListedRank(a) > 0)
RankOf(a) ==
    IF ~Recommended(a) THEN 0
    ELSE IF a.analysis # "none" /\ a.analysedRank > 0 THEN a.analysedRank ELSE ListedRank(a)
EvidenceState(a) ==
    IF Recommended(a) THEN "recommended" ELSE IF Occurs(a) THEN "mentioned" ELSE "absent"

Analysed(a) == a.analysis # "none"
\* many citations under a tiny body: DeepSeek's old selector kept the last paragraph
BodyComplete(m, a) ==
    a.body = "whole" \/ (a.body = "tail" /\ m \notin {"deepseek", Mirror})
SourcesComplete(a) == Cardinality(a.links) >= a.expected

-----------------------------------------------------------------------------
(* Calibration.  z is 1.2816, in ten-thousandths.                          *)

Root(x) == CHOOSE r \in 0..46340 : r * r <= x /\ (r + 1) * (r + 1) > x
WilsonLower(k, n) ==
    LET root == Root((k * (n - k) * 100000000) \div n + 16424 * 2500)
    IN Rounded((10000 * k + 8212 - Rounded(12816 * root, 10000)) * 1000, 10000 * n + 16424)
Samples == 1..FoldSet(Larger, 1, {RoundsOf[m] : m \in Collected})
Calibrations ==
    [n \in Samples |-> [k \in 0..n |->
        IF k = 0 THEN 0 ELSE Rounded(3000 * k + 7 * n * WilsonLower(k, n), 10 * n)]]
SampleCalibrated(k, n) == Calibrations[n][k]

\* 30000 e^(-c/300): the series of e^(-c/2400), squared three times
Decay(c) ==
    LET scale == 30000
        series[j \in 1..6] == IF j = 6 THEN scale ELSE scale - (c * series[j + 1]) \div (2400 * j)
        square(x) == Rounded(x * x, scale)
    IN square(square(square(series[1])))
Saturated(c) == Rounded(300 * (30000 - Decay(c)), 30000)
Halved(c, version) == IF version >= 6 THEN Rounded(c, 2) ELSE c

Prior == [v \in 4..6 |-> CASE v = 4 -> [mean |-> 700, strength |-> 3]
                           [] v = 5 -> [mean |-> 880, strength |-> 6]
                           [] v = 6 -> [mean |-> 880, strength |-> 6]]
\* rankQuality and evidence in thousandths
BrandProbability(k, n, rankQuality, evidence, policy) ==
    LET quality == ((900 + rankQuality \div 10) * (950 + evidence \div 20)) \div 1000
        calibrated == IF k = 0 THEN 0 ELSE Rounded(SampleCalibrated(k, n) * quality, 1000)
        prior == Prior[policy.version]
    IN IF n = 0 THEN 0
       ELSE IF policy.high
            THEN Larger(calibrated, Rounded(calibrated * n + prior.mean * prior.strength, n + prior.strength))
            ELSE Halved(Saturated(calibrated), policy.version)

-----------------------------------------------------------------------------
(* The row of a model.                                                     *)

Completed(m) == Len(Records(m))
Hits(m) == HowMany(Recommended, Records(m))
RawRate(m) == IF Completed(m) = 0 THEN 0 ELSE Rounded(1000 * Hits(m), Completed(m))
Score(a) == IF ~Recommended(a) THEN 0 ELSE IF RankOf(a) = 0 THEN 350 ELSE 1000 \div RankOf(a)
RankQuality(m) == IF Hits(m) = 0 THEN 0 ELSE Total(Score, Records(m)) \div Hits(m)
EvidenceQuality(m) ==
    LET points(a) == (IF Analysed(a) THEN 500 ELSE 0)
                     + (IF BodyComplete(m, a) THEN 300 ELSE 0) + (IF SourcesComplete(a) THEN 200 ELSE 0)
    IN IF Completed(m) = 0 THEN 0 ELSE Total(points, Records(m)) \div Completed(m)

\* Kimi stays visibly apart from DeepSeek, by 1.7 or by 0.85 (rounded up here)
MirroredAlways(m, rate, policy) == IF m = Mirror THEN Larger(1, rate - 17) ELSE rate
Mirrored(m, rate, policy) ==
    LET gap == IF policy.high THEN 17 ELSE IF policy.version >= 6 THEN 9 ELSE 17
    IN IF m = Mirror /\ rate > 0 THEN Larger(1, rate - gap) ELSE rate
RateUnder(m, policy) ==
    Mirrored(m, BrandProbability(Hits(m), Completed(m), RankQuality(m), EvidenceQuality(m), policy), policy)
Rate(m) == RateUnder(m, scoring)
OrdinaryRate(m) == RateUnder(m, [scoring EXCEPT !.high = FALSE])
HighRate(m) == RateUnder(m, [scoring EXCEPT !.high = TRUE])

UncappedShare(m, limit) ==
    BrandProbability(HowMany(LAMBDA a : RankOf(a) \in 1..limit, Records(m)), Completed(m), 1000, 1000, scoring)
RankShare(m, limit) ==
    LET within(a) == RankOf(a) \in 1..limit
    IN Smaller(Rate(m), BrandProbability(HowMany(within, Records(m)), Completed(m), 1000, 1000, scoring))
FirstShare(m) == RankShare(m, 1)
Top3Share(m) == Larger(FirstShare(m), RankShare(m, 3))
Top5Share(m) == Larger(Top3Share(m), RankShare(m, 5))

\* every independent model with answers weighs the same
Effective == {m \in Collected : Completed(m) > 0}
Weighted(figure) ==
    IF Effective = {} THEN 0
    ELSE Rounded(FoldSet(LAMBDA m, t : figure[m] + t, 0, Effective), Cardinality(Effective))
OverallRate == Weighted([m \in Effective |-> Rate(m)])
OverallShare(share) == Smaller(OverallRate, Weighted(share))

-----------------------------------------------------------------------------
(* Sources and competitors.                                                *)

Cites(m, l) == HowMany(LAMBDA a : l \in a.links, Records(m))
CitedBy(l) == {m \in Reported : Cites(m, l) > 0}
CitationsOf(l) == FoldSet(LAMBDA m, t : Cites(m, l) + t, 0, Reported)
TotalCitations == FoldSet(LAMBDA l, t : CitationsOf(l) + t, 0, Links)
CrossModelLinks == {l \in Links : Cardinality(CitedBy(l)) > 1}

\* rival: "none", or named in the answer, or recommended at a rank
RivalMentions(m) == HowMany(LAMBDA a : a.rival # "none", Records(m))
RivalPraised(m) == HowMany(LAMBDA a : a.rival = "praised", Records(m))
RivalVisibility(m) ==
    LET n == Completed(m)   hits == RivalMentions(m)   praised == RivalPraised(m)
        rank == IF praised > 0 THEN 1000 ELSE 350
        factor == ((860 + (140 * hits) \div n) * (520 + (480 * praised) \div hits)) \div 1000
    IN IF n = 0 \/ hits = 0 THEN 0
       ELSE Rounded(SampleCalibrated(hits, n) * ((factor * (620 + (38 * rank) \div 100)) \div 1000), 1000)
RivalScore == Weighted([m \in Effective |-> RivalVisibility(m)])

-----------------------------------------------------------------------------
(* The report, from the answers and the task's own copy of the policy.     *)

ReportedAnswer(m, a) ==
    [model |-> m, mentioned |-> Occurs(a), recommended |-> Recommended(a), rank |-> RankOf(a),
     evidence |-> EvidenceState(a), analysed |-> Analysed(a),
     whole |-> BodyComplete(m, a), sourced |-> SourcesComplete(a)]
Report ==
    [overall |-> OverallRate,
     first |-> OverallShare([m \in Effective |-> FirstShare(m)]),
     top3 |-> OverallShare([m \in Effective |-> Top3Share(m)]),
     top5 |-> OverallShare([m \in Effective |-> Top5Share(m)]),
     ordinary |-> Weighted([m \in Effective |-> OrdinaryRate(m)]),
     high |-> Weighted([m \in Effective |-> HighRate(m)]),
     rival |-> RivalScore, citations |-> TotalCitations, cross |-> Cardinality(CrossModelLinks)]

-----------------------------------------------------------------------------
Init == answers = [m \in Collected |-> <<>>] /\ scoring \in Policies

\* a round that is delivered again counts again
AcceptAgain(m, a) == answers' = [answers EXCEPT ![m] = Append(@, a)] /\ UNCHANGED scoring
Accept(m, a) ==
    /\ Len(answers[m]) < RoundsOf[m]
    /\ answers' = [answers EXCEPT ![m] = Append(@, a)]
    /\ UNCHANGED scoring
\* the administrator deletes one round
RemoveRound(m) ==
    \E k \in 1..Len(answers[m]) :
        answers' = [answers EXCEPT ![m] = RemoveAt(@, k)] /\ UNCHANGED scoring

Next == \E m \in Collected : (\E a \in Shapes : Accept(m, a)) \/ RemoveRound(m)
Spec == Init /\ [][Next]_scored

-----------------------------------------------------------------------------
(* Only the collected models have answers of their own.                    *)
TypeOK ==
    /\ scoring \in Policies
    /\ \A m \in Collected : Len(answers[m]) <= RoundsOf[m] /\ Range(answers[m]) \subseteq Shapes

(* The share of first places never exceeds that of the first three, nor    *)
(* that of the first five, nor the rate itself: in every row, the mirror's *)
(* and the overall one, whatever rounding and floors did to each.          *)
SharesNested ==
    /\ \A m \in Reported :
         /\ FirstShare(m) <= Top3Share(m) /\ Top3Share(m) <= Top5Share(m)
         /\ Top5Share(m) <= Rate(m) /\ Rate(m) <= 1000
    /\ LET r == Report IN r.first <= r.top3 /\ r.top3 <= r.top5 /\ r.top5 <= r.overall

(* Calibration only discounts: under the ordinary policy a rate is never   *)
(* above the observed one, never above the ceiling, and positive exactly   *)
(* when some answer recommends the brand; and the mirror is never ahead of *)
(* the model it copies.                                                    *)
OnlyDiscounts ==
    \A m \in Reported :
        /\ OrdinaryRate(m) <= RawRate(m)
        /\ OrdinaryRate(m) <= Halved(300, scoring.version)
        /\ OrdinaryRate(m) > 0 <=> Hits(m) > 0
        /\ m = Mirror => Rate(m) <= Rate("deepseek")

(* A brand that is named only on the source cards of an answer is never    *)
(* reported as mentioned, recommended or ranked there, even when the       *)
(* extension's analysis or the list of products says so.                   *)
OnlyProseCounts ==
    \A m \in Reported : \A a \in Range(Records(m)) :
        LET answer == ReportedAnswer(m, a)
        IN (answer.recommended \/ answer.mentioned \/ answer.rank > 0) => a.where = "prose"
=============================================================================
