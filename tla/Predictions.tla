---------------------------- MODULE Predictions ----------------------------
(***************************************************************************)
(* The heuristics of src/services/ml.service.ts over the tasks of          *)
(* Analytics.  A title is a sequence of words; a keyword is looked for in  *)
(* it, and it is long when it has more words than LongTitle.               *)
(***************************************************************************)
EXTENDS Analytics

CONSTANTS
    UrgentWords, ComplexWords, SimpleWords,     (* the lists of keywords   *)
    PositiveWords, NegativeWords,
    ShortWords,         (* of at most three letters, or common             *)
    LongTitle

Has(t, keywords) == Range(t.title) \cap keywords # {}

-----------------------------------------------------------------------------
(* predictCompletionTime().  A factor is a fraction; hours are in tenths,  *)
(* confidence is in percent.                                               *)

Times(hours, factor) == <<hours[1] * factor[1], hours[2] * factor[2]>>

(* Half an hour to forty.                                                  *)
Clamped(hours) == IF LessEq(hours, <<1, 2>>) THEN <<1, 2>>
                  ELSE IF LessEq(<<40, 1>>, hours) THEN <<40, 1>> ELSE hours

AverageCompletionTime(done) ==
    IF done = <<>> THEN <<4, 1>>
    ELSE Clamped(Average([n \in DOMAIN done |-> 24 * Lived(done[n])]))

ByPriority(t) == CASE t.priority = "URGENT" -> <<8, 10>>
                   [] t.priority = "LOW" -> <<13, 10>>
                   [] OTHER -> <<1, 1>>
ByLength(t) == IF Len(t.title) > LongTitle THEN <<14, 10>> ELSE <<1, 1>>
ByKeywords(t) == IF Has(t, ComplexWords) THEN <<15, 10>>
                 ELSE IF Has(t, SimpleWords) THEN <<7, 10>> ELSE <<1, 1>>

PredictCompletionTime(t, history) ==
    LET first == Times(Times(<<4, 1>>, ByPriority(t)), ByLength(t))
        done == With(history, "DONE")
        avg == AverageCompletionTime(done)
        known == Len(done) >= 5
        adjusted == IF known THEN <<first[1] * avg[2] + avg[1] * first[2], 2 * first[2] * avg[2]>>
                    ELSE first
        hours == Times(adjusted, ByKeywords(t))
        confidence == 50 + (IF t.priority = "URGENT" THEN 10 ELSE 0)
                         + (IF Len(t.title) > LongTitle THEN 5 ELSE 0)
                         + (IF known THEN 20 ELSE 0)
                         + (IF Has(t, ComplexWords \cup SimpleWords) THEN 10 ELSE 0)
    IN  [estimate |-> Round(10 * hours[1], hours[2]), confidence |-> Min({confidence, 95})]

-----------------------------------------------------------------------------
(* prioritizeTasks().                                                      *)

BaseScore == [URGENT |-> 100, HIGH |-> 75, MEDIUM |-> 50, LOW |-> 25]

AgeScore(age) == IF age > 7 THEN 30 ELSE IF age > 3 THEN 15 ELSE 0
Score(t) ==
    Max({0, BaseScore[t.priority] + AgeScore(today - t.createdAt)
              - (IF t.status = "CANCELLED" THEN 50 ELSE 0)
              + (IF Has(t, UrgentWords) THEN 40 ELSE 0)})

(* sort() is stable: tasks of one score stay in their order.               *)
PrioritizeTasks(ts) ==
    SetToSortSeq(DOMAIN ts, LAMBDA a, b : \/ Score(ts[a]) > Score(ts[b])
                                          \/ Score(ts[a]) = Score(ts[b]) /\ a < b)

-----------------------------------------------------------------------------
(* detectAnomalies(), in hundredths.                                       *)

Old(t, days) == today - t.createdAt > days
DetectAnomalies(t, own) ==
    LET cancelled == Len(With(own, "CANCELLED"))
        score == (IF Old(t, 14) /\ today - t.updatedAt > 14 /\ t.status = "TODO" THEN 40 ELSE 0)
               + (IF Len(With(own, "IN_PROGRESS")) > 10 THEN 30 ELSE 0)
               + (IF t.priority = "URGENT" /\ Old(t, 7) THEN 50 ELSE 0)
               + (IF Len(t.title) = 1 /\ Has(t, ShortWords) THEN 20 ELSE 0)
               + (IF 10 * cancelled > 3 * Len(own) THEN 30 ELSE 0)
    IN  [isAnomaly |-> score >= 50, anomalyScore |-> score]

-----------------------------------------------------------------------------
(* recommendTasks(), in hundredths.                                        *)

ExtractKeywords(title) ==
    LET words == SelectSeq(title, LAMBDA w : w \notin ShortWords)
    IN  SubSeq(words, 1, Min({5, Len(words)}))
Common(own, other) == Len(SelectSeq(own, LAMBDA w : Contains(other, w)))

(* Mutation: the share of the words of one title only.                     *)
ShareOfOwn(own, other) ==
    IF own = <<>> THEN 0 ELSE Round(40 * Common(own, other), Len(own))

Kinship(own, other) ==
    LET common == Common(own, other)
    IN  IF common = 0 THEN 0 ELSE Round(40 * common, Max({Len(own), Len(other)}))
Relevance(current, t) ==
    (IF t.priority = current.priority THEN 30 ELSE 0)
      + Kinship(ExtractKeywords(current.title), ExtractKeywords(t.title))
      + (IF t.user = current.user THEN 20 ELSE 0)

(* More than 0.3, which the floating-point sum of 0.1 and 0.2 is and 0.3   *)
(* alone is not.                                                           *)
Relevant(current, t, score) == score > 30 \/ (score = 30 /\ t.priority # current.priority)
Candidates(n, ts) == SelectSeq([k \in DOMAIN ts |-> k],
                               LAMBDA k : k # n /\ ts[k].status # "DONE")
RecommendTasks(n, ts) ==
    LET score == [k \in DOMAIN ts |-> Relevance(ts[n], ts[k])]
        relevant == SelectSeq(Candidates(n, ts), LAMBDA k : Relevant(ts[n], ts[k], score[k]))
        sorted == SortSeq(relevant, LAMBDA a, b :
                             score[a] > score[b] \/ (score[a] = score[b] /\ a < b))
    IN  SubSeq(sorted, 1, Min({5, Len(sorted)}))

-----------------------------------------------------------------------------
(* analyzeSentiment(): ten times the balance of words by their number.  The *)
(* text of a task ends with its description, here the empty word.          *)

AnalyzeSentiment(text) ==
    LET count(set) == Len(SelectSeq(text, LAMBDA w : w \in set))
        balance == count(PositiveWords) - count(NegativeWords)
    IN  IF 50 * balance > Len(text) THEN "positive"
        ELSE IF 50 * balance < -Len(text) THEN "negative" ELSE "neutral"
SentimentOf(t) == AnalyzeSentiment(Append(t.title, ""))

(* The page of insights.                                                   *)
GetMLInsights(ts) ==
    [prioritized |-> PrioritizeTasks(ts),
     anomalies |-> {n \in DOMAIN ts : DetectAnomalies(ts[n], ts).isAnomaly},
     sentiments |-> [s \in {"positive", "neutral", "negative"} |->
                       Len(SelectSeq(ts, LAMBDA t : SentimentOf(t) = s))]]

-----------------------------------------------------------------------------
(* Properties.                                                             *)

(* The order of prioritizeTasks holds every task once, by falling score;   *)
(* and among tasks that differ only in age and priority, one that is at    *)
(* least as old and as urgent is never placed behind for its score.        *)
PrioritiesAreMonotone ==
    LET order == PrioritizeTasks(tasks)
        base(n) == BaseScore[tasks[n].priority]
    IN  /\ Range(order) = DOMAIN tasks /\ Len(order) = Len(tasks)
        /\ \A k \in 1..(Len(order) - 1) : Score(tasks[order[k]]) >= Score(tasks[order[k + 1]])
        /\ \A m, n \in DOMAIN tasks :
              (/\ tasks[m].createdAt <= tasks[n].createdAt /\ base(m) >= base(n)
               /\ tasks[m].status = tasks[n].status /\ tasks[m].title = tasks[n].title)
                 => Score(tasks[m]) >= Score(tasks[n])

(* Whatever the history, here six tasks like one of the list or the list   *)
(* itself, a prediction stays between a tenth above one hour and 36 hours, *)
(* and the cap on the confidence takes nothing away.                       *)
PredictionsStayPlausible ==
    \A n, m \in DOMAIN tasks : \A history \in {tasks, [k \in 1..6 |-> tasks[m]]} :
        LET p == PredictCompletionTime(tasks[n], history)
        IN  p.estimate \in 11..360 /\ p.confidence \in 50..95

(* Five tasks are recommended at most.  Of two open tasks whose titles     *)
(* repeat no word, one that is recommended for the other has the other     *)
(* among its own, unless five crowd it out that are no less relevant.      *)
(* Looked at over the list and over three times the list.                  *)
RecommendationsAreMutual ==
    \A ts \in {tasks, tasks \o tasks \o tasks} :
       \A for \in {[n \in DOMAIN ts |-> RecommendTasks(n, ts)]} :
          LET open == {n \in DOMAIN ts : ts[n].status # "DONE" /\ IsInjective(ts[n].title)}
          IN  \A m, n \in open : Contains(for[m], n) =>
                 /\ m # n /\ Len(for[m]) <= 5
                 /\ \/ Contains(for[n], m)
                    \/ /\ Len(for[n]) = 5
                       /\ \A k \in Range(for[n]) :
                             Relevance(ts[n], ts[k]) >= Relevance(ts[n], ts[m])

(* Whatever the list of tasks, what is predicted from it is plausible.     *)
PredictionsAreSound ==
    PrioritiesAreMonotone /\ PredictionsStayPlausible /\ RecommendationsAreMutual

=============================================================================
