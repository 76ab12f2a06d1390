------------------------------ MODULE Insights ------------------------------
(***************************************************************************)
(* What the pages of src/controllers/analytics.controller.ts and           *)
(* ml.controller.ts answer.  The first read their tasks by a column that   *)
(* the table does not have and take the error for an empty list; the       *)
(* second list tasks in the default order, by that same column, and pass   *)
(* the error on.                                                           *)
(***************************************************************************)
EXTENDS Predictions

Ok(body) == [status |-> 200, body |-> body]
Refuse(code) == [status |-> code, body |-> Null]

TrendMetrics == {"completions", "creations", "velocity", "productivity"}
ChartTypes == {"tasksByStatus", "tasksByPriority", "completionTrend", "userActivity",
               "workloadHeatmap"}

Read(query) == GetTasksInRange(ParseTimeRange(query))

(* What they make of the tasks that were read.                             *)
KpiPage(ts, query) == Ok(GetKPIMetrics(ts, ParseTimeRange(query)))
TrendPage(ts, metric, query) ==
    IF metric \notin TrendMetrics THEN Refuse(400)
    ELSE Ok(AnalyzeTrend(metric, ts, ParseTimeRange(query)))
TrendsPage(ts, metrics, query) ==
    LET asked == IF metrics = {} THEN {"completions", "creations", "velocity"} ELSE metrics
    IN  Ok(GetMultipleTrends(asked \cap TrendMetrics, ts, ParseTimeRange(query)))
UserPage(ts, user, query) == Ok(GetUserAnalytics(ts, user))
MyPage(ts, caller, query) ==
    IF caller = Null THEN Refuse(401) ELSE Ok(GetUserAnalytics(ts, caller))
LeaderboardPage(ts, limit, query) ==
    Ok(GetLeaderboard(ts, IF limit = Null THEN 10 ELSE limit))
TeamPage(ts, query) == Ok(GetTeamAnalytics(ts))
CohortsPage(ts, query) == Ok(AnalyzeCohorts(ts))
FunnelPage(ts, query) == Ok(AnalyzeTaskFunnel(ts))
ReportPage(ts, type, metrics, query) ==
    LET asked == IF metrics = Null THEN {"kpi", "trends", "team"} ELSE metrics
    IN  Ok(GenerateReport(type, asked, ts, Daily(query)))
ChartPage(ts, chartType, query) ==
    IF chartType \notin ChartTypes THEN Refuse(400)
    ELSE Ok(GetChartData(chartType, ts, ParseTimeRange(query)))

-----------------------------------------------------------------------------
(* The pages of predictions: a refusal, or what is made of a list.         *)

Listing == IF "createdAt" \in TaskColumns THEN 200 ELSE 500
OfList(body) == IF Listing = 200 THEN Ok(body) ELSE Refuse(Listing)

OfTask(id, answer) ==
    IF id = Null THEN Refuse(400)
    ELSE IF id \notin DOMAIN tasks THEN Refuse(404) ELSE answer
OfUser(user, answer) == IF user = Null THEN Refuse(400) ELSE answer
Own(user) == SelectSeq(tasks, LAMBDA t : t.user = user)

PredictionPage(id, caller) ==
    OfTask(id, OfList(PredictCompletionTime(tasks[id], Own(caller))))
PriorityPage(user) ==
    LET open == SelectSeq(Own(user), LAMBDA t : t.status \in {"TODO", "IN_PROGRESS"})
    IN  OfUser(user, OfList(PrioritizeTasks(open)))
AnomalyPage(user) ==
    OfUser(user, OfList({n \in DOMAIN Own(user) : DetectAnomalies(Own(user)[n], Own(user)).isAnomaly}))
RecommendationPage(id) == OfTask(id, OfList(RecommendTasks(id, tasks)))
SentimentPage(text, id) ==
    IF text = Null /\ id = Null THEN Refuse(400)
    ELSE IF id = Null THEN Ok(AnalyzeSentiment(text))
    ELSE OfTask(id, Ok(SentimentOf(tasks[id])))
InsightsPage(user) == OfUser(user, OfList(GetMLInsights(Own(user))))

-----------------------------------------------------------------------------
(* Properties.                                                             *)

Queries == {NoDates, [startDate |-> today, endDate |-> Null, granularity |-> "week"]}

(* The pages of figures agree with each other, both on what is read for    *)
(* them and on what would be if the column were there: the key figures     *)
(* with the funnel, the charts, the team, the cohorts, the leaderboard and *)
(* the report that repeats them; a user's own page shows what another is   *)
(* shown of the user, and rank zero without tasks; one trend is what the   *)
(* page of several shows of it, which leaves out the metrics that the      *)
(* other refuses.                                                          *)
PagesAgree ==
    \A query \in Queries : \A ts \in {Read(query), Selected(ParseTimeRange(query))} :
        LET kpi == KpiPage(ts, query).body
            report == ReportPage(ts, "summary", Null, query).body
            shown(metric) == TrendsPage(ts, {metric}, query).body
            cohorts == CohortsPage(ts, query).body
        IN  /\ FunnelPage(ts, query).body.counts[1] = kpi.totalTasks
            /\ SumOver(ChartPage(ts, "tasksByStatus", query).body) = kpi.totalTasks
            /\ SumOver(ChartPage(ts, "workloadHeatmap", query).body) = kpi.totalTasks
            /\ SumOver(TeamPage(ts, query).body.workloadDistribution) = kpi.totalTasks
            /\ SumOver([w \in DOMAIN cohorts |-> cohorts[w].userCount]) = kpi.activeUsers
            /\ Len(LeaderboardPage(ts, Null, query).body) = Min({10, kpi.activeUsers})
            /\ report.kpi = kpi /\ report.team = TeamPage(ts, query).body
            /\ \A u \in Users : LET page == MyPage(ts, u, query) IN
                  /\ page = UserPage(ts, u, query)
                  /\ page.body.completedTasks = 0 => page.body.rankInTeam = 0
            /\ \A metric \in {"completions", "creations", "velocity", "speed"} :
                  LET page == TrendPage(ts, metric, query)
                  IN  IF page.status = 200 THEN shown(metric)[metric] = page.body
                      ELSE DOMAIN shown(metric) = {}

(* Of a task that is not there every page of predictions says so, and the  *)
(* pages that go on to list tasks fail, all of them or none: only what is  *)
(* said of the words of one task is then still shown.                      *)
PredictionPagesFailTogether ==
    LET ids == {Null} \cup 1..(Len(tasks) + 1)
    IN  /\ \A id \in ids : LET status == RecommendationPage(id).status IN
              /\ PredictionPage(id, CHOOSE u \in Users : TRUE).status = status
              /\ SentimentPage(Null, id).status = (IF id \in DOMAIN tasks THEN 200 ELSE status)
              /\ id \in DOMAIN tasks => status = InsightsPage(tasks[id].user).status
        /\ \A u \in Users \cup {Null} :
              /\ PriorityPage(u).status = InsightsPage(u).status
              /\ AnomalyPage(u).status = InsightsPage(u).status
        /\ \A w \in Words : SentimentPage(<<w>>, Null).status = 200

(* What is predicted and what the pages show of it.                        *)
AnswersAreSound == PredictionsAreSound /\ PagesAgree /\ PredictionPagesFailTogether

=============================================================================
