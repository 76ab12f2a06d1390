------------------------------ MODULE Analytics ------------------------------
(***************************************************************************)
(* The figures of src/services/analytics.service.ts over a list of tasks   *)
(* that are created, change their status and grow old.  Time is counted in *)
(* days; a rate is a fraction or is rounded as in the code, in hundredths. *)
(*                                                                         *)
(* The service reads its tasks by a column that the table does not have,   *)
(* so that it computes all this over no tasks at all (GetTasksInRange).    *)
(* The properties are about the computations, for whatever list they get.  *)
(***************************************************************************)
EXTENDS Metrics

CONSTANTS
    Users, Words,       (* what titles are made of                         *)
    Inputs,             (* what tasks are created with                     *)
    Null,
    MaxTasks, MaxChanges,       (* bounds: the tasks, the changes of       *)
    StatusChanges,              (* status, and from which to which, how    *)
    MaxPasses, MaxDay           (* often time passes, and until when       *)

Statuses == {"TODO", "IN_PROGRESS", "DONE", "CANCELLED"}
Priorities == {"LOW", "MEDIUM", "HIGH", "URGENT"}
Input == [user : Users, priority : Priorities, title : Seq(Words), days : Nat \cup {Null}]
ASSUME AnalyticsAssumption ==
    Inputs \subseteq Input /\ {MaxTasks, MaxPasses, MaxChanges, MaxDay} \subseteq Nat

VARIABLES tasks, today,
          passes, changes       (* how often time has passed, and a status *)
                                (* has been changed: for the bounds        *)
vars == <<tasks, today, passes, changes>>

Task == [user : Users, priority : Priorities, title : Seq(Words), status : Statuses,
         createdAt : 0..today, updatedAt : 0..today, dueDate : Nat \cup {Null}]

Init == tasks = <<>> /\ today = 0 /\ passes = 0 /\ changes = 0

DefaultStatus == "TODO"
Create(input) ==
    /\ Len(tasks) < MaxTasks
    /\ tasks' = Append(tasks,
         [user |-> input.user, priority |-> input.priority, title |-> input.title,
          status |-> DefaultStatus, createdAt |-> today, updatedAt |-> today,
          dueDate |-> IF input.days = Null THEN Null ELSE today + input.days])
    /\ UNCHANGED <<today, passes, changes>>
SetStatus(n, status) ==
    /\ <<tasks[n].status, status>> \in StatusChanges
    /\ changes < MaxChanges /\ changes' = changes + 1
    /\ tasks' = [tasks EXCEPT ![n].status = status, ![n].updatedAt = today]
    /\ UNCHANGED <<today, passes>>
Pass(days) ==
    /\ tasks # <<>> /\ passes < MaxPasses /\ passes' = passes + 1
    /\ today + days <= MaxDay /\ today' = today + days
    /\ UNCHANGED <<tasks, changes>>

Next ==
    \/ \E input \in Inputs : Create(input)
    \/ \E n \in DOMAIN tasks, status \in Statuses : SetStatus(n, status)
    \/ \E days \in {1, 7} : Pass(days)
Spec == Init /\ [][Next]_vars

-----------------------------------------------------------------------------
(* Reading.                                                                *)

TaskColumns == {"id", "title", "description", "status", "priority", "user_id",
                "project_id", "due_date", "tags", "attachments", "created_at",
                "updated_at"}

(* What the statement selects, the latest first; an error of it is caught, *)
(* and none found.                                                         *)
Selected(range) ==
    SelectSeq(Reverse(tasks), LAMBDA t : range.startDate <= t.createdAt /\ t.createdAt <= range.endDate)
GetTasksInRange(range) == IF "createdAt" \in TaskColumns THEN Selected(range) ELSE <<>>
NormalizeTimeRange(partial) ==
    [startDate |-> IF partial.startDate = Null THEN today - 30 ELSE partial.startDate,
     endDate |-> IF partial.endDate = Null THEN today ELSE partial.endDate,
     granularity |-> IF partial.granularity = Null THEN "day" ELSE partial.granularity]
GetDaysDifference(start, end) == Max({start - end, end - start})

With(ts, status) == SelectSeq(ts, LAMBDA t : t.status = status)
UsersOf(ts) == {ts[n].user : n \in DOMAIN ts}
CountOf(ts, user) == Len(SelectSeq(ts, LAMBDA t : t.user = user))
Lived(t) == t.updatedAt - t.createdAt

-----------------------------------------------------------------------------
(* Key figures.                                                            *)

CalculateAverageCompletionTime(done) ==
    IF done = <<>> THEN 0
    ELSE Cents(24 * Total([n \in DOMAIN done |-> Lived(done[n])]), Len(done))

(* The share of those due that were done in time, in hundredths of a       *)
(* percent; all of them when none was due.                                 *)
OnTimeRate(done) ==
    LET due == SelectSeq(done, LAMBDA t : t.dueDate # Null)
        onTime == SelectSeq(due, LAMBDA t : t.updatedAt <= t.dueDate)
    IN  IF due = <<>> THEN 10000 ELSE Cents(100 * Len(onTime), Len(due))

Overdue(ts) ==
    SelectSeq(ts, LAMBDA t : t.dueDate # Null /\ t.dueDate < today /\ t.status # "DONE")

Alone(ts) == Cardinality(UsersOf(ts)) <= 1

(* With s and q the sum of the counts and that of their squares, the       *)
(* square of the quotient of deviation and mean is (n q - s^2) / s^2.      *)
CalculateCollaborationScore(ts) ==
    LET users == SetToSeq(UsersOf(ts))
        counts == [n \in DOMAIN users |-> CountOf(ts, users[n])]
        spread == Variance(counts)[1]
        mean == Total(counts) * Total(counts)
    IN  IF Alone(ts) \/ spread >= mean THEN 0
        ELSE CHOOSE s \in 0..100 : /\ 40000 * spread <= (201 - 2 * s) * (201 - 2 * s) * mean
                                   /\ (199 - 2 * s) * (199 - 2 * s) * mean < 40000 * spread
                                        \/ s = 100

GetKPIMetrics(ts, range) ==
    LET done == With(ts, "DONE")
        open == SelectSeq(ts, LAMBDA t : t.status # "DONE")
        days == GetDaysDifference(range.startDate, range.endDate)
        users == Cardinality(UsersOf(ts))
    IN  [totalTasks |-> Len(ts), completedTasks |-> Len(done),
         inProgressTasks |-> Len(With(ts, "IN_PROGRESS")), overdueCount |-> Len(Overdue(ts)),
         completionRate |-> IF ts = <<>> THEN <<0, 1>> ELSE <<100 * Len(done), Len(ts)>>,
         averageCompletionTime |-> CalculateAverageCompletionTime(done),
         tasksCompletedPerDay |-> IF days > 0 THEN Cents(Len(done), days) ELSE 0,
         throughput |-> IF days > 0 THEN Cents(7 * Len(done), days) ELSE 0,
         onTimeDeliveryRate |-> OnTimeRate(done),
         averageTaskAge |-> IF open = <<>> THEN 0
            ELSE Cents(Total([n \in DOMAIN open |-> today - open[n].createdAt]), Len(open)),
         activeUsers |-> users,
         tasksPerUser |-> IF users > 0 THEN Cents(Len(ts), users) ELSE 0,
         collaborationScore |-> CalculateCollaborationScore(ts)]

-----------------------------------------------------------------------------
(* Trends.                                                                 *)

GetWeekKey(day) == 7 * (day \div 7)
GetDateKey(day, granularity) == IF granularity = "week" THEN GetWeekKey(day) ELSE day

Previous(values, n) == IF n = 1 THEN values[1] ELSE values[n - 1]

Counts(t, metric) == metric = "creations" \/ (metric = "completions" /\ t.status = "DONE")
AggregateByGranularity(ts, granularity, metric) ==
    LET counted == SelectSeq(ts, LAMBDA t : Counts(t, metric))
        key(t) == GetDateKey(t.createdAt, granularity)
        dates == SetToSortSeq({key(counted[n]) : n \in DOMAIN counted}, <)
        values == [n \in DOMAIN dates |->
                     Len(SelectSeq(counted, LAMBDA t : key(t) = dates[n]))]
    IN  [n \in DOMAIN dates |->
           [date |-> dates[n], value |-> values[n],
            change |-> values[n] - Previous(values, n)]]

Values(points) == [n \in DOMAIN points |-> points[n].value]

(* Mutation: what does not grow by the threshold declines.                 *)
DeclinesUnlessGrows(first, second) ==
    10 * second[1] * first[2] < 11 * first[1] * second[2]

(* By more than a tenth of the first average below it.                     *)
Declines(first, second) == 10 * second[1] * first[2] < 9 * first[1] * second[2]
Grows(first, second) == 10 * second[1] * first[2] > 11 * first[1] * second[2]
CalculateTrend(points) ==
    LET half == Len(points) \div 2
        first == Average(Values(SubSeq(points, 1, half)))
        second == Average(Values(SubSeq(points, half + 1, Len(points))))
    IN  IF Len(points) < 2 THEN "stable"
        ELSE IF Grows(first, second) THEN "increasing"
        ELSE IF Declines(first, second) THEN "decreasing"
        ELSE "stable"

(* The coefficient of determination of a straight line, in percent.        *)
CalculateTrendStrength(points) ==
    LET n == Len(points)
        x == [k \in 1..n |-> k - 1]
        y == Values(points)
        sumXY == Total([k \in 1..n |-> x[k] * y[k]])
        num == n * sumXY - Total(x) * Total(y)
        den == Variance(x)[1] * Variance(y)[1]
    IN  IF n < 2 THEN 0 ELSE IF den = 0 THEN 0 ELSE Round(100 * num * num, den)

GenerateForecast(points, days) ==
    LET window == Min({7, Len(points)})
        avg == Average(Values(SubSeq(points, Len(points) - window + 1, Len(points))))
    IN  IF Len(points) < 3 THEN <<>>
        ELSE [i \in 1..days |-> [date |-> Last(points).date + i, value |-> Round(avg[1], avg[2])]]

-----------------------------------------------------------------------------
(* Users.                                                                  *)

EndStreak(s) == [longest |-> Max({s.longest, s.temp}), temp |-> 1]
CalculateStreaks(done) ==
    LET dates == SetToSortSeq({done[n].updatedAt : n \in DOMAIN done}, <)
        step(s, n) == IF dates[n] - dates[n - 1] = 1 THEN [s EXCEPT !.temp = @ + 1]
                      ELSE EndStreak(s)
        end == FoldLeft(step, [longest |-> 0, temp |-> 1], [n \in 1..(Len(dates) - 1) |-> n + 1])
    IN  IF done = <<>> THEN [currentStreak |-> 0, longestStreak |-> 0]
        ELSE [currentStreak |-> IF Last(dates) \in {today, today - 1} THEN end.temp ELSE 0,
              longestStreak |-> Max({end.longest, end.temp})]

(* The users who completed something, in the order in which they are met.  *)
GetAllUserStats(ts) ==
    LET done == With(ts, "DONE")
        first(n) == \A k \in 1..(n - 1) : done[k].user # done[n].user
        firsts == SetToSortSeq({n \in DOMAIN done : first(n)}, <)
    IN  [k \in DOMAIN firsts |->
           [user |-> done[firsts[k]].user, completed |-> CountOf(done, done[firsts[k]].user)]]

(* sort() is stable.                                                       *)
ByCompleted(stats) ==
    LET before(a, b) == \/ stats[a].completed > stats[b].completed
                        \/ stats[a].completed = stats[b].completed /\ a < b
        order == SetToSortSeq(DOMAIN stats, before)
    IN  [n \in DOMAIN order |-> stats[order[n]].user]

(* findIndex() + 1: 0 for a user who completed nothing.                    *)
RankOf(ts, user) ==
    LET sorted == ByCompleted(GetAllUserStats(ts))
    IN  IF Contains(sorted, user) THEN CHOOSE n \in DOMAIN sorted : sorted[n] = user ELSE 0
PercentileOf(ts, user) ==
    LET n == Len(GetAllUserStats(ts))
    IN  IF n = 0 THEN Null ELSE Cents(100 * (n - RankOf(ts, user)), n)

CalculateProductivityScore(ts, user) ==
    LET own == SelectSeq(ts, LAMBDA t : t.user = user)
        done == With(own, "DONE")
        rate == IF own = <<>> THEN <<0, 1>> ELSE <<100 * Len(done), Len(own)>>
        streak == Min({100, 10 * CalculateStreaks(done).currentStreak})
        volume == Min({100, 5 * Len(done)})
    IN  Round(300 * rate[1] + rate[2] * (3 * OnTimeRate(done) + 200 * streak + 200 * volume),
              1000 * rate[2])

(* Sorted by completed tasks.                                              *)
GetLeaderboard(ts, limit) ==
    LET users == SetToSeq(UsersOf(ts))
        completed(u) == CountOf(With(ts, "DONE"), u)
        sorted == SortSeq(users, LAMBDA u, v : completed(u) > completed(v))
    IN  SubSeq(sorted, 1, Min({limit, Len(sorted)}))

-----------------------------------------------------------------------------
(* Teams, cohorts, funnel.                                                 *)

Overloaded(ts, user) == CountOf(ts, user) * Cardinality(UsersOf(ts)) > 2 * Len(ts)
Stuck(ts) == SelectSeq(ts, LAMBDA t :
    t.status = "IN_PROGRESS" /\ GetDaysDifference(t.updatedAt, today) > 7)
UrgentTodo(ts) == SelectSeq(ts, LAMBDA t : t.priority = "URGENT" /\ t.status = "TODO")
DetectBottlenecks(ts) ==
    {[type |-> "user", taskCount |-> CountOf(ts, u)] : u \in {v \in UsersOf(ts) : Overloaded(ts, v)}}
      \cup {b \in {[type |-> "status", taskCount |-> Len(Stuck(ts))],
                   [type |-> "priority", taskCount |-> Len(UrgentTodo(ts))]} : b.taskCount > 0}

WorkloadDistribution(ts) == [u \in UsersOf(ts) |-> CountOf(ts, u)]
GetTeamAnalytics(ts) ==
    [totalMembers |-> Cardinality(UsersOf(ts)),
     activeMembers |-> Cardinality({u \in UsersOf(ts) : \E n \in DOMAIN ts :
                          ts[n].user = u /\ ts[n].updatedAt > today - 7}),
     workloadDistribution |-> WorkloadDistribution(ts),
     bottlenecks |-> DetectBottlenecks(ts)]

FirstTask(ts, user) == Min({ts[n].createdAt : n \in {k \in DOMAIN ts : ts[k].user = user}})
CohortOf(ts, week) == {u \in UsersOf(ts) : GetWeekKey(FirstTask(ts, u)) = week}

(* Of the four weeks after that of the cohort, the share of its users who  *)
(* have a task that was last changed in the week.                          *)
CalculateRetention(users, ts, week) ==
    [w \in 0..4 |->
        LET active == {u \in users : \E n \in DOMAIN ts :
                          ts[n].user = u /\ GetWeekKey(ts[n].updatedAt) = week + 7 * w}
        IN  IF w = 0 THEN 100 ELSE Round(100 * Cardinality(active), Cardinality(users))]
AnalyzeCohorts(ts) ==
    [week \in {GetWeekKey(FirstTask(ts, u)) : u \in UsersOf(ts)} |->
        LET users == CohortOf(ts, week)
            retention == CalculateRetention(users, ts, week)
        IN  [userCount |-> Cardinality(users), retention |-> retention,
             averageTasksCompleted |->
                Cents(Len(SelectSeq(With(ts, "DONE"), LAMBDA t : t.user \in users)), Cardinality(users)),
             churnRate |-> 100 - retention[4]]]

(* find() of the greatest drop-off.                                        *)
Bottleneck(drops) ==
    CHOOSE i \in DOMAIN drops :
        /\ \A k \in DOMAIN drops : LessEq(drops[k], drops[i])
        /\ \A k \in 1..(i - 1) : ~LessEq(drops[i], drops[k])
AnalyzeTaskFunnel(ts) ==
    LET done == Len(With(ts, "DONE"))
        counts == <<Len(ts), Len(With(ts, "IN_PROGRESS")) + done, done>>
        conversion == [i \in 1..3 |-> IF i = 1 THEN <<100, 1>>
                          ELSE IF counts[i - 1] > 0 THEN <<100 * counts[i], counts[i - 1]>>
                          ELSE <<0, 1>>]
        dropOff == [i \in 1..3 |-> <<100 * conversion[i][2] - conversion[i][1], conversion[i][2]>>]
    IN  [counts |-> counts, conversion |-> conversion, dropOff |-> dropOff,
         bottleneckStep |-> Bottleneck(dropOff)]

-----------------------------------------------------------------------------
(* Charts, users in full, and the reports and pages that put it together.  *)

CreateStatusPieChart(ts) == [s \in Statuses |-> Len(With(ts, s))]
CreatePriorityBarChart(ts) ==
    [p \in Priorities |-> Len(SelectSeq(ts, LAMBDA t : t.priority = p))]
CreateCompletionLineChart(ts, range) ==
    Values(AggregateByGranularity(With(ts, "DONE"), range.granularity, "completions"))
CreateUserActivityChart(ts) ==
    LET counts == SortSeq([n \in DOMAIN SetToSeq(UsersOf(ts)) |-> CountOf(ts, SetToSeq(UsersOf(ts))[n])], >)
    IN  SubSeq(counts, 1, Min({10, Len(counts)}))
CreateWorkloadHeatmap(ts) ==
    [day \in 0..6 |-> Len(SelectSeq(ts, LAMBDA t : t.createdAt % 7 = day))]
GetChartData(chartType, ts, range) ==
    CASE chartType = "tasksByStatus" -> CreateStatusPieChart(ts)
      [] chartType = "tasksByPriority" -> CreatePriorityBarChart(ts)
      [] chartType = "completionTrend" -> CreateCompletionLineChart(ts, range)
      [] chartType = "userActivity" -> CreateUserActivityChart(ts)
      [] chartType = "workloadHeatmap" -> CreateWorkloadHeatmap(ts)

AnalyzeTrend(metric, ts, range) ==
    LET points == AggregateByGranularity(ts, range.granularity, metric)
    IN  [data |-> points, trend |-> CalculateTrend(points),
         trendStrength |-> CalculateTrendStrength(points),
         forecast |-> GenerateForecast(points, 7)]
GetMultipleTrends(metrics, ts, range) == [m \in metrics |-> AnalyzeTrend(m, ts, range)]

(* The first of the days of the week with the most tasks.                  *)
MostProductiveDay(done) ==
    LET on == [day \in 0..6 |-> Len(SelectSeq(done, LAMBDA t : t.updatedAt % 7 = day))]
    IN  CHOOSE day \in 0..6 : /\ \A d \in 0..6 : on[d] <= on[day]
                              /\ \A d \in 0..(day - 1) : on[d] < on[day]
GetUserAnalytics(ts, user) ==
    LET own == SelectSeq(ts, LAMBDA t : t.user = user)
        done == With(own, "DONE")
        streaks == CalculateStreaks(done)
    IN  [totalTasks |-> Len(own), completedTasks |-> Len(done),
         currentStreak |-> streaks.currentStreak, longestStreak |-> streaks.longestStreak,
         averageCompletionTime |-> CalculateAverageCompletionTime(done),
         onTimeRate |-> OnTimeRate(done), mostProductiveDay |-> MostProductiveDay(done),
         productivityScore |-> CalculateProductivityScore(ts, user),
         rankInTeam |-> RankOf(ts, user), percentile |-> PercentileOf(ts, user)]

(* What a type of report holds, whatever metrics are asked for.            *)
Always(type) ==
    CASE type = "summary" -> {"kpi"}
      [] type = "executive" -> {"kpi", "team"}
      [] type = "detailed" -> {"trends", "funnel", "cohorts"}
      [] type = "custom" -> {}
GenerateReport(type, metrics, ts, range) ==
    [part \in (metrics \cup Always(type)) |->
        CASE part = "kpi" -> GetKPIMetrics(ts, range)
          [] part = "trends" ->
               GetMultipleTrends({"completions", "creations", "velocity"}, ts, range)
          [] part = "team" -> GetTeamAnalytics(ts)
          [] part = "funnel" -> AnalyzeTaskFunnel(ts)
          [] part = "cohorts" -> AnalyzeCohorts(ts)
          [] part = "leaderboard" -> GetLeaderboard(ts, 10)]
GenerateReportSummary(report) ==
    (IF "kpi" \in DOMAIN report /\ report.kpi.overdueCount > 0 THEN {"overdue"} ELSE {})
      \cup (IF "team" \in DOMAIN report /\ report.team.bottlenecks # {}
            THEN {"bottlenecks"} ELSE {})

(* The pages.  A query that names no dates asks for the last thirty days.  *)
ParseTimeRange(query) == NormalizeTimeRange(query)
Daily(query) == [ParseTimeRange(query) EXCEPT !.granularity = "day"]
GetDashboard(ts, query) ==
    LET range == ParseTimeRange(query)
    IN  [kpi |-> GetKPIMetrics(ts, range), funnel |-> AnalyzeTaskFunnel(ts),
         trends |-> GetMultipleTrends({"completions", "creations"}, ts, range),
         team |-> GetTeamAnalytics(ts),
         status |-> GetChartData("tasksByStatus", ts, range),
         priority |-> GetChartData("tasksByPriority", ts, range)]
GetExecutiveReport(ts, query) ==
    GenerateReport("executive", {"kpi", "trends", "team", "funnel"}, ts, Daily(query))

-----------------------------------------------------------------------------
(* Properties.  They hold of whatever list the figures are computed over.  *)

TypeOK ==
    /\ tasks \in Seq(Task) /\ Len(tasks) <= MaxTasks
    /\ today \in Nat /\ passes \in 0..MaxPasses /\ changes \in 0..MaxChanges

(* Without dates in the query.                                             *)
NoDates == [startDate |-> Null, endDate |-> Null, granularity |-> Null]
SumOf(points) == Total(Values(points))
SumOver(f) == FoldSet(LAMBDA k, sum : f[k] + sum, 0, DOMAIN f)

(* The parts of one page agree: the same tasks are counted by the key      *)
(* figures, the funnel, the workload, the charts and the trends            *)
(* (getDashboard puts together what six calls have computed), and what is  *)
(* done is not overdue.  The executive report, which repeats some of it,   *)
(* warns of what the page shows.                                           *)
DashboardAgrees ==
    \A page \in {GetDashboard(tasks, NoDates)}, report \in {GetExecutiveReport(tasks, NoDates)} :
        LET total == page.kpi.totalTasks
            done == page.kpi.completedTasks
        IN  /\ page.funnel.counts[1] = total /\ page.funnel.counts[3] = done
            /\ page.funnel.counts[2] = page.kpi.inProgressTasks + done
            /\ SumOver(page.team.workloadDistribution) = total
            /\ SumOver(page.status) = total /\ page.status["DONE"] = done
            /\ SumOver(page.priority) = total
            /\ SumOf(page.trends["creations"].data) = total
            /\ SumOf(page.trends["completions"].data) = done
            /\ page.kpi.overdueCount + done <= total
            /\ page.team.activeMembers <= page.team.totalMembers
            /\ page.team.totalMembers = page.kpi.activeUsers
            /\ ("overdue" \in GenerateReportSummary(report)) <=> page.kpi.overdueCount > 0
            /\ \A b \in report.team.bottlenecks : b.taskCount <= total

(* A task passes the steps of the funnel in order, and the step named as   *)
(* the bottleneck is one at which the greatest share is lost.              *)
FunnelNarrows ==
    LET f == AnalyzeTaskFunnel(tasks)
    IN  /\ \A i \in 1..2 : f.counts[i + 1] <= f.counts[i]
        /\ \A i \in 1..3 : LessEq(<<0, 1>>, f.dropOff[i]) /\ LessEq(f.dropOff[i], <<100, 1>>)
        /\ \A i \in 1..3 : LessEq(f.dropOff[i], f.dropOff[f.bottleneckStep])

(* The one pass over the days on which a user completed something finds    *)
(* the longest run of consecutive days, and the current streak is the run  *)
(* that ends today or yesterday.                                           *)
StreaksAreRuns ==
    \A u \in Users :
        LET done == With(SelectSeq(tasks, LAMBDA t : t.user = u), "DONE")
            days == {done[n].updatedAt : n \in DOMAIN done}
            runs == {run \in days \X days : run[1] <= run[2] /\ run[1]..run[2] \subseteq days}
            lengths == {run[2] - run[1] + 1 : run \in runs}
            current == {run[2] - run[1] + 1 : run \in {r \in runs : r[2] \in {today, today - 1}
                                                             /\ r[2] = Max(days)}}
            streaks == CalculateStreaks(done)
        IN  /\ streaks.longestStreak = Max(lengths \cup {0})
            /\ streaks.currentStreak = Max(current \cup {0})

(* The changes lead from the first point to the last, a direction is only  *)
(* given when the values do not all go the other way, and a forecast lies  *)
(* among the values it is made from and after them.                        *)
TrendsFollowData ==
    \A t \in {AnalyzeTrend(metric, tasks, [NormalizeTimeRange(NoDates)
                                                EXCEPT !.granularity = granularity]) :
                 metric \in {"creations", "completions"}, granularity \in {"day", "week"}} :
        LET n == Len(t.data)
            values == Values(t.data)
        IN  /\ \A k \in 1..(n - 1) : t.data[k].date < t.data[k + 1].date
            /\ n > 0 => values[1] + Total([k \in 1..n |-> t.data[k].change]) = values[n]
            /\ (\A k \in 1..(n - 1) : values[k] <= values[k + 1]) => t.trend # "decreasing"
            /\ (\A k \in 1..(n - 1) : values[k] >= values[k + 1]) => t.trend # "increasing"
            /\ t.trendStrength \in 0..100
            /\ \A k \in DOMAIN t.forecast :
                  /\ t.forecast[k].value \in Min(Range(values))..Max(Range(values))
                  /\ t.forecast[k].date > t.data[n].date

(* The rank of a user agrees with the number of tasks completed: those who *)
(* completed something have the ranks from one on, in the order of their   *)
(* numbers, and rank zero means none.                                      *)
RanksFollowCompletions ==
    LET completed(u) == CountOf(With(tasks, "DONE"), u)
        ranked == {u \in Users : completed(u) > 0}
    IN  /\ {RankOf(tasks, u) : u \in ranked} = 1..Cardinality(ranked)
        /\ \A u, v \in ranked : completed(u) > completed(v) => RankOf(tasks, u) < RankOf(tasks, v)
        /\ \A u \in Users \ ranked : RankOf(tasks, u) = 0
        /\ \A u \in ranked : GetUserAnalytics(tasks, u).percentile \in 0..9999

(* Every user with a task is in one cohort, that of the week of the first, *)
(* and nobody in it did anything before that week.                         *)
CohortsPartitionUsers ==
    LET cohorts == AnalyzeCohorts(tasks)
    IN  /\ SumOver([w \in DOMAIN cohorts |-> cohorts[w].userCount]) = Cardinality(UsersOf(tasks))
        /\ \A w \in DOMAIN cohorts : \A n \in DOMAIN tasks :
              tasks[n].user \in CohortOf(tasks, w) => w <= tasks[n].createdAt
        /\ \A w \in DOMAIN cohorts :
              \A k \in 0..4 : cohorts[w].retention[k] \in 0..100

(* Scores are percentages.  The collaboration of several users who have    *)
(* the same number of tasks is complete, and that of one alone is nothing. *)
CollaborationMeansEvenness ==
    LET workload == WorkloadDistribution(tasks)
    IN  /\ CalculateCollaborationScore(tasks) \in 0..100
        /\ (\A u, v \in DOMAIN workload : workload[u] = workload[v])
              => CalculateCollaborationScore(tasks) = IF Alone(tasks) THEN 0 ELSE 100
        /\ \A u \in Users : CalculateProductivityScore(tasks, u) \in 0..100

(* DataAggregator: groups add up to the whole, a running total ends with   *)
(* the sum, a moving average stays within its values, and a percentile is  *)
(* the nearest rank, the least value with that share at or below it.       *)
AggregatesAgree ==
    LET ages == [n \in DOMAIN tasks |-> today - tasks[n].createdAt]
        users == [n \in DOMAIN tasks |-> tasks[n].user]
        statuses == [n \in DOMAIN tasks |-> tasks[n].status]
        groups == Aggregate(users, ages)
        pivot == Pivot(users, statuses, ages, "count")
        share(vs, test(_)) == Len(SelectSeq(vs, test))
    IN  /\ SumOver([u \in DOMAIN groups |-> groups[u].sum]) = Total(ages)
        /\ \A u \in DOMAIN groups : SumOver(pivot[u]) = groups[u].count
        /\ tasks # <<>> => Last(RunningTotal(ages)) = Total(ages)
        /\ \A n \in DOMAIN tasks : \A avg \in {MovingAverage(ages, 2)[n]} :
              LessEq(<<Min(Range(ages)), 1>>, avg) /\ LessEq(avg, <<Max(Range(ages)), 1>>)
        /\ tasks # <<>> => \A p \in {1, 34, 50, 67, 100} :
              /\ 100 * share(ages, LAMBDA v : v <= Percentile(ages, p)) >= p * Len(ages)
              /\ 100 * share(ages, LAMBDA v : v < Percentile(ages, p)) < p * Len(ages)
        /\ Variance(ages)[1] >= 0

(* Whatever the list of tasks, the figures of the pages agree with it and  *)
(* with each other.                                                        *)
FiguresAgree ==
    /\ TypeOK /\ DashboardAgrees /\ FunnelNarrows /\ StreaksAreRuns /\ TrendsFollowData
    /\ RanksFollowCompletions /\ CohortsPartitionUsers /\ CollaborationMeansEvenness
    /\ AggregatesAgree

=============================================================================
