------------------------------ MODULE Reports -------------------------------
(***************************************************************************)
(* Usage, project and report: what the sessions of a scope add up to.  A   *)
(* session has the name of its model (the sequence of its parts, <<>> when *)
(* none is recorded), its project, the messages its list entry counts, the *)
(* messages a load finds (Unreadable when it fails) and its token counts   *)
(* (NoUsage when it has none).  Counters are of the width `words`: they    *)
(* are below `words` and += wraps at it.  Rates are whole amounts per      *)
(* token, projects numbers in the order of their names.  Rounding,         *)
(* provider buckets (grouped like the others), decisions and todos are     *)
(* left out.                                                               *)
(***************************************************************************)
EXTENDS Threads

NoUsage == [input |-> 0, output |-> 0, cached |-> 0, none |-> TRUE]
Unreadable == -1
NoCost == [known |-> FALSE, usd |-> 0]
Cost(usd) == [known |-> TRUE, usd |-> usd]

\* The sum of f over a set of positions.
SumOf(S, f) ==
    LET last == CHOOSE n \in S \cup {0} : \A i \in S : i <= n
        total[n \in 0 .. last] ==
            IF n = 0 THEN 0 ELSE total[n - 1] + (IF n \in S THEN f[n] ELSE 0)
    IN  total[last]

Saturated(n, words) == IF n < words THEN n ELSE words - 1
Limited(rows, limit) == IF limit > 0 /\ Len(rows) > limit THEN SubSeq(rows, 1, limit) ELSE rows

\* The rate of the longest prefix of the model's name in the table.
PricingFor(prices, model) ==
    LET fits == {p \in DOMAIN prices : IsPrefix(p, model)}
    IN  IF fits = {} THEN NoCost
        ELSE Cost(prices[CHOOSE p \in fits : \A q \in fits : Len(q) <= Len(p)])

CostOf(sessions, S, prices) ==
    LET rate == [i \in S |-> PricingFor(prices, sessions[i].model)]
        Tokens(i) == sessions[i].usage.input + sessions[i].usage.output
                        + sessions[i].usage.cached
    IN  IF \E i \in S : ~rate[i].known THEN NoCost
        ELSE Cost(SumOf(S, [i \in S |-> rate[i].usd * Tokens(i)]))

-----------------------------------------------------------------------------
(* `aghist usage`.                                                         *)

\* The counters wrap, their total saturates, and every session needs a price.
Bucket(sessions, S, prices, words) ==
    LET input == SumOf(S, [i \in S |-> sessions[i].usage.input]) % words
        output == SumOf(S, [i \in S |-> sessions[i].usage.output]) % words
        cached == SumOf(S, [i \in S |-> sessions[i].usage.cached]) % words
    IN  [sessions |-> Cardinality(S),
         messages |-> SumOf(S, [i \in S |-> sessions[i].listed]),
         total |-> Saturated(input + output + cached, words),
         cost |-> CostOf(sessions, S, prices)]

BucketKey(session, by) == IF by = "project" THEN session.project ELSE session.model

UsageRow(sessions, key, by, prices, words) ==
    LET S == {i \in DOMAIN sessions : BucketKey(sessions[i], by) = key}
    IN  [key |-> key, row |-> Bucket(sessions, S, prices, words)]

\* Heaviest first, by key where they tie.
Heavier(rows) ==
    {p \in rows \X rows : \/ p[1].row.total > p[2].row.total
                          \/ p[1].row.total = p[2].row.total /\ p[1].key < p[2].key}

Aggregate(sessions, by, prices, words) ==
    LET keys == {BucketKey(sessions[i], by) : i \in DOMAIN sessions}
        rows == {UsageRow(sessions, k, by, prices, words) : k \in keys}
    IN  [rows |-> InOrder(rows, Heavier(rows)),
         totals |-> Bucket(sessions, DOMAIN sessions, prices, words)]

\* The limit (at least one) cuts the rows and never the totals.
UsageCommand(sessions, by, prices, words, limit) ==
    LET report == Aggregate(sessions, by, prices, words)
    IN  [exit |-> IF report.rows = <<>> THEN "EMPTY" ELSE "OK",
         rows |-> Limited(report.rows, limit), allRows |-> Len(report.rows), totals |-> report.totals]

-----------------------------------------------------------------------------
(* `aghist project` and `aghist report`, over the sessions whose messages  *)
(* load; the others are warned about and counted nowhere.                  *)

Loadable(sessions, S) == {i \in S : sessions[i].loaded # Unreadable}

\* The counters saturate; sessions without token counts need no price.
AggregateTokens(sessions, S, prices, words) ==
    LET used == {i \in S : sessions[i].usage # NoUsage}
        input == Saturated(SumOf(used, [i \in used |-> sessions[i].usage.input]), words)
        output == Saturated(SumOf(used, [i \in used |-> sessions[i].usage.output]), words)
        cached == Saturated(SumOf(used, [i \in used |-> sessions[i].usage.cached]), words)
    IN  [total |-> Saturated(input + output + cached, words),
         cost |-> CostOf(sessions, used, prices)]

Activity(sessions, S, prices, words) ==
    [sessions |-> Cardinality(S),
     messages |-> SumOf(S, [i \in S |-> sessions[i].loaded]),
     tokens |-> AggregateTokens(sessions, S, prices, words)]

\* The busiest first: by messages, by sessions, by name.
Busier(rows) ==
    {p \in rows \X rows :
        \/ p[1].row.messages > p[2].row.messages
        \/ /\ p[1].row.messages = p[2].row.messages
           /\ \/ p[1].row.sessions > p[2].row.sessions
              \/ p[1].row.sessions = p[2].row.sessions /\ p[1].project < p[2].project}

ProjectRow(sessions, S, project, prices, words) ==
    [project |-> project,
     row |-> Activity(sessions, {i \in S : sessions[i].project = project}, prices, words)]

TopProjects(sessions, S, prices, words, limit) ==
    LET rows == {ProjectRow(sessions, S, sessions[i].project, prices, words) : i \in S}
        sorted == InOrder(rows, Busier(rows))
    IN  [all |-> Len(sorted), rows |-> Limited(sorted, limit)]

\* The threads of the sessions S, in the order of the discovery.
ThreadsOf(sessions, S, gap) ==
    Cluster(Picked(sessions, S), gap, 1)

\* The dashboard of a project, without its decisions, todos, files and hours.
Dashboard(sessions, S, prices, words, gap, limit) ==
    LET threads == ThreadsOf(sessions, S, gap)
    IN  [activity |-> Activity(sessions, S, prices, words),
         allThreads |-> Len(threads), threads |-> Limited(threads, limit)]

\* It covers the projects whose name contains the query.
ProjectCommand(sessions, matching, prices, words, gap, limit) ==
    LET S == Loadable(sessions, {i \in DOMAIN sessions : sessions[i].project \in matching})
    IN  [exit |-> IF S = {} THEN "EMPTY" ELSE "OK",
         report |-> Dashboard(sessions, S, prices, words, gap, limit)]

Report(sessions, S, prices, words, gap, limit) ==
    LET projects == TopProjects(sessions, S, prices, words, limit)
        threads == ThreadsOf(sessions, S, gap)
    IN  [activity |-> Activity(sessions, S, prices, words),
         allProjects |-> projects.all, projects |-> projects.rows,
         allThreads |-> Len(threads), threads |-> Limited(threads, limit)]

\* It covers the sessions started in the window, its bounds included; a window
\* that ends before it starts is refused.
ReportCommand(sessions, from, to, prices, words, gap, limit) ==
    LET S == Loadable(sessions, {i \in DOMAIN sessions :
                                    sessions[i].start >= from /\ sessions[i].start <= to})
    IN  [exit |-> IF to < from THEN "USAGE" ELSE IF S = {} THEN "EMPTY" ELSE "OK",
         report |-> Report(sessions, S, prices, words, gap, limit)]

-----------------------------------------------------------------------------
(* What they promise, as long as no counter reaches its width.             *)

\* The costs of the parts: unknown as soon as one is.
CostsAddUp(parts, whole) ==
    /\ whole.known <=> \A k \in DOMAIN parts : parts[k].known
    /\ whole.known => whole.usd = SumOf(DOMAIN parts, [k \in DOMAIN parts |-> parts[k].usd])

PartsAddUp(parts, whole) == whole = SumOf(DOMAIN parts, parts)

\* The rows of the usage report add up to its totals, whatever the limit cuts.
UsageAddsUp(sessions, by, prices, words) ==
    LET usage == Aggregate(sessions, by, prices, words)
        row == [k \in DOMAIN usage.rows |-> usage.rows[k].row]
    IN  /\ PartsAddUp([k \in DOMAIN row |-> row[k].sessions], usage.totals.sessions)
        /\ PartsAddUp([k \in DOMAIN row |-> row[k].messages], usage.totals.messages)
        /\ PartsAddUp([k \in DOMAIN row |-> row[k].total], usage.totals.total)
        /\ CostsAddUp([k \in DOMAIN row |-> row[k].cost], usage.totals.cost)
        /\ \A limit \in 1 .. 2 :
            UsageCommand(sessions, by, prices, words, limit).totals = usage.totals

\* The projects of a report add up to its headline.
ReportAddsUp(sessions, from, to, prices, words) ==
    LET command == ReportCommand(sessions, from, to, prices, words, 1, 0)
        report == command.report
        whole == report.activity
        row == [k \in DOMAIN report.projects |-> report.projects[k].row]
    IN  command.exit = "OK" =>
            /\ PartsAddUp([k \in DOMAIN row |-> row[k].sessions], whole.sessions)
            /\ PartsAddUp([k \in DOMAIN row |-> row[k].messages], whole.messages)
            /\ PartsAddUp([k \in DOMAIN row |-> row[k].tokens.total], whole.tokens.total)
            /\ CostsAddUp([k \in DOMAIN row |-> row[k].tokens.cost], whole.tokens.cost)

\* A project's dashboard and its row of the usage report agree on tokens and cost
\* when every session loads, but for the cost of a session that has no token
\* counts and a model without a price: `usage` drops the cost, `project` keeps it.
UsageAndProjectAgree(sessions, project, prices, words) ==
    LET S == {i \in DOMAIN sessions : sessions[i].project = project}
        row == UsageRow(sessions, project, "project", prices, words).row
        tokens == ProjectCommand(sessions, {project}, prices, words, 1, 0).report.activity.tokens
        unpriced == \E i \in S : /\ sessions[i].usage = NoUsage
                                 /\ ~PricingFor(prices, sessions[i].model).known
    IN  S = Loadable(sessions, S) =>
            /\ row.total = tokens.total
            /\ (row.cost = tokens.cost) <=> ~unpriced \/ ~tokens.cost.known

\* A full counter: `project` and `report` never show less than the tokens of a
\* part; `usage` may, since its counters wrap.
WiderNeverShrinks(sessions, S, T, prices, words) ==
    S \subseteq T => AggregateTokens(sessions, S, prices, words).total
                        <= AggregateTokens(sessions, T, prices, words).total
=============================================================================
