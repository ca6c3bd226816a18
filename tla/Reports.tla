------------------------------- MODULE Reports -------------------------------
(***************************************************************************)
(* The analytics queries of internal/store, which read domain_stats or     *)
(* request_log, over any state of Rollup.  A time is a whole hour and a    *)
(* limit keeps the first rows, any of equal ones.                          *)
(***************************************************************************)
EXTENDS Rollup

CONSTANTS
  Limit,        \* rows a report shows (20)
  HoursPerDay   \* (24)

ASSUME ReportsAssumption == Limit \in Nat \ {0} /\ HoursPerDay \in Nat \ {0}

\* ORDER BY hits DESC LIMIT n: what may be left of the groups and their values.
FirstBy(value) ==
  {Restrict(value, T) : T \in
     {T \in SUBSET DOMAIN value :
        /\ Cardinality(T) = IF Cardinality(DOMAIN value) < Limit
                            THEN Cardinality(DOMAIN value) ELSE Limit
        /\ \A x \in T, y \in DOMAIN value \ T : value[x] >= value[y]}}

\* The rows of domain_stats of a domain from one time to another.
Buckets(d, since, until) ==
  {h \in Hours : since <= h /\ h <= until /\ stats[<<d, h>>] # NoStats}

StatHits(d, since, until) ==
  Total([h \in Buckets(d, since, until) |-> stats[<<d, h>>].hits])

InStats(since) == {d \in Domains : Buckets(d, since, LastHour) # {}}

AnalyticsSummary(since) ==
  FirstBy([d \in InStats(since) |-> StatHits(d, since, LastHour)])

\* The bucket an hour is shown in.
Trunc(h, granularity) ==
  CASE granularity = "daily" -> h \div HoursPerDay
    [] granularity = "weekly" -> h \div (7 * HoursPerDay)
    [] granularity = "hourly" -> h

AnalyticsDomainTraffic(d, since, until, granularity) ==
  [b \in {Trunc(h, granularity) : h \in Buckets(d, since, until)} |->
     Total([h \in {x \in Buckets(d, since, until) : Trunc(x, granularity) = b} |->
              stats[<<d, h>>].hits])]

LogCount(d, p, since) == Total([h \in {x \in Hours : x >= since} |-> log[<<d, h>>][p]])

PathsSince(d, since) == {p \in Paths : LogCount(d, p, since) > 0}

AnalyticsDomainPaths(d, since) ==
  FirstBy([p \in PathsSince(d, since) |-> LogCount(d, p, since)])

\* All domains are enabled here; days is given as hours.
AnalyticsInactive(hours) == {d \in Domains : PathsSince(d, hour - hours) = {}}

\* Mutant: bucket <= midpoint in the second sum.
TrendTwice(d, since, midpoint) ==
  StatHits(d, IF midpoint > since THEN midpoint ELSE since, LastHour)
    - StatHits(d, since, midpoint)

\* The second half of the time since then against the first half.
Trend(d, since, midpoint) ==
  StatHits(d, IF midpoint > since THEN midpoint ELSE since, LastHour)
    - StatHits(d, since, midpoint - 1)

AnalyticsTrending(since) ==
  LET midpoint == hour - (hour - since) \div 2
  IN  FirstBy([d \in InStats(since) |-> Trend(d, since, midpoint)])

Exported(d, since) == Total([p \in Paths |-> LogCount(d, p, since)])

-----------------------------------------------------------------------------

\* Reports about the same time that are read together agree.  A domain has no
\* more hits in the summary than exported rows, nor than its paths have if all
\* of them are shown, and none of the inactive domains has any; its traffic, at
\* whatever granularity, adds up to its summary, and its trend is what the traffic
\* of the later half of the time has more than that of the earlier half, each
\* hour counted once (store.go:777), so no more than the summary.
ReportsAgree ==
  \A since \in 0..hour :
    /\ \A summary \in AnalyticsSummary(since) : \A d \in DOMAIN summary :
         /\ summary[d] <= Exported(d, since)
         /\ \A paths \in AnalyticsDomainPaths(d, since) :
              Cardinality(Paths) <= Limit => summary[d] <= Total(paths)
         /\ d \in AnalyticsInactive(hour - since) => summary[d] = 0
         /\ \A g \in {"hourly", "daily", "weekly"} :
              Total(AnalyticsDomainTraffic(d, since, hour, g)) = summary[d]
    /\ \A trends \in AnalyticsTrending(since) : \A d \in DOMAIN trends :
         LET hits == StatHits(d, since, LastHour)
             half == hour - (hour - since) \div 2
             Traffic(from, to) == Total(AnalyticsDomainTraffic(d, from, to, "hourly"))
         IN  /\ trends[d] \in -hits..hits
             /\ trends[d] = Traffic(half, hour) - Traffic(since, half - 1)
=============================================================================
