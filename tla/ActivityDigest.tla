--------------------------- MODULE ActivityDigest ---------------------------
(***************************************************************************)
(* What the activity page tells of the last 24 hours (ActivityPage.tsx): the *)
(* facts counted over the requests, the lines of the daily digest and the    *)
(* two that are shown, the latency percentiles, and the flow from pools over *)
(* accounts to models.  A request is one of a few kinds; today counts those  *)
(* of the last 24 hours, former keeps of the day before what the digest      *)
(* compares: whether there were enough requests, and their p95.              *)
(***************************************************************************)
EXTENDS Naturals, FiniteSets

CONSTANTS MinSamples,   \* DIGEST_MIN_SAMPLES
          TallyBound    \* bound: requests of each kind in a day

ASSUME MinSamplesAssumption == MinSamples \in Nat

VARIABLES today, former

digestVars == <<today, former>>

\* ok, attempts, pool, account (0: none was chosen), model, latency, hour
LogKinds == {"plain", "saved", "refused", "err1", "err2"}

Trait == [
  plain   |-> [ok |-> TRUE,  att |-> 1, pool |-> 1, acct |-> 1, model |-> "a",
               ms |-> 900,  hour |-> 9],
  saved   |-> [ok |-> TRUE,  att |-> 2, pool |-> 2, acct |-> 2, model |-> "b",
               ms |-> 9000, hour |-> 14],
  refused |-> [ok |-> FALSE, att |-> 0, pool |-> 1, acct |-> 0, model |-> "b",
               ms |-> 0,    hour |-> 9],
  err1    |-> [ok |-> FALSE, att |-> 1, pool |-> 1, acct |-> 1, model |-> "a",
               ms |-> 500,  hour |-> 14],
  err2    |-> [ok |-> FALSE, att |-> 2, pool |-> 1, acct |-> 2, model |-> "a",
               ms |-> 500,  hour |-> 14]]

Among(day, K, k) == IF k \in K THEN day[k] ELSE 0

TallyOf(day, K) ==
  Among(day, K, "plain") + Among(day, K, "saved") + Among(day, K, "refused")
    + Among(day, K, "err1") + Among(day, K, "err2")

Most(S) == CHOOSE x \in S : \A y \in S : x >= y

\* percentile(): the value of rank floor((n - 1) * p / 100) of the latencies of
\* the successful requests, in ascending order.
Latencies(day) == {k \in LogKinds : Trait[k].ok /\ day[k] > 0}
UpTo(day, ms) == TallyOf(day, {k \in Latencies(day) : Trait[k].ms <= ms})

Percentile(day, p) ==
  LET n == TallyOf(day, Latencies(day))
      rank == ((n - 1) * p) \div 100
  IN IF n = 0 THEN 0
     ELSE CHOOSE ms \in {Trait[k].ms : k \in Latencies(day)} :
            /\ UpTo(day, ms) > rank
            /\ \A k \in Latencies(day) : UpTo(day, Trait[k].ms) > rank => ms <= Trait[k].ms

\* computeDigestFacts.  The largest group of a field, for the concentration
\* lines and the busiest hour.
Largest(day, field) ==
  Most({TallyOf(day, {k \in LogKinds : Trait[k][field] = v}) : v \in {Trait[k][field] : k \in LogKinds}})

computeDigestFacts(day, prev) ==
  LET total == TallyOf(day, LogKinds)
      failed == TallyOf(day, {k \in LogKinds : ~Trait[k].ok})
  IN [total |-> total, failed |-> failed, success |-> total - failed,
      refused |-> TallyOf(day, {k \in LogKinds : ~Trait[k].ok /\ Trait[k].att = 0}),
      saved |-> TallyOf(day, {k \in LogKinds : Trait[k].ok /\ Trait[k].att > 1}),
      p95 |-> Percentile(day, 95), prevP95 |-> prev.p95, prevEnough |-> prev.enough,
      pool |-> Largest(day, "pool"), model |-> Largest(day, "model"),
      hour |-> Largest(day, "hour")]

\* The seven builders: each gives no line or one, with its priority.
Line(key, prio) == {[key |-> key, prio |-> prio]}

buildRouteRejectedLine(f) == IF f.refused = 0 THEN {} ELSE Line("route-rejected", 100)

Tone(f) == IF f.success * 100 >= 98 * f.total THEN "green"
           ELSE IF f.success * 10 >= 9 * f.total THEN "yellow" ELSE "red"

\* Faulty variant: a rate in the red is told like one in the yellow.
buildSuccessRateLine_Low(f) ==
  IF f.total < MinSamples THEN {}
  ELSE Line("success-rate", [green |-> 40, yellow |-> 60, red |-> 60][Tone(f)])

buildSuccessRateLine(f) ==
  IF f.total < MinSamples THEN {}
  ELSE Line("success-rate", [green |-> 40, yellow |-> 60, red |-> 95][Tone(f)])

buildTopErrorLine(f) == IF f.failed < 2 THEN {} ELSE Line("top-error", 70)

buildLatencyLine(f) ==
  IF f.p95 >= 8000 THEN Line("latency", 50)
  ELSE IF f.p95 > 0 /\ f.prevP95 > 0 /\ f.prevEnough
          /\ 10 * f.p95 < 8 * f.prevP95
       THEN Line("latency", 30) ELSE {}

buildConcentrationLine(f) ==
  IF 10 * f.pool >= 6 * f.total THEN Line("concentration", 25)
  ELSE IF 10 * f.model >= 6 * f.total THEN Line("concentration", 20) ELSE {}

buildBusyHourLine(f) == IF 10 * f.hour < 4 * f.total THEN {} ELSE Line("busy-hour", 15)

buildRetriesLine(f) == IF f.saved = 0 THEN {} ELSE Line("retries", 10)

Candidates(f) ==
  UNION {buildRouteRejectedLine(f), buildSuccessRateLine(f), buildTopErrorLine(f),
         buildLatencyLine(f), buildConcentrationLine(f), buildBusyHourLine(f),
         buildRetriesLine(f)}

\* DailyDigest: the line of the volume, then the two candidates that matter most.
DailyDigest(f) ==
  IF f.total = 0 THEN {"idle"}
  ELSE {"volume"} \cup
       {c.key : c \in {x \in Candidates(f) :
                         Cardinality({y \in Candidates(f) : y.prio > x.prio}) < 2}}

\* SankeyDiagram: the nodes' counts and the links' over the requests that were
\* sent to an account; the rest is only counted.
Routed == {k \in LogKinds : Trait[k].acct > 0}
NodeValue(day, field, v) == TallyOf(day, {k \in Routed : Trait[k][field] = v})

LinkValue(day, f, v, g, w) ==
  TallyOf(day, {k \in Routed : Trait[k][f] = v /\ Trait[k][g] = w})
excludedUnrouted(day) == TallyOf(day, LogKinds \ Routed)
NodesOf(field) == {Trait[k][field] : k \in Routed}

NoTally == [k \in LogKinds |-> 0]

QuietDay == [enough |-> FALSE, p95 |-> 0]

DigestInit == today = NoTally /\ former = QuietDay

RequestEnds(k) ==
  /\ today[k] < TallyBound[k]
  /\ today' = [today EXCEPT ![k] = @ + 1]
  /\ UNCHANGED former

\* The window moves on by a day.
DayPasses ==
  /\ today # NoTally
  /\ former' = [enough |-> TallyOf(today, LogKinds) >= MinSamples, p95 |-> Percentile(today, 95)]
  /\ today' = NoTally

DigestNext == (\E k \in LogKinds : RequestEnds(k)) \/ DayPasses
DigestSpec == DigestInit /\ [][DigestNext]_digestVars

-----------------------------------------------------------------------------
(* Properties *)

\* Requests that the router refused, and a success rate in the red, are always
\* told, whatever else there is to tell.
AlarmsAreShown ==
  LET facts == computeDigestFacts(today, former)
      told == DailyDigest(facts)
  IN /\ facts.refused > 0 => "route-rejected" \in told
     /\ facts.total >= MinSamples /\ Tone(facts) = "red" => "success-rate" \in told
     /\ Cardinality(told) <= 3

\* The p95 is slow only if at least one request in twenty is, and is slow as soon
\* as one in twenty is, one request more or less.
PercentileIsTail ==
  LET n == TallyOf(today, Latencies(today))
      slow == n - UpTo(today, 7999)
      p95 == Percentile(today, 95)
  IN /\ p95 >= 8000 => 20 * slow >= n
     /\ 20 * slow >= n + 20 => p95 >= 8000
     /\ Percentile(today, 50) <= p95 /\ p95 <= Percentile(today, 99)

\* What flows into an account flows out of it, each column adds up to the same
\* number, and that number and the excluded requests are all requests.
FlowIsConserved ==
  /\ \A a \in NodesOf("acct") :
       /\ NodeValue(today, "acct", a)
            = LinkValue(today, "pool", 1, "acct", a) + LinkValue(today, "pool", 2, "acct", a)
       /\ NodeValue(today, "acct", a)
            = LinkValue(today, "acct", a, "model", "a") + LinkValue(today, "acct", a, "model", "b")
  /\ \A column \in {<<"pool", 1, 2>>, <<"acct", 1, 2>>, <<"model", "a", "b">>} :
       NodeValue(today, column[1], column[2]) + NodeValue(today, column[1], column[3])
         + excludedUnrouted(today) = TallyOf(today, LogKinds)

\* The numbers of the activity page fit the log: alarms are told, percentiles are
\* percentiles, and the flow diagram loses no request.
DigestIsTrue ==
  /\ AlarmsAreShown
  /\ PercentileIsTail
  /\ FlowIsConserved

=============================================================================
