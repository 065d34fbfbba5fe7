----------------------------- MODULE Performance -----------------------------
(***************************************************************************)
(* `baseline` and `regression` (performance/engine.py, stats.py, slo.py,   *)
(* curve.py, profiles.py, cli/commands/runtime.py): a run measures every   *)
(* operation a fixed number of times and is compared with budgets, with    *)
(* the objectives of the contract and with a stored run; --shape drives    *)
(* one operation at the times its load profile names, from a pool of       *)
(* threads.                                                                *)
(*                                                                         *)
(* Times are whole numbers: milliseconds of a measurement, ticks of a      *)
(* load run (TicksPerSlot of them in one scheduling step).  p50 and p95    *)
(* stand for the four percentiles; sizes and throughput are left out.      *)
(***************************************************************************)
EXTENDS Integers, Sequences, TLC, Combinatorics, FiniteSetsExt

CONSTANTS None,
          Contracts,    \* [ops, objectives]: objectives is operation -> [name -> value]
          Targets,      \* what the target may be like: operation -> samples, a sequence of [ms, outcome]
          Older,        \* baselines earlier versions wrote: operation -> stats
          Tolerances,   \* the --tolerance values of the command lines
          Policies,     \* the --policy sets: [op, metric, value]
          Warmup,       \* requests made and not measured
          Profiles,     \* load profiles: [kind, slots, from, to, spike, multiplier, poisson]
          PoolSize,     \* the threads of a load run
          TicksPerSlot, MaxBurst, MaxClock, MaxCommands   \* bounds

VARIABLES stored,   \* the baseline file: operation -> stats, or None
          ended,    \* the command that ended last: [command, exit, report], or None
          load,     \* the load run that is going on, or None
          clock, commands

vars == <<stored, ended, load, clock, commands>>

-----------------------------------------------------------------------------
(* Statistics (stats.py). *)

Percentiles == [p50 |-> 50, p95 |-> 95]
Metrics == {"p50", "p95", "error_rate"}

\* Nearest rank: the smallest sample that pct percent do not exceed.
Rank(n, pct) == CHOOSE r \in 1..n : 100 * r >= n * pct /\ (r = 1 \/ 100 * (r - 1) < n * pct)

Ordered(samples) == SortSeq(samples, LAMBDA a, b : a < b)
Percentile(samples, pct) == IF samples = <<>> THEN 0 ELSE Ordered(samples)[Rank(Len(samples), pct)]

\* Of the n^n resamples of n samples, those whose r-th smallest is at most the
\* k-th smallest sample: at least r of the draws are among the first k.
ResamplesWithin(n, r, k) ==
  IF k = n THEN n^n
  ELSE MapThenSumSet(LAMBDA j : choose(n, j) * k^j * (n - k)^(n - j), r..n)

\* Where 95% of the resampled percentiles are.  Too few samples say nothing.
PercentileInterval(samples, pct) ==
  LET n == Len(samples)
      quantile(permille) ==
        Ordered(samples)[CHOOSE k \in 1..n :
          /\ 1000 * ResamplesWithin(n, Rank(n, pct), k) >= permille * n^n
          /\ \A l \in 1..(k - 1) : 1000 * ResamplesWithin(n, Rank(n, pct), l) < permille * n^n]
  IN IF n < 4 THEN None ELSE <<quantile(25), quantile(975)>>

\* Wilson's interval in whole percents: the rates from which what was seen is
\* less than 1.96 standard deviations away.
RateInterval(failed, n) ==
  LET off(p) == 100 * failed - n * p
      within == { p \in 0..100 : 10000 * off(p) * off(p) <= 38415 * n * p * (100 - p) }
  IN <<Min(within), Max(within)>>

Overlaps(a, b) == a[1] <= b[2] /\ b[1] <= a[2]

-----------------------------------------------------------------------------
(* One run (engine.py). *)

\* What is kept of the requests that were measured; the warm-up is only counted.  The error
\* rate is kept in whole percents here, to four decimals in the code.
Stats(samples) ==
  LET count(outcomes) == Cardinality({ i \in DOMAIN samples : samples[i].outcome \in outcomes })
      n == Len(samples)
      ms == [i \in DOMAIN samples |-> samples[i].ms]
      failed == count({"error", "unreachable", "timeout"})
  IN [requests |-> n + Warmup, samples |-> n, errors |-> count({"error", "unreachable"}),
      timeouts |-> count({"timeout"}), unreachable |-> count({"unreachable"}),
      value |-> [m \in Metrics |-> IF m = "error_rate" THEN (100 * failed) \div n
                                   ELSE Percentile(ms, Percentiles[m])],
      ci |-> [m \in Metrics |-> IF m = "error_rate" THEN RateInterval(failed, n)
                                ELSE PercentileInterval(ms, Percentiles[m])]]

Measure(c, t) == [op \in c.ops |-> Stats(t[op])]

NothingAnswered(report) ==
  DOMAIN report # {} /\ \A op \in DOMAIN report : report[op].unreachable = report[op].samples

\* --policy: a budget for one metric of one operation.  Its error rate is of all
\* requests, the unmeasured warm-up included.
Violations(report, policies) ==
  { p \in policies :
      \/ p.op \notin DOMAIN report
      \/ LET stats == report[p.op]
         IN IF p.metric = "error_rate"
            THEN 100 * (stats.errors + stats.timeouts) > p.value * stats.requests
            ELSE stats.value[p.metric] > p.value }

\* --tolerance: the last bare number for every metric, the last assignment for its own.
Tolerance(args) ==
  [m \in Metrics |->
     LET given == { i \in DOMAIN args : args[i].metric = m }
         bare == { i \in DOMAIN args : args[i].metric = None }
     IN IF given # {} THEN args[Max(given)].pct ELSE IF bare # {} THEN args[Max(bare)].pct ELSE 20]

Understood(args) == \A i \in DOMAIN args : args[i].metric \in Metrics \cup {None}

\* Mutant: no ratio from zero, whatever the metric.
Over_FromZero(before, after, m, tolerance) == before > 0 /\ 100 * after > before * (100 + tolerance)

\* An error rate may grow from nothing.
Over(before, after, m, tolerance) ==
  (before > 0 \/ m = "error_rate") /\ 100 * after > before * (100 + tolerance)

\* The metrics over their tolerance, of the operations both runs have; a stored
\* run may lack metrics and intervals.
Moved(now, then, tolerance) ==
  UNION { {op} \X { m \in Metrics \cap DOMAIN then[op].value :
                     Over(then[op].value[m], now[op].value[m], m, tolerance[m]) }
          : op \in DOMAIN now \cap DOMAIN then }

\* A baseline of an earlier version has no interval for a metric.
Interval(stats, m) == IF m \in DOMAIN stats.ci THEN stats.ci[m] ELSE None

Undecided(now, then, tolerance) ==
  { x \in Moved(now, then, tolerance) :
      LET a == Interval(now[x[1]], x[2])
          b == Interval(then[x[1]], x[2])
      IN a # None /\ b # None /\ Overlaps(a, b) }

Regressions(now, then, tolerance) ==
  (Moved(now, then, tolerance) \ Undecided(now, then, tolerance))
  \cup { <<op, "errors">> : op \in { o \in DOMAIN now \cap DOMAIN then :
                                      then[o].errors = 0 /\ now[o].errors > 0 } }

-----------------------------------------------------------------------------
(* Objectives of the contract (slo.py). *)

NotMeasurable == {"availability", "window", "uptime_pct"}

Declaring(c) == { op \in DOMAIN c.objectives : DOMAIN c.objectives[op] # {} }
Objectives(c) == UNION { { <<op, name>> : name \in DOMAIN c.objectives[op] } : op \in Declaring(c) }

\* The objectives themselves, before anything is measured: None is no number.
ObjectiveFindings(c) ==
  { [op |-> o[1], rule |-> "SLO-NOT-MEASURABLE", severity |-> "INFO"] :
      o \in { x \in Objectives(c) : x[2] \in NotMeasurable } }
  \cup { [op |-> o[1], rule |-> "SLO-UNKNOWN-OBJECTIVE", severity |-> "WARN"] :
      o \in { x \in Objectives(c) : x[2] \notin NotMeasurable \cup Metrics } }
  \cup { [op |-> o[1], rule |-> "SLO-MALFORMED", severity |-> "WARN"] :
      o \in { x \in Objectives(c) : x[2] \in Metrics /\ c.objectives[x[1]][x[2]] = None } }
  \cup { [op |-> o, rule |-> "SLO-UNDECLARED", severity |-> "INFO"] :
      o \in IF Declaring(c) = {} THEN {} ELSE c.ops \ Declaring(c) }

\* Nothing was measured, or nothing answered: a time-out is no latency.
Silent(stats) == stats.samples > 0 /\ stats.unreachable + stats.timeouts = stats.samples

\* What one run says about the objectives.
Evaluated(c, report) ==
  { [op |-> o, rule |-> "SLO-NOT-MEASURED", severity |-> "WARN"] :
      o \in { x \in Declaring(c) : x \notin DOMAIN report \/ Silent(report[x]) } }
  \cup { [op |-> o[1], rule |-> "SLO-RUN-EXCEEDS-OBJECTIVE", severity |-> "ERROR"] :
      o \in { x \in Objectives(c) :
                 /\ x[2] \in Metrics /\ c.objectives[x[1]][x[2]] # None
                 /\ x[1] \in DOMAIN report /\ ~Silent(report[x[1]])
                 /\ report[x[1]].value[x[2]] > c.objectives[x[1]][x[2]] } }

-----------------------------------------------------------------------------
(* The shape over several levels of concurrency (curve.py). *)

\* --curve "4,1,x": the levels in order, without those that are none.
Levels(given) ==
  LET swept == given \ {0}
  IN IF given = {} THEN <<1, 2, 4, 8>>
     ELSE CHOOSE s \in [1..Cardinality(swept) -> swept] : \A i, j \in DOMAIN s : i < j => s[i] < s[j]

Usable(points) == SelectSeq(points, LAMBDA p : p.samples > 0)

\* The first level whose p95 is twice that of the lowest.
Knee(points) ==
  LET u == Usable(points)
      late == { i \in 2..Len(u) : u[1].p95 > 0 /\ u[i].p95 >= 2 * u[1].p95 }
  IN IF late = {} THEN None ELSE u[CHOOSE i \in late : \A k \in late : i <= k].level

\* The last level before throughput rises by less than a tenth.
Plateau(points) ==
  LET u == Usable(points)
      flat == { i \in 1..(Len(u) - 1) : u[i].rps > 0 /\ 10 * u[i + 1].rps < 11 * u[i].rps }
  IN IF flat = {} THEN None ELSE u[CHOOSE i \in flat : \A k \in flat : i <= k].level

\* A plateau at the highest level swept is the client's.
ClientBound(points, levels) == Plateau(points) # None /\ Plateau(points) = levels[Len(levels)]

\* One measurement per level; an operation has a point where it was measured.
MeasureCurve(levels, at) ==
  LET points(op) ==
        LET having == SelectSeq(levels, LAMBDA l : op \in DOMAIN at[l])
        IN [i \in DOMAIN having |-> [level |-> having[i], samples |-> at[having[i]][op].samples,
                                     p95 |-> at[having[i]][op].p95, rps |-> at[having[i]][op].rps]]
  IN [op \in UNION { DOMAIN at[l] : l \in Range(levels) } |->
        [points |-> points(op), plateau |-> Plateau(points(op)), knee |-> Knee(points(op)),
         clientBound |-> ClientBound(points(op), levels)]]

\* What is said of the shape: a knee is only told beside a plateau.
Summary(curve) ==
  IF curve.points = <<>> THEN "nothing"
  ELSE IF curve.plateau = None THEN "rising"
  ELSE IF curve.clientBound THEN "client"
  ELSE IF curve.knee = None THEN "level" ELSE "level and slow"

-----------------------------------------------------------------------------
(* baseline and regression. *)

OK == 0
FINDINGS == 1
USAGE == 2
UNREACHABLE == 3

Ended(command, exit, report) == [command |-> command, exit |-> exit, report |-> report]

Baseline(report) ==
  LET exit == IF NothingAnswered(report) THEN UNREACHABLE ELSE OK
  IN /\ stored' = IF exit = OK THEN report ELSE stored
     /\ ended' = Ended("baseline", exit, report)
     /\ UNCHANGED <<load, clock>>

\* A bad --tolerance ends the command before it measures.  What is undecided is
\* printed and fails nothing.
Regression(c, report, args, policies, slo, compared) ==
  LET objectives == IF slo THEN Evaluated(c, report) ELSE {}
      worse == IF compared THEN Regressions(report, stored, Tolerance(args)) ELSE {}
      exit == IF ~Understood(args) THEN USAGE
              ELSE IF NothingAnswered(report) THEN UNREACHABLE
              ELSE IF \/ Violations(report, policies) # {} \/ worse # {}
                      \/ \E f \in objectives : f.severity = "ERROR"
              THEN FINDINGS ELSE OK
  IN /\ compared => stored # None
     /\ ended' = Ended(IF compared THEN "compared" ELSE "measured", exit, report)
     /\ UNCHANGED <<stored, load, clock>>

-----------------------------------------------------------------------------
(* --shape: requests at the times a profile names (profiles.py). *)

\* Requests in slot k, in hundredths: a ramp rises evenly, a spike multiplies
\* the rate around its place (a percentage of the duration).
Expected(p, k) ==
  LET rate == IF p.to = None THEN p.from ELSE p.from + ((p.to - p.from) * k) \div p.slots
      away == 100 * k - p.spike * p.slots
  IN IF p.kind = "spike" /\ away < 2 * p.slots /\ -away < 2 * p.slots THEN rate * p.multiplier ELSE rate

\* How many requests a slot gets: its share, rounded by a draw, or any number.
Counts(p, k) ==
  LET e == Expected(p, k)
  IN IF e = 0 THEN {0}
     ELSE IF p.poisson THEN 0..MaxBurst
     ELSE IF e % 100 = 0 THEN {e \div 100} ELSE {e \div 100, e \div 100 + 1}

\* The requests of slot k.
InSlot(times, k) == { i \in DOMAIN times : times[i] \div TicksPerSlot = k }

\* A schedule goes slot by slot; the requests of a slot are spread evenly over it.
Schedules(p) ==
  { times \in UNION { [1..n -> 0..(p.slots * TicksPerSlot - 1)] : n \in 0..(p.slots * MaxBurst) } :
      /\ \A i, j \in DOMAIN times : i < j => times[i] <= times[j]
      /\ \A k \in 0..(p.slots - 1) :
           LET slot == InSlot(times, k)
               before(i) == Cardinality({ h \in slot : h < i })
           IN /\ Cardinality(slot) \in Counts(p, k) \cap 0..MaxBurst
              /\ \A i \in slot :
                   times[i] = k * TicksPerSlot + (before(i) * TicksPerSlot) \div Cardinality(slot) }

\* What --shape cannot read it refuses: a ramp names its end, a spike its height.
Understandable(p) == /\ (p.kind = "ramp") <=> (p.to # None)
                     /\ p.kind = "spike" => p.multiplier # None

\* Mutant: what is measured is the wait, not when it ended.
Lateness_Planned(due, woken, now) == IF woken < due THEN 0 ELSE woken - due

\* How far behind its schedule a request was handed over: `woken` is when the
\* dispatcher turned to it, `now` when it went on.
Lateness(due, woken, now) == now - due

StartLoad(p, path, method, mutations) ==
  /\ load = None
  /\ IF ~Understandable(p) \/ path = None \/ (method \notin {"GET", "HEAD", "OPTIONS"} /\ ~mutations)
     THEN ended' = Ended("shape", USAGE, None) /\ UNCHANGED <<load, clock>>
     ELSE \E times \in Schedules(p) :
            /\ clock' = 0
            /\ load' = [due |-> times, late |-> <<>>, woken |-> 0, began |-> <<>>, out |-> {},
                        sent |-> 0, errors |-> 0, crowded |-> {}]
            /\ ended' = None
  /\ UNCHANGED stored

\* The dispatcher hands the next request to the pool, when its time has come or
\* later: an idle thread sends it, otherwise it waits in the pool's queue.
Dispatch ==
  LET r == Len(load.late) + 1
      idle == Cardinality(load.out) < PoolSize
  IN /\ load # None
     /\ r \in DOMAIN load.due /\ load.due[r] <= clock
     /\ load' = [load EXCEPT !.late = Append(@, Lateness(load.due[r], load.woken, clock)),
                             !.woken = clock,
                             !.began = IF idle THEN Append(@, clock) ELSE @,
                             !.out = IF idle THEN @ \cup {r} ELSE @,
                             !.crowded = IF idle THEN @ ELSE @ \cup {r}]
     /\ UNCHANGED <<stored, ended, clock, commands>>

\* A request is answered, or raises; its thread takes the next one in the queue.
Answer(r) ==
  LET next == Len(load.began) + 1
      queued == next <= Len(load.late)
  IN /\ \E raised \in BOOLEAN :
          load' = [load EXCEPT !.out = (@ \ {r}) \cup (IF queued THEN {next} ELSE {}),
                               !.began = IF queued THEN Append(@, clock) ELSE @,
                               !.sent = IF raised THEN @ ELSE @ + 1,
                               !.errors = IF raised THEN @ + 1 ELSE @]
     /\ UNCHANGED <<stored, ended, clock, commands>>

\* Everything was handed over and came back: the report.
Finished == load # None /\ Len(load.late) = Len(load.due) /\ load.out = {}

\* One slot is as close as a schedule can be kept.
KeptUp(l) == \A i \in DOMAIN l.late : l.late[i] <= TicksPerSlot

EndLoad ==
  /\ Finished
  /\ ended' = [command |-> "shape", exit |-> IF load.sent = 0 THEN UNREACHABLE ELSE OK, report |-> load]
  /\ load' = None /\ clock' = 0
  /\ UNCHANGED <<stored, commands>>

Tick ==
  /\ load # None /\ clock < MaxClock
  /\ clock' = clock + 1
  /\ UNCHANGED <<stored, ended, load, commands>>

-----------------------------------------------------------------------------
(* Each command finds the contract and the service as they are by then.  A load *)
(* run reads and writes none of what the others do, so it is run alone.         *)

Init == stored \in Older \cup {None} /\ ended = None /\ load = None /\ clock = 0 /\ commands = 0

Command ==
  /\ load = None /\ commands < MaxCommands
  /\ \/ /\ commands' = commands + 1
        /\ \E c \in Contracts, t \in Targets :
             LET report == Measure(c, t)
             IN \/ Baseline(report)
                \/ \E args \in Tolerances, policies \in Policies, slo, compared \in BOOLEAN :
                     Regression(c, report, args, policies, slo, compared)
     \/ /\ commands = 0 /\ commands' = MaxCommands
        /\ \E p \in Profiles, path \in {None, "path"}, method \in {"GET", "POST"}, mutations \in BOOLEAN :
             StartLoad(p, path, method, mutations)

Next ==
  \/ Command
  \/ Dispatch
  \/ load # None /\ \E r \in load.out : Answer(r)
  \/ EndLoad
  \/ Tick

Spec == Init /\ [][Next]_vars

-----------------------------------------------------------------------------

\* An operation that answered every request of the stored run and none of this
\* one fails the comparison, whatever --tolerance was given: it may refuse
\* connections or let them hang, and the stored run may have no intervals.  It
\* takes four samples: the error rates of fewer cannot be told apart.
DeadIsNeverGreen ==
  ended # None /\ ended.command = "compared" /\ ended.exit = OK =>
    \A op \in DOMAIN ended.report \cap DOMAIN stored :
      LET now == ended.report[op]
          then == stored[op]
      IN then.errors + then.timeouts = 0 /\ then.samples > 3 /\ now.samples > 3 =>
           now.errors + now.timeouts < now.samples

\* A load run that says it kept up sent what its profile asked for: by any time
\* no more than was due, and at least what was due one slot before, each once,
\* unless every thread of its pool was busy at some request.
LoadIsAsAsked ==
  ended # None /\ ended.command = "shape" /\ ended.exit # USAGE =>
    LET l == ended.report
        begun(t) == Cardinality({ r \in DOMAIN l.began : l.began[r] <= t })
        due(t) == Cardinality({ r \in DOMAIN l.due : l.due[r] <= t })
    IN /\ l.sent + l.errors = Len(l.due)
       /\ \A t \in 0..MaxClock :
            /\ begun(t) <= due(t)
            /\ KeptUp(l) /\ l.crowded = {} => begun(t) >= due(t - TicksPerSlot)
===============================================================================
