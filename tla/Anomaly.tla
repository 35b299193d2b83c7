-------------------------------- MODULE Anomaly --------------------------------
(***************************************************************************)
(* Findings from the course of time (internal/anomaly, and timebucket.go   *)
(* of internal/investigate): an analyzer counts its session's events by    *)
(* the minute and reports the minutes that differ from those before.       *)
(*                                                                         *)
(* An analyzer's chart counts some events only (buildStats of the modules  *)
(* Syslog, ...) and has no bucket for a minute without any.  A minute is a *)
(* number from 1 on.  A median m is kept as 2 * m, which is whole.         *)
(***************************************************************************)
EXTENDS LogEngine

CONSTANTS Analyzers,   \* the profiles, by analyzer (modules Syslog, Httplog, ...)
          Stretches,   \* bound: how many minutes may be alike
          Counts,      \* bound: events in a minute
          MaxChanges   \* bound: how often that changes in a corpus

VARIABLES
    logPlugin,  \* the analyzer
    input,      \* the corpus: what happened in each minute
    analyzed,   \* whether the analysis is done
    promoted    \* the findings

vars == <<logPlugin, input, analyzed, promoted>>

profile == Analyzers[logPlugin]

\* DefaultOptions.
BaselineBuckets    == 15
MinBaselineBuckets == 5
SpikeMultiple      == 3
MinAbsoluteDelta   == 5
MinObserved        == 5
DropParts          == 5     \* DropFraction is one of so many parts
MinBaselineForDrop == 10

maxDensifiedPoints == 20000

---------------------------------------------------------------------------
(* The corpus, by the minute.                                              *)

Nothing == [events |-> 0, charted |-> FALSE]

\* What a minute has: nothing, or events of a kind that the chart counts or does not.
Minutes ==
    {Nothing} \cup
    {[events |-> n, charted |-> profile.charted[l]] :
        n \in Counts, l \in {k \in profile.lines : /\ profile.session[k] # NoEvent
                                                   /\ profile.session[k].dated}}

\* The minutes of the chart: one bucket for each minute with a charted event.
Buckets == {m \in DOMAIN input : input[m].charted}

Count(m) == IF input[m].charted THEN input[m].events ELSE 0

\* LogSession.TimeRange: minutes of the first and the last event of the session.
Busy == {m \in DOMAIN input : input[m].events > 0}
From == CHOOSE m \in Busy : \A n \in Busy : m <= n
To   == CHOOSE m \in Busy : \A n \in Busy : m >= n

---------------------------------------------------------------------------
(* The detector.                                                           *)

Point(m) == [at |-> m, n |-> Count(m)]

\* Mutant of DensifyRange: only the minutes that have a bucket.
SparseRange(from, to) == SetToSortSeq({Point(m) : m \in Buckets}, LAMBDA p, q : p.at < q.at)

Filled(from, to) == [k \in 1..(to - from + 1) |-> Point(from + k - 1)]

\* Every minute of the corpus, if they are not too many.
DensifyRange(from, to) ==
    IF to <= from \/ to - from + 1 > maxDensifiedPoints THEN SparseRange(from, to)
    ELSE Filled(from, to)

\* What is missing between the points, if it is not too much.
Densify(points) ==
    IF Len(points) < 2 \/ Last(points).at - points[1].at + 1 > maxDensifiedPoints THEN points
    ELSE Filled(points[1].at, Last(points).at)

\* median of the counts, doubled.
median(points) ==
    LET sorted == SortSeq([k \in DOMAIN points |-> points[k].n], <)
        mid    == Len(sorted) \div 2
    IN  IF Len(sorted) % 2 = 1 THEN 2 * sorted[mid + 1] ELSE sorted[mid] + sorted[mid + 1]

spike(n, base) ==
    /\ n >= MinObserved
    /\ 2 * n - base >= 2 * MinAbsoluteDelta
    /\ base > 0 => 2 * n >= base * SpikeMultiple

drop(n, base) == base >= 2 * MinBaselineForDrop /\ 2 * n * DropParts <= base

\* percentChange: at least p percent more than the base.
UpBy(n, base, p) == IF base = 0 THEN 100 * n >= p ELSE 100 * (2 * n - base) >= p * base

severityFor(kind, n, base) ==
    IF kind = "drop" THEN "medium"
    ELSE IF UpBy(n, base, 500) THEN "high"
    ELSE IF UpBy(n, base, 200) THEN "medium" ELSE "low"

confidenceFor(history, base) == IF history >= 10 /\ base > 0 THEN "high" ELSE "medium"

\* Findings: the candidate for a point, about that minute.
Finding(kind, p, history, base) ==
    [kind |-> kind, at |-> p.at, count |-> p.n, severity |-> severityFor(kind, p.n, base),
     confidence |-> confidenceFor(history, base)]

\* Detect: each point against the ones just before it, a spike rather than a drop.
Detect(points) ==
    UNION {LET lo   == IF i - BaselineBuckets < 1 THEN 1 ELSE i - BaselineBuckets
               base == median(SubSeq(points, lo, i - 1))
               p    == points[i]
           IN  CASE spike(p.n, base) -> {Finding("spike", p, i - lo, base)}
                 [] drop(p.n, base)  -> {Finding("drop", p, i - lo, base)}
                 [] OTHER            -> {} :
           i \in (MinBaselineBuckets + 1)..Len(points)}

DetectAnomalies == IF Buckets = {} THEN {} ELSE Detect(Densify(DensifyRange(From, To)))

---------------------------------------------------------------------------

Init == logPlugin \in DOMAIN Analyzers /\ input = <<>> /\ analyzed = FALSE /\ promoted = {}

\* Time passes on the host: some minutes that are alike, and other than the last one.
Pass ==
    /\ ~analyzed
    /\ Cardinality({m \in DOMAIN input : m > 1 /\ input[m] # input[m - 1]}) < MaxChanges
    /\ \E n \in Stretches, of \in Minutes :
           /\ input # <<>> => of # input[Len(input)]
           /\ input' = input \o [m \in 1..n |-> of]
    /\ UNCHANGED <<logPlugin, analyzed, promoted>>

\* The end of analyze: the findings of the chart.
Analyze ==
    /\ ~analyzed /\ input # <<>>
    /\ analyzed' = TRUE
    /\ promoted' = DetectAnomalies
    /\ UNCHANGED <<logPlugin, input>>

Next == Pass \/ Analyze

Spec == Init /\ [][Next]_vars

---------------------------------------------------------------------------

TypeOK ==
    /\ logPlugin \in DOMAIN Analyzers
    /\ ToSet(input) \subseteq Minutes
    /\ \A f \in promoted : f.kind \in {"spike", "drop"} /\ f.at \in DOMAIN input

\* The minutes that a minute is compared with: those before it, since the first event.
Past(m) == {k \in DOMAIN input : From <= k /\ k < m /\ m - k <= BaselineBuckets}

\* Of a set of minutes, those that had less than one in a few of n events, and enough less.
Quieter(S, n) == {k \in S : /\ n >= SpikeMultiple * Count(k)
                            /\ n - Count(k) >= MinAbsoluteDelta}

\* A burst is reported exactly when it is one: its minute has several times as many events
\* as most of the minutes before it, the ones included that had none and so no bucket;
\* a reported minute has as many as at least half of them allow.  (anomaly.go:152 and
\* timebucket.go:50, "a service that was healthy for twenty minutes and then failed
\* contributes exactly one bucket".)
BurstIsReported ==
    analyzed =>
    \A m \in DOMAIN input :
        LET past   == IF Busy = {} THEN {} ELSE Past(m)
            lower  == Quieter(past, Count(m))
            spikes == {f \in promoted : f.at = m /\ f.kind = "spike"}
        IN  /\ 2 * Cardinality(lower) > Cardinality(past)
               /\ Cardinality(past) >= MinBaselineBuckets /\ m <= To => spikes # {}
            /\ spikes # {} => 2 * Cardinality(lower) >= Cardinality(past)
=============================================================================
