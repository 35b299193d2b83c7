---------------------------------- MODULE Slo ----------------------------------
(***************************************************************************)
(* plugins/slo: how fast a service burns its error budget, over an hour,   *)
(* six hours and three days, and the alerts that follow.                   *)
(*                                                                         *)
(* Times are hours before the check.  A sample is what the metrics backend *)
(* has of one instant, all of whose requests are counted in `total`; the   *)
(* query for the good ones may have no point there.  An objective is given *)
(* as what it allows to fail, out of a thousand requests.                  *)
(***************************************************************************)
EXTENDS Sums, SequencesExt

CONSTANTS Objectives,  \* what the SLOs of the specs file allow, out of a thousand
          Samples,     \* bound: the samples there may be
          Spacings,    \* bound: hours between two samples
          MaxSamples   \* bound

\* What the constants are: amounts, and samples of which no more fails than there is.
SloAssumption ==
    /\ Objectives \subseteq Nat /\ Spacings \subseteq Nat /\ MaxSamples \in Nat
    /\ \A s \in Samples :
           s \in [total : Nat, bad : Nat, joined : BOOLEAN] /\ s.bad <= s.total

VARIABLES
    input,      \* the samples of the service so far: [age, total, bad, joined]
    analyzed,   \* whether `slo check` has answered, and with which samples
    promoted,   \* its findings
    reply       \* the summary: the tier that each SLO counts for

vars == <<input, analyzed, promoted, reply>>

Served(total, bad) == [total |-> total, bad |-> bad, joined |-> TRUE]

\* The series of good requests has no point at this time.
NoGood(total) == [total |-> total, bad |-> total, joined |-> FALSE]

---------------------------------------------------------------------------
(* Burn rates; thresholds are in tenths.                                   *)

\* Mutant of DefaultMultiWindowConfig: two thresholds for each other's window.
SwappedConfig == <<[hours |-> 1, threshold |-> 60, tier |-> "page"],
                   [hours |-> 6, threshold |-> 144, tier |-> "ticket"],
                   [hours |-> 72, threshold |-> 10, tier |-> "warn"]>>

DefaultMultiWindowConfig == <<[hours |-> 1, threshold |-> 144, tier |-> "page"],
                              [hours |-> 6, threshold |-> 60, tier |-> "ticket"],
                              [hours |-> 72, threshold |-> 10, tier |-> "warn"]>>

\* errorRateOver: bad and all requests of the samples that are not older than that.
errorRateOver(samples, hours) ==
    LET within(k) == samples[k].age <= hours IN
    [bad   |-> SumOf([k \in DOMAIN samples |-> IF within(k) THEN samples[k].bad ELSE 0]),
     total |-> SumOf([k \in DOMAIN samples |-> IF within(k) THEN samples[k].total ELSE 0])]

\* The multiplier bad/total/allowed is above the threshold; with nothing allowed, one bad
\* request is above any.
Triggered(w, allowed, samples) ==
    LET rate == errorRateOver(samples, w.hours) IN
    /\ rate.total > 0
    /\ IF allowed = 0 THEN rate.bad > 0
       ELSE rate.bad * 1000 * 10 > w.threshold * rate.total * allowed

ComputeMultiWindow(allowed, samples) ==
    {w \in ToSet(DefaultMultiWindowConfig) : Triggered(w, allowed, samples)}

WorstTier(burns) ==
    LET tiers == {w.tier : w \in burns} IN
    IF "page" \in tiers THEN "page"
    ELSE IF "ticket" \in tiers THEN "ticket"
    ELSE IF "warn" \in tiers THEN "warn" ELSE "green"

burnRatesToFindings(allowed, burns) ==
    {[objective |-> allowed, tier |-> w.tier,
      severity |-> CASE w.tier = "page"   -> "critical"
                     [] w.tier = "ticket" -> "high"
                     [] w.tier = "warn"   -> "medium"] : w \in burns}

---------------------------------------------------------------------------
(* The samples.                                                            *)

\* In the place of a sample that is not read; it counts for nothing.
Unread == [age |-> 0, total |-> 0, bad |-> 0, joined |-> FALSE]

\* fetchSamplesFromProm: of three days, what both queries have a point for.
fetchSamplesFromProm ==
    [k \in DOMAIN input |->
        IF input[k].age <= 72 /\ input[k].joined THEN input[k] ELSE Unread]

\* A file has both numbers of every sample of the SLO, however old.
loadSamples == input

\* synthesizeHealthy: nothing but good requests.  (864 of these, which makes no difference.)
synthesizeHealthy == <<[age |-> 0, total |-> 1000, bad |-> 0, joined |-> TRUE]>>

\* What is read of the source; an SLO without an entry in it counts as healthy.
SamplesFor(source) ==
    CASE source = "prometheus"      -> fetchSamplesFromProm
      [] source = "file"            -> loadSamples
      [] source \in {"none", "other file"} -> synthesizeHealthy

---------------------------------------------------------------------------

Init == input = <<>> /\ analyzed = "" /\ promoted = {} /\ reply = {}

\* The service is measured once more, some hours after the last time.
Measure ==
    /\ analyzed = "" /\ Len(input) < MaxSamples
    /\ \E s \in Samples, h \in IF input = <<>> THEN {0} ELSE Spacings :
           input' = Append([k \in DOMAIN input |-> [input[k] EXCEPT !.age = @ + h]],
                           [age |-> 0, total |-> s.total, bad |-> s.bad,
                            joined |-> s.joined])
    /\ UNCHANGED <<analyzed, promoted, reply>>

\* check: the findings of all SLOs and the summary.
check(source) ==
    LET burns == [o \in Objectives |-> ComputeMultiWindow(o, SamplesFor(source))] IN
    /\ analyzed' = source
    /\ promoted' = UNION {burnRatesToFindings(o, burns[o]) : o \in Objectives}
    /\ reply' = {[objective |-> o, tier |-> WorstTier(burns[o])] : o \in Objectives}

\* A backend that does not answer, or a file that cannot be read: there is no report.
Fail == analyzed' = "failed" /\ UNCHANGED <<promoted, reply>>

Check ==
    /\ analyzed = ""
    /\ \/ \E source \in {"prometheus", "file", "other file", "none"} : check(source)
       \/ Fail
    /\ UNCHANGED input

Next == Measure \/ Check

Spec == Init /\ [][Next]_vars

---------------------------------------------------------------------------

TypeOK ==
    /\ Len(input) <= MaxSamples
    /\ \A k \in DOMAIN input : input[k].bad \in 0..input[k].total
    /\ analyzed \in {"", "failed", "prometheus", "file", "other file", "none"}
    /\ \A f \in promoted : f.objective \in Objectives
    /\ {t.objective : t \in reply} \in {{}, Objectives}

\* The share of the budget of a 30-day month, in percent, that each alert stands for, and
\* within how many hours.
Shares == {[tier |-> "page", hours |-> 1, percent |-> 2],
           [tier |-> "ticket", hours |-> 6, percent |-> 5],
           [tier |-> "warn", hours |-> 72, percent |-> 10]}

\* Whether the requests that failed, as far as the source knows, are more than that share
\* of what may fail in a month that is as busy throughout.
BurntMoreThan(share, allowed, source) ==
    LET knows(k) == source = "file" \/ (source = "prometheus" /\ input[k].joined)
        within   == {k \in DOMAIN input : input[k].age <= share.hours /\ knows(k)}
        bad      == SumOf([k \in DOMAIN input |-> IF k \in within THEN input[k].bad ELSE 0])
        total    == SumOf([k \in DOMAIN input |-> IF k \in within THEN input[k].total ELSE 0])
    IN  bad * 1000 * share.hours * 10 > share.percent * 72 * total * allowed

\* An alert is raised exactly if the service has burnt that alert's share of its budget,
\* as far as the source knows, and the summary counts an SLO for its worst alert: "page
\* (acute: 2% of budget in 1h)", "ticket (slow burn: 5% in 6h)" (burnrate.go:11) and
\* what those make of three days.
AlertIsItsShareOfBudget ==
    analyzed \notin {"", "failed"} =>
    \A o \in Objectives :
        LET alerts == {share.tier : share \in {h \in Shares : BurntMoreThan(h, o, analyzed)}}
        IN  /\ {f.tier : f \in {g \in promoted : g.objective = o}} = alerts
            /\ \A t \in reply :
                   t.objective = o =>
                       /\ t.tier = "green" <=> alerts = {}
                       /\ t.tier = "page" <=> "page" \in alerts
                       /\ t.tier = "warn" <=> alerts = {"warn"}
=============================================================================
