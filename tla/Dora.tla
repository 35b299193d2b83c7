--------------------------------- MODULE Dora ----------------------------------
(***************************************************************************)
(* The four DORA metrics of a window of time (plugins/dora/metrics.go and  *)
(* dora.go): from the deployments and the incidents on record (modules     *)
(* Deployments and IncidentStore) to bands of performance and findings.    *)
(*                                                                         *)
(* Times are hours, and days of 24 hours.  A band is a number, higher is   *)
(* better, BandNA without data.  Means and rates are kept as fractions.    *)
(***************************************************************************)
EXTENDS Sums, FiniteSetsExt, SequencesExt

CONSTANTS Windows,      \* bound: values of --days
          LeadTimes,    \* bound: hours from a commit to its deployment
          Outages,      \* bound: hours an incident is open
          MaxDays,      \* bound: days that pass
          Batches,      \* bound: how many deployments may be alike
          MaxBatches,   \* bound
          MaxIncidents  \* bound: incidents on record

\* What the constants are: days, hours and amounts.
DoraAssumption ==
    Windows \subseteq Nat /\ LeadTimes \subseteq Nat /\ Outages \subseteq Nat /\ Batches \subseteq Nat

VARIABLES
    now,     \* the day
    lines,   \* the deployments on record, in the order of time
    stored,  \* the incidents on record
    reply    \* the report: metrics and findings of a window; {} before (bound: one)

vars == <<now, lines, stored, reply>>

BandLow == 0
BandMedium == 1
BandHigh == 2
BandElite == 3
BandNA == -1

\* CommitTime was not given, or is not before the deployment.
NoCommit == -1

\* ClosedAt is nil.
Open == -1

\* A record stands for `times` of it.
Total(S, of(_), holds(_)) ==
    SumOf([k \in DOMAIN S |-> IF holds(S[k]) THEN S[k].times * of(S[k]) ELSE 0])

Count(S, holds(_)) == Total(S, LAMBDA r : 1, holds)

AnyRecord(r) == TRUE

---------------------------------------------------------------------------
(* The metrics: a numerator and a denominator.                             *)

\* loadDeploymentsInWindow and loadIncidentsInWindow: the others count for nothing.
InWindow(records, days) ==
    [k \in DOMAIN records |-> IF records[k].at >= now - days THEN records[k]
                              ELSE [records[k] EXCEPT !.times = 0]]

successful(deployments) == Count(deployments, LAMBDA d : d.success)

\* Mutant of rateDeploymentFrequency: the failed ones count, too.
rateAnyFrequency(deployments, days) ==
    LET n == Count(deployments, AnyRecord) IN
    IF n = 0 THEN BandNA
    ELSE IF n >= days THEN BandElite
    ELSE IF 7 * n >= days THEN BandHigh
    ELSE IF 30 * n >= days THEN BandMedium ELSE BandLow

rateDeploymentFrequency(deployments, days) ==
    LET n == successful(deployments) IN
    IF n = 0 THEN BandNA
    ELSE IF n >= days THEN BandElite
    ELSE IF 7 * n >= days THEN BandHigh
    ELSE IF 30 * n >= days THEN BandMedium ELSE BandLow

\* rateLeadTime and rateMTTR: the mean of some hours.
rateHours(sum, count) ==
    IF count = 0 THEN BandNA
    ELSE IF sum < count THEN BandElite
    ELSE IF sum < 24 * count THEN BandHigh
    ELSE IF sum < 168 * count THEN BandMedium ELSE BandLow

rateLeadTime(deployments) ==
    LET given(d) == d.lead # NoCommit IN
    rateHours(Total(deployments, LAMBDA d : d.lead, given), Count(deployments, given))

rateMTTR(incidents) ==
    LET closed(i) == i.outage # Open IN
    rateHours(Total(incidents, LAMBDA i : i.outage, closed), Count(incidents, closed))

severe(i) == i.severity \in {"high", "critical"}

rateCFR(deployments, incidents) ==
    LET total    == Count(deployments, AnyRecord)
        failures == total - successful(deployments) + Count(incidents, severe)
    IN  IF total = 0 THEN BandNA
        ELSE IF 100 * failures < 5 * total THEN BandElite
        ELSE IF 100 * failures < 10 * total THEN BandHigh
        ELSE IF 100 * failures < 15 * total THEN BandMedium ELSE BandLow

\* Bands without data are skipped; all of them so is Elite.
lowestBand(bands) == Min({BandElite} \cup (bands \ {BandNA}))

calculateDORA(days, deployments, incidents) ==
    LET frequency == rateDeploymentFrequency(deployments, days)
        lead      == rateLeadTime(deployments)
        cfr       == rateCFR(deployments, incidents)
        mttr      == rateMTTR(incidents)
    IN  [frequency |-> frequency, lead |-> lead, cfr |-> cfr, mttr |-> mttr,
         overall |-> lowestBand({frequency, lead, cfr, mttr}),
         deployments |-> Count(deployments, AnyRecord), incidents |-> Count(incidents, AnyRecord)]

Metrics(days) == calculateDORA(days, InWindow(lines, days), InWindow(stored, days))

metricsToFindings(m) ==
    LET weak == {BandLow, BandMedium}
        good == {BandElite, BandHigh}
    IN  {title \in {"Low Deployment Frequency", "Elevated Change Failure Rate",
                    "High Mean Time to Restore", "Strong Deployment Frequency",
                    "Excellent MTTR"} :
            CASE title = "Low Deployment Frequency"     -> m.frequency \in weak
              [] title = "Elevated Change Failure Rate" -> m.cfr \in weak
              [] title = "High Mean Time to Restore"    -> m.mttr \in weak
              [] title = "Strong Deployment Frequency"  -> m.frequency \in good
              [] title = "Excellent MTTR"               -> m.mttr \in good}

---------------------------------------------------------------------------

Init == now = 0 /\ lines = <<>> /\ stored = <<>> /\ reply = {}

Tick ==
    /\ reply = {} /\ now < MaxDays
    /\ now' = now + 1
    /\ UNCHANGED <<lines, stored, reply>>

\* Deployments are recorded when they are done.  (Those of late webhooks are out of order.)
LogDeploy ==
    /\ reply = {} /\ Len(lines) < MaxBatches
    /\ \E n \in Batches, success \in BOOLEAN, lead \in LeadTimes \cup {NoCommit} :
           lines' = Append(lines, [at |-> now, success |-> success, lead |-> lead,
                                   times |-> n])
    /\ UNCHANGED <<now, stored, reply>>

OpenIncident ==
    /\ reply = {} /\ Len(stored) < MaxIncidents
    /\ \E severity \in {"low", "high"} :
           stored' = Append(stored, [at |-> now, severity |-> severity, outage |-> Open,
                                     times |-> 1])
    /\ UNCHANGED <<now, lines, reply>>

\* After at least so many hours that it is this day.
CloseIncident ==
    /\ reply = {}
    /\ \E k \in DOMAIN stored, hours \in Outages :
           /\ stored[k].outage = Open
           /\ hours <= 24 * (now - stored[k].at + 1)
           /\ stored' = [stored EXCEPT ![k].outage = hours]
    /\ UNCHANGED <<now, lines, reply>>

\* dora report, or the dashboard's.
Report ==
    /\ reply = {}
    /\ \E days \in Windows :
           LET m == Metrics(days) IN
           reply' = {[days |-> days, metrics |-> m, findings |-> metricsToFindings(m)]}
    /\ UNCHANGED <<now, lines, stored>>

Next == Tick \/ LogDeploy \/ OpenIncident \/ CloseIncident \/ Report

Spec == Init /\ [][Next]_vars

---------------------------------------------------------------------------

Bands == {BandNA, BandLow, BandMedium, BandHigh, BandElite}

TypeOK ==
    /\ now \in 0..MaxDays
    /\ Len(lines) <= MaxBatches /\ Len(stored) <= MaxIncidents
    /\ \A t \in reply : t.days \in Windows /\ t.metrics.overall \in Bands \ {BandNA}

\* A band without data compares with none.
NoBetter(before, after) == before = BandNA \/ after <= before

\* Bad news never looks good: a deployment that failed or an incident that is opened, in
\* itself, makes no band better that was there before, but for the lead time, which counts
\* failed deployments; and opening an incident leaves the overall band no better.
\* (metrics.go:47, whose failures may outnumber the deployments.)
BadNewsNeverImproves ==
    \A days \in Windows :
        LET before == Metrics(days)
            after  == Metrics(days)'
            failed == lines' # lines /\ ~Last(lines').success
            opened == Len(stored') > Len(stored)
        IN  failed \/ opened =>
                /\ NoBetter(before.frequency, after.frequency)
                /\ NoBetter(before.cfr, after.cfr)
                /\ NoBetter(before.mttr, after.mttr)
                /\ opened => NoBetter(before.overall, after.overall)
=============================================================================
