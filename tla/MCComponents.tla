------------------------------ MODULE MCComponents ----------------------------
(***************************************************************************)
(* Small instances of the components that do not meet, side by side in one *)
(* run: those that analyse and present (MapReduce, Planner with the        *)
(* analyzers' Catalogs, LogDiagnosis, KubeDiagnosis, Anomaly, Slo, Tui,    *)
(* ...) and those about records (LocalDb, IncidentStore, Deployments,      *)
(* Dora).  An initial state says which of them this behaviour is about,    *)
(* and only that one moves; the others' variables stay 0.  A variable that *)
(* several components have serves whichever of them it is.                 *)
(***************************************************************************)
EXTENDS Integers, FiniteSets, SequencesExt

CONSTANTS N, Concurrency, MaxRetries,                            \* MapReduce
          MaxPlanSteps, Load, MaxTurns,                          \* Planner
          Times, MaxBursts,                                      \* LogDiagnosis
          Stretches, Counts, MaxChanges,                         \* Anomaly
          Objectives, Spacings, MaxSamples,                      \* Slo
          MaxEvents, MaxBytes, PageSize, Sizes, MaxLines,        \* LogSession
          MaxRuns,                                               \* and Tui
          logs, notify, None,                                    \* Tui
          ns1, ns2, web, job, tier, x, y, main, side,            \* ClusterFixes
          Scopes, All, LabelKeys, App, Absent, Healths, MaxPods, MaxDrift, MaxFixes,
          Runs, RecordIds, Document, a, MaxWrites,               \* LocalDb
          Workers, Process, MaxSecond, MaxOps, cli,              \* IncidentStore
          Commands, TfRuns, MaxDeliveries,                       \* Deployments
          Windows, LeadTimes, Outages, MaxDays, Batches,         \* Dora
          MaxBatches, MaxIncidents

VARIABLES component,
          next, wg, slots, stopped, status, attempt, results, errs, answer,
          analyzer, turns, holds, intents, plan, suggestions,
          logPlugin, input, analyzed, indexed, shown, promoted, reply,
          session, hub, explorer, run, parsed, origin,
          state, showHelp, plugin, subcmd, listed, filled, focus, runs, result, started,
          scope, cluster, findings, page, prompt, drifts, fixes, asOf, applied, cured,
          pc, backend, now,
          legacy, rows, keys, read, writes, original,
          stored, counter, id, copy, begun, opened,
          lines, events, payload, delivered, recorded, accepted

mapVars     == <<next, wg, slots, stopped, status, attempt, results, errs, answer>>
planVars    == <<analyzer, turns, holds, intents, plan, suggestions>>
logVars     == <<logPlugin, input, analyzed, indexed, shown, promoted, reply>>
sessionVars == <<session, hub, explorer, run, parsed, origin>>
tuiVars     == <<state, showHelp, plugin, subcmd, listed, filled, focus, runs, result,
                 started>>
fixVars     == <<scope, cluster, findings, page, prompt, drifts, fixes, asOf, applied,
                 cured>>
dbVars      == <<legacy, keys, read, writes, original>>
incVars     == <<stored, counter, id, copy, begun, opened>>
depVars     == <<lines, events, payload, delivered, recorded, accepted>>
recordVars  == <<pc, backend, now, rows, dbVars, incVars, depVars>>
aVars       == <<mapVars, planVars, logVars, sessionVars, tuiVars, fixVars>>
vars        == <<component, aVars, recordVars>>

---------------------------------------------------------------------------
(* Constants.                                                              *)

\* A plugin with two subcommands, and one with a single one, whose list is skipped.
MCPlugins     == {logs, notify}
MCSubcommands == [p \in MCPlugins |->
                     IF p = logs THEN {<<logs, 1>>, <<logs, 2>>} ELSE {<<notify, 1>>}]
MCFields      == [p \in MCPlugins |-> IF p = logs THEN 2 ELSE 1]

\* A deployment `web` in each of two namespaces, the second one's crashing; a
\* service, whose selector may fit or not, in the first; a cronjob in the second.
L(appLabel, tierLabel) == [k \in LabelKeys |-> IF k = App THEN appLabel ELSE tierLabel]
MCLabels == {L(x, Absent), L(y, x)}

Both     == {"cpu", "memory"}
MCLimits == {[c \in {main, side} |-> Both],
             [c \in {main, side} |-> IF c = main THEN {"cpu"} ELSE {}]}

MCCluster(labels, limits, selector) ==
    LET d == [k \in {ns1, ns2} \X {web} |->
                 [labels |-> IF k[1] = ns1 THEN labels ELSE L(x, Absent),
                  limits |-> limits, rollout |-> FALSE]]
    IN [deployments |-> d,
        pods |-> [k \in DOMAIN d |->
                     [serial |-> 1, labels |-> d[k].labels, limits |-> limits,
                      health |-> IF k[1] = ns1 THEN "ok" ELSE "CrashLoopBackOff"]],
        services |-> [k \in {<<ns1, web>>} |-> selector],
        cronjobs |-> [k \in {<<ns2, job>>} |-> TRUE],
        order |-> <<<<ns1, web>>, <<ns2, web>>>>]

MCClusters ==
    LET ofPods(selector) == selector = L(x, Absent)
    IN {MCCluster(labels, CHOOSE limits \in MCLimits :
                              (limits[side] = Both) = ofPods(selector), selector) :
           labels \in MCLabels, selector \in {L(x, Absent), L(y, y)}}

\* The worker w = cli is a command; the others are requests of one dashboard.
MCProcess == [w \in Workers |-> IF w = cli THEN "cli" ELSE "serve"]

\* Files of two records at most: all readable; one that is not, with a settings
\* document that is corrupt; a deployments line too long to scan; none.
Kind(k) == [kind |-> k, version |-> IF k = "absent" THEN 0 ELSE 1]
Pair(k, l) == [i \in RecordIds |-> Kind(IF i = a THEN k ELSE l)]
MCLegacies ==
    { [deployments |-> Pair("good", "good"), incidents |-> Pair("good", "absent"),
       settings |-> Pair("bad", "absent")],
      [deployments |-> Pair("good", "long"), incidents |-> Pair("absent", "absent"),
       settings |-> Pair("good", "absent")],
      [deployments |-> Pair("absent", "absent"), incidents |-> Pair("good", "bad"),
       settings |-> Pair("absent", "absent")] }

\* Busy instants that are good, and nearly so; one that is bad, of whose good requests
\* there is no point; and one without requests.
MCSamples ==
    {[total |-> 200, bad |-> n, joined |-> TRUE] : n \in {0, 1, 3, 13}} \cup
    {[total |-> 200, bad |-> 200, joined |-> FALSE], [total |-> 0, bad |-> 0, joined |-> TRUE]}

---------------------------------------------------------------------------

CAT == INSTANCE Catalogs
SYS == INSTANCE Syslog
HTT == INSTANCE Httplog
WIS == INSTANCE Iis
EVT == INSTANCE Eventlog
CTR == INSTANCE Cloudtrail
LGS == INSTANCE Logs

MCProfiles  == CAT!Profiles
MCAnalyzers ==
    [syslog |-> SYS!syslogProfile, httplog |-> HTT!httplogProfile, iis |-> WIS!iisProfile,
     eventlog |-> EVT!eventlogProfile, cloudtrail |-> CTR!cloudtrailProfile,
     logs |-> LGS!logsProfile]

MAP == INSTANCE MapReduce WITH job <- status
PLN == INSTANCE Planner WITH Profiles <- MCProfiles
DIA == INSTANCE LogDiagnosis WITH Analyzers <- MCAnalyzers, Profiles <- MCProfiles
KUB == INSTANCE KubeDiagnosis WITH Profiles <- MCProfiles, live <- input,
                                   drift <- analyzed, snapshot <- indexed,
                                   ledger <- promoted
ANO == INSTANCE Anomaly WITH Analyzers <- MCAnalyzers
SLI == INSTANCE Slo WITH Samples <- MCSamples
SES == INSTANCE LogSession
TUI == INSTANCE Tui WITH Plugins <- MCPlugins, Subcommands <- MCSubcommands,
                         Fields <- MCFields
FIX == INSTANCE ClusterFixes WITH Clusters <- MCClusters, Labels <- MCLabels,
                                  Limits <- MCLimits
DB  == INSTANCE LocalDb WITH Legacies <- MCLegacies, Ids <- RecordIds
INC == INSTANCE IncidentStore
DEP == INSTANCE Deployments
DOR == INSTANCE Dora

\* What each of them assumes of its constants.
ASSUME ComponentsAssumption ==
    /\ MAP!MapReduceAssumption
    /\ FIX!ClusterFixesAssumption
    /\ DB!LocalDbAssumption
    /\ INC!IncidentAssumption
    /\ DEP!DeploymentsAssumption
    /\ SES!LogSessionAssumption
    /\ SLI!SloAssumption
    /\ PLN!PlannerAssumption
    /\ DOR!DoraAssumption

NoMap == /\ next = 0 /\ wg = 0 /\ slots = 0 /\ stopped = 0 /\ status = 0
         /\ attempt = 0 /\ results = 0 /\ errs = 0 /\ answer = 0
NoPlan == /\ analyzer = 0 /\ turns = 0 /\ holds = 0 /\ intents = 0 /\ plan = 0
          /\ suggestions = 0
NoLogs == /\ logPlugin = 0 /\ input = 0 /\ analyzed = 0 /\ indexed = 0 /\ shown = 0
          /\ promoted = 0 /\ reply = 0
NoSession == /\ session = 0 /\ hub = 0 /\ explorer = 0 /\ run = 0 /\ parsed = 0
             /\ origin = 0
NoTui == /\ state = 0 /\ showHelp = 0 /\ plugin = 0 /\ subcmd = 0 /\ listed = 0
         /\ filled = 0 /\ focus = 0 /\ runs = 0 /\ result = 0 /\ started = 0
NoFix == /\ scope = 0 /\ cluster = 0 /\ findings = 0 /\ page = 0 /\ prompt = 0
         /\ drifts = 0 /\ fixes = 0 /\ asOf = 0 /\ applied = 0 /\ cured = 0

NoDb  == legacy = 0 /\ keys = 0 /\ read = 0 /\ writes = 0 /\ original = 0
NoInc == /\ stored = 0 /\ counter = 0 /\ id = 0 /\ copy = 0 /\ begun = 0
         /\ opened = 0
NoDep == /\ lines = 0 /\ events = 0 /\ payload = 0 /\ delivered = 0 /\ recorded = 0
         /\ accepted = 0

NoAnalysis == NoMap /\ NoPlan /\ NoLogs /\ NoSession /\ NoTui /\ NoFix
NoRecords  == /\ pc = 0 /\ backend = 0 /\ now = 0 /\ rows = 0
              /\ NoDb /\ NoInc /\ NoDep

MapInit ==
    /\ component = "mapreduce" /\ MAP!Init
    /\ NoPlan /\ NoLogs /\ NoSession /\ NoTui /\ NoFix /\ NoRecords
PlanInit ==
    /\ component = "planner" /\ PLN!Init
    /\ NoMap /\ NoLogs /\ NoSession /\ NoTui /\ NoFix /\ NoRecords
LogInit ==
    /\ component = "logs" /\ DIA!Init
    /\ NoMap /\ NoPlan /\ NoSession /\ NoTui /\ NoFix /\ NoRecords
KubeInit ==
    /\ component = "kube" /\ KUB!Init
    /\ logPlugin = 0 /\ shown = 0
    /\ NoMap /\ NoPlan /\ NoSession /\ NoTui /\ NoFix /\ NoRecords
AnomalyInit ==
    /\ component = "anomaly" /\ ANO!Init
    /\ indexed = 0 /\ shown = 0 /\ reply = 0
    /\ NoMap /\ NoPlan /\ NoSession /\ NoTui /\ NoFix /\ NoRecords
SloInit ==
    /\ component = "slo" /\ SLI!Init
    /\ logPlugin = 0 /\ indexed = 0 /\ shown = 0
    /\ NoMap /\ NoPlan /\ NoSession /\ NoTui /\ NoFix /\ NoRecords
SessionInit ==
    /\ component = "session" /\ SES!Init
    /\ NoMap /\ NoPlan /\ NoLogs /\ NoTui /\ NoFix /\ NoRecords
TuiInit ==
    /\ component = "tui" /\ TUI!Init
    /\ NoMap /\ NoPlan /\ NoLogs /\ NoSession /\ NoFix /\ NoRecords
FixInit ==
    /\ component = "fixes" /\ FIX!Init
    /\ NoMap /\ NoPlan /\ NoLogs /\ NoSession /\ NoTui /\ NoRecords
DbInit ==
    component = "db" /\ DB!Init /\ now = 0 /\ NoInc /\ NoDep /\ NoAnalysis
IncInit ==
    component = "incidents" /\ INC!Init /\ rows = 0 /\ NoDb /\ NoDep /\ NoAnalysis
DepInit ==
    component = "deployments" /\ DEP!Init /\ NoDb /\ NoInc /\ NoAnalysis
DoraInit ==
    /\ component = "dora" /\ DOR!Init
    /\ pc = 0 /\ backend = 0 /\ rows = 0 /\ NoDb
    /\ counter = 0 /\ id = 0 /\ copy = 0 /\ begun = 0 /\ opened = 0
    /\ events = 0 /\ payload = 0 /\ delivered = 0 /\ recorded = 0 /\ accepted = 0
    /\ logPlugin = 0 /\ input = 0 /\ analyzed = 0 /\ indexed = 0 /\ shown = 0 /\ promoted = 0
    /\ NoMap /\ NoPlan /\ NoSession /\ NoTui /\ NoFix

MapNext ==
    /\ component = "mapreduce" /\ MAP!Next
    /\ UNCHANGED <<component, planVars, logVars, sessionVars, tuiVars, fixVars, recordVars>>
PlanNext ==
    /\ component = "planner" /\ PLN!Next
    /\ UNCHANGED <<component, mapVars, logVars, sessionVars, tuiVars, fixVars, recordVars>>
LogNext ==
    /\ component = "logs" /\ DIA!Next
    /\ UNCHANGED <<component, mapVars, planVars, sessionVars, tuiVars, fixVars, recordVars>>
KubeNext ==
    /\ component = "kube" /\ KUB!Next
    /\ UNCHANGED <<component, logPlugin, shown>>
    /\ UNCHANGED <<mapVars, planVars, sessionVars, tuiVars, fixVars, recordVars>>
AnomalyNext ==
    /\ component = "anomaly" /\ ANO!Next
    /\ UNCHANGED <<component, indexed, shown, reply>>
    /\ UNCHANGED <<mapVars, planVars, sessionVars, tuiVars, fixVars, recordVars>>
SloNext ==
    /\ component = "slo" /\ SLI!Next
    /\ UNCHANGED <<component, logPlugin, indexed, shown>>
    /\ UNCHANGED <<mapVars, planVars, sessionVars, tuiVars, fixVars, recordVars>>
SessionNext ==
    /\ component = "session" /\ SES!Next
    /\ UNCHANGED <<component, mapVars, planVars, logVars, tuiVars, fixVars, recordVars>>
TuiNext ==
    /\ component = "tui" /\ TUI!Next
    /\ UNCHANGED <<component, mapVars, planVars, logVars, sessionVars, fixVars, recordVars>>
FixNext ==
    /\ component = "fixes" /\ FIX!Next
    /\ UNCHANGED <<component, mapVars, planVars, logVars, sessionVars, tuiVars, recordVars>>
DbNext ==
    component = "db" /\ DB!Next /\ UNCHANGED <<component, now, incVars, depVars, aVars>>
IncNext ==
    component = "incidents" /\ INC!Next
    /\ UNCHANGED <<component, rows, dbVars, depVars, aVars>>
DepNext ==
    component = "deployments" /\ DEP!Next /\ UNCHANGED <<component, dbVars, incVars, aVars>>
DoraNext ==
    /\ component = "dora" /\ DOR!Next
    /\ UNCHANGED <<component, pc, backend, rows, dbVars>>
    /\ UNCHANGED <<counter, id, copy, begun, opened>>
    /\ UNCHANGED <<events, payload, delivered, recorded, accepted>>
    /\ UNCHANGED <<logPlugin, input, analyzed, indexed, shown, promoted>>
    /\ UNCHANGED <<mapVars, planVars, sessionVars, tuiVars, fixVars>>

Init == \/ MapInit \/ PlanInit \/ LogInit \/ KubeInit \/ AnomalyInit \/ SloInit
        \/ SessionInit \/ TuiInit \/ FixInit \/ DbInit \/ IncInit \/ DepInit \/ DoraInit
Next == \/ MapNext \/ PlanNext \/ LogNext \/ KubeNext \/ AnomalyNext \/ SloNext
        \/ SessionNext \/ TuiNext \/ FixNext \/ DbNext \/ IncNext \/ DepNext \/ DoraNext

\* MapReduce's fairness, as long as the behaviour is about it.
Fairness ==
    /\ WF_vars(component = "mapreduce" /\ MAP!Main /\ MapNext)
    /\ \A i \in MAP!Jobs : WF_vars(component = "mapreduce" /\ MAP!Work(i) /\ MapNext)

Spec == Init /\ [][Next]_vars /\ Fairness

\* ClusterFixes alone.
FixSpec == FixInit /\ [][FixNext]_vars

\* LogDiagnosis alone.
LogSpec == LogInit /\ [][LogNext]_vars

---------------------------------------------------------------------------
(* The components' properties, each of which says what it is about.        *)

\* The components' variables have the types their modules give them.
TypeOK ==
    /\ component = "mapreduce" => MAP!TypeOK
    /\ component = "planner" => PLN!TypeOK
    /\ component = "logs" => DIA!TypeOK
    /\ component = "kube" => KUB!TypeOK
    /\ component = "anomaly" => ANO!TypeOK
    /\ component = "slo" => SLI!TypeOK
    /\ component = "session" => SES!TypeOK
    /\ component = "tui" => TUI!TypeOK
    /\ component = "fixes" => FIX!TypeOK
    /\ component = "db" => DB!TypeOK
    /\ component = "incidents" => INC!TypeOK
    /\ component = "deployments" => DEP!TypeOK
    /\ component = "dora" => DOR!TypeOK

\* A report speaks for every chunk (MapReduce).
ReportIsWhole == component = "mapreduce" => MAP!ReportIsWhole

\* A failed analysis says why (MapReduce).
FailureHasItsCause == component = "mapreduce" => MAP!FailureHasItsCause

\* Analyze returns (MapReduce).
Returns == component = "mapreduce" ~> (component = "mapreduce" /\ answer # {})

\* The first check of every symptom, and that of the question, is in the plan (Planner).
NothingIsLeftUnchecked ==
    component = "planner" => PLN!FirstCheckIsPlanned /\ PLN!QuestionIsChecked

\* Every error of the session is read by the model, too (LogDiagnosis).
ErrorsAreRead == component = "logs" => DIA!ErrorsAreRead

\* A symptom shows its lines, whatever else there is (LogDiagnosis).
SymptomShowsItsLines == component = "logs" => DIA!SymptomShowsItsLines

\* A chat weighs the root cause that a finding names (LogDiagnosis).
FindingIsDiscussed == component = "logs" => DIA!FindingIsDiscussed

\* High confidence rests on lines of this corpus or a past change, or, for a pod, on its
\* status, CoreDNS, a change of seven days or what fits the pattern for endpoints, and is
\* never had about a pod that is well (LogDiagnosis, KubeDiagnosis).
ConfidenceIsEarned ==
    /\ component = "logs" => DIA!ConfidenceIsEarned
    /\ component = "kube" => KUB!ConfidenceIsEarned

\* A question about a unit is answered from its events (LogDiagnosis).
UnitIsSeen == component = "logs" => DIA!UnitIsSeen

\* A service that is to be restarted has crashed (LogDiagnosis).
RemedyIsForACrash == component = "logs" => DIA!RemedyIsForACrash

\* The timeline of a turn is about the failure (LogDiagnosis, KubeDiagnosis).
TimelineShowsTheWorst ==
    /\ component = "logs" => DIA!TimelineShowsTheWorst
    /\ component = "kube" => KUB!SymptomIsInTheTimeline

\* A burst is reported, and a reported one is one (Anomaly).
BurstIsReported == component = "anomaly" => ANO!BurstIsReported

\* An alert is out exactly when its share of the budget is burnt (Slo).
AlertIsItsShareOfBudget == component = "slo" => SLI!AlertIsItsShareOfBudget

\* What a session does not have, it counts; what it has, its pages show once (LogSession).
BoundedCoverageIsVisible ==
    component = "session" => SES!BoundedCoverageIsVisible /\ SES!PagesAreWhole

\* The result on the screen is that of the form behind it (Tui).
ResultIsOfTheForm == component = "tui" => TUI!ResultIsOfTheForm

\* What is carried out is the fix that was chosen (ClusterFixes).
FixIsTheOneChosen == component = "fixes" => FIX!FixIsTheOneChosen

\* No fix reaches outside --namespace (ClusterFixes).
FixesStayInScope == [][component = "fixes" => FIX!ScopeKept]_vars

\* A fix of a spec holds until somebody changes the cluster (ClusterFixes).
SpecFixHolds == component = "fixes" => FIX!SpecFixHolds

\* The same of every fix that is called a root-cause fix (ClusterFixes).
RootCauseDoesNotRecur == component = "fixes" => FIX!RootCauseDoesNotRecur

\* An import never brings an older copy of a record back (LocalDb).
NeverGoesBack == [][component = "db" => DB!NoOlderRow]_vars

\* An import that is recorded was whole (LocalDb).
RecordedImportsAreWhole == component = "db" => DB!RecordedImportsAreWhole

\* An incident that Open returned stays as it was opened, and counts as restored exactly
\* while it is closed (IncidentStore).
OpenedIsKept == component = "incidents" => INC!OpenedIsKept /\ INC!RestoredAreClosed

\* What was answered "accepted" is in the webhook's log (Deployments).
AcceptedIsLogged == component = "deployments" => DEP!AcceptedIsLogged

\* A failed deployment or a new incident makes no band better (Dora).
BadNewsNeverImproves == [][component = "dora" => DOR!BadNewsNeverImproves]_vars
=============================================================================
