----------------------------- MODULE RecordProofs -----------------------------
(***************************************************************************)
(* The components about records and metrics: what the runs of MCComponents *)
(* check of them, for any size of them.  The inductive invariants are those *)
(* of RecordInvariants, which know one component at a time.                *)
(***************************************************************************)
EXTENDS MCComponents, FiniteSetTheorems, SequenceTheorems, TLAPS

RI == INSTANCE RecordInvariants WITH Legacies <- MCLegacies, Samples <- MCSamples

---------------------------------------------------------------------------
(* A behaviour is about one component.                                     *)

\* Which one that is does not change, and every step is one of it.
LEMMA OneMoves ==
    ASSUME [Next]_vars
    PROVE  /\ component' = component
           /\ component = "slo" => [SLI!Next]_(SLI!vars)
           /\ component = "db" => [DB!Next]_(DB!vars)
           /\ component = "incidents" => [INC!Next]_(INC!vars)
           /\ component = "deployments" => [DEP!Next]_(DEP!vars)
           /\ component = "dora" => [DOR!Next]_(DOR!vars)
<1>1. CASE Next
  BY <1>1 DEF Next, MapNext, PlanNext, LogNext, KubeNext, AnomalyNext, SloNext,
              SessionNext, TuiNext, FixNext, DbNext, IncNext, DepNext, DoraNext
<1>2. CASE UNCHANGED vars
  <2>1. UNCHANGED <<component, logVars, recordVars>>
    BY <1>2 DEF vars, aVars
  <2> QED
    BY <2>1, ZenonT(60) DEF logVars, recordVars, dbVars, incVars, depVars, SLI!vars, DB!vars, INC!vars,
                DEP!vars, DEP!store, DOR!vars
<1> QED BY <1>1, <1>2

LEMMA OneStarts ==
    ASSUME Init
    PROVE  /\ component = "slo" => SLI!Init
           /\ component = "db" => DB!Init
           /\ component = "incidents" => INC!Init
           /\ component = "deployments" => DEP!Init
           /\ component = "dora" => DOR!Init
BY DEF Init, MapInit, PlanInit, LogInit, KubeInit, AnomalyInit, SloInit, SessionInit,
       TuiInit, FixInit, DbInit, IncInit, DepInit, DoraInit

---------------------------------------------------------------------------
(* The components there are those here: MCComponents and RecordInvariants     *)
(* each have an instance of one module, with the same constants and        *)
(* variables.                                                              *)

\* IncidentStore.
LEMMA IncIsTheSame ==
    /\ INC!IncidentAssumption => RI!IncidentAssumption
    /\ INC!Init => RI!Init
    /\ [INC!Next]_(INC!vars) => [RI!Next]_(RI!vars)
    /\ RI!OpenedIsKept => INC!OpenedIsKept
    /\ RI!RestoredAreClosed => INC!RestoredAreClosed
BY ZenonT(60) DEF INC!IncidentAssumption, RI!IncidentAssumption, INC!Init, RI!Init, INC!Next,
       RI!Next, INC!vars, RI!vars, INC!OpenedIsKept, RI!OpenedIsKept,
       INC!RestoredAreClosed, RI!RestoredAreClosed, INC!Ids, RI!Ids, INC!NotFound,
       RI!NotFound, INC!Processes, RI!Processes, INC!NoId, RI!NoId, INC!OpenStart,
       RI!OpenStart, INC!InsertRow, RI!InsertRow, INC!StatFile, RI!StatFile,
       INC!RenameFile, RI!RenameFile, INC!AlreadyExists, RI!AlreadyExists, INC!Fails,
       RI!Fails, INC!Operations, RI!Operations, INC!Update, RI!Update, INC!Get,
       RI!Get, INC!Restart, RI!Restart, INC!Tick, RI!Tick, INC!OneProcess,
       RI!OneProcess, INC!Restored, RI!Restored, INC!Recorded, RI!Recorded,
       INC!RestoreTime, RI!RestoreTime, INC!Begins, RI!Begins, INC!Goes, RI!Goes,
       INC!NextId, RI!NextId, INC!Opened, RI!Opened, INC!Done, RI!Done, INC!Exists,
       RI!Exists, INC!Changed, RI!Changed, INC!Closed, RI!Closed, INC!Reopened,
       RI!Reopened

\* LocalDb.
LEMMA DbIsTheSame ==
    /\ DB!LocalDbAssumption => RI!DB!LocalDbAssumption
    /\ DB!Init => RI!DB!Init
    /\ [DB!Next]_(DB!vars) => [RI!DB!Next]_(RI!DB!vars)
    /\ RI!DB!RecordedImportsAreWhole => DB!RecordedImportsAreWhole
    /\ RI!DB!NoOlderRow => DB!NoOlderRow
BY DEF DB!LocalDbAssumption, RI!DB!LocalDbAssumption, DB!Init, RI!DB!Init, DB!Next,
       RI!DB!Next, DB!vars, RI!DB!vars, DB!RecordedImportsAreWhole,
       RI!DB!RecordedImportsAreWhole, DB!NoOlderRow, RI!DB!NoOlderRow, DB!Stores,
       RI!DB!Stores, DB!Kinds, RI!DB!Kinds, DB!NoEntries, RI!DB!NoEntries,
       DB!Importable, RI!DB!Importable, DB!OpenDb, RI!DB!OpenDb, DB!OpenFails,
       RI!DB!OpenFails, DB!Stop, RI!DB!Stop, DB!Check, RI!DB!Check, DB!Commit,
       RI!DB!Commit, DB!Rollback, RI!DB!Rollback, DB!WriteDb, RI!DB!WriteDb,
       DB!WriteFile, RI!DB!WriteFile, DB!NoEntry, RI!DB!NoEntry, DB!Step, RI!DB!Step,
       DB!Importing, RI!DB!Importing, DB!Holds, RI!DB!Holds, DB!After, RI!DB!After,
       DB!ScanFails, RI!DB!ScanFails, DB!Scanned, RI!DB!Scanned, DB!Imported,
       RI!DB!Imported, DB!Writable, RI!DB!Writable, DB!Entry, RI!DB!Entry

\* Deployments.
LEMMA DepIsTheSame ==
    /\ DEP!DeploymentsAssumption => RI!DEP!DeploymentsAssumption
    /\ DEP!Init => RI!DEP!Init
    /\ [DEP!Next]_(DEP!vars) => [RI!DEP!Next]_(RI!DEP!vars)
    /\ RI!DEP!AcceptedIsLogged => DEP!AcceptedIsLogged
BY ZenonT(60) DEF DEP!DeploymentsAssumption, RI!DEP!DeploymentsAssumption, DEP!Init, RI!DEP!Init,
       DEP!Next, RI!DEP!Next, DEP!vars, RI!DEP!vars, DEP!AcceptedIsLogged,
       RI!DEP!AcceptedIsLogged, DEP!Deliveries, RI!DEP!Deliveries, DEP!Ids, RI!DEP!Ids,
       DEP!NoDeployment, RI!DEP!NoDeployment, DEP!logDeploy, RI!DEP!logDeploy,
       DEP!Handle, RI!DEP!Handle, DEP!Tick, RI!DEP!Tick, DEP!store, RI!DEP!store,
       DEP!NoId, RI!DEP!NoId, DEP!Step, RI!DEP!Step, DEP!appendDeployment,
       RI!DEP!appendDeployment, DEP!newDeploymentID, RI!DEP!newDeploymentID,
       DEP!Deliver, RI!DEP!Deliver, DEP!Refuse, RI!DEP!Refuse, DEP!appendEvent,
       RI!DEP!appendEvent, DEP!appendDORA, RI!DEP!appendDORA, DEP!DORAFails,
       RI!DEP!DORAFails, DEP!Accept, RI!DEP!Accept, DEP!Lost, RI!DEP!Lost,
       DEP!Cardinality, RI!DEP!Cardinality

\* Slo.
LEMMA SloIsTheSame ==
    /\ SLI!SloAssumption => RI!SLI!SloAssumption
    /\ SLI!Init => RI!SLI!Init
    /\ [SLI!Next]_(SLI!vars) => [RI!SLI!Next]_(RI!SLI!vars)
    /\ RI!SLI!AlertIsItsShareOfBudget => SLI!AlertIsItsShareOfBudget
<1>1. \A f : SLI!SumOf(f) = RI!SLI!SumOf(f)
  BY DEF SLI!SumOf, RI!SLI!SumOf
<1>2. \A w, o, s : SLI!Triggered(w, o, s) <=> RI!SLI!Triggered(w, o, s)
  <2>1. \A s, h : SLI!errorRateOver(s, h) = RI!SLI!errorRateOver(s, h)
    BY <1>1 DEF SLI!errorRateOver, RI!SLI!errorRateOver
  <2> QED BY <2>1, SMTT(30) DEF SLI!Triggered, RI!SLI!Triggered
<1>3. \A o, s : SLI!ComputeMultiWindow(o, s) = RI!SLI!ComputeMultiWindow(o, s)
  BY <1>2 DEF SLI!ComputeMultiWindow, RI!SLI!ComputeMultiWindow, SLI!ToSet, RI!SLI!ToSet,
              SLI!DefaultMultiWindowConfig, RI!SLI!DefaultMultiWindowConfig
<1>4. \A source : SLI!SamplesFor(source) = RI!SLI!SamplesFor(source)
  BY DEF SLI!SamplesFor, RI!SLI!SamplesFor, SLI!fetchSamplesFromProm,
         RI!SLI!fetchSamplesFromProm, SLI!Unread, RI!SLI!Unread, SLI!loadSamples,
         RI!SLI!loadSamples, SLI!synthesizeHealthy, RI!SLI!synthesizeHealthy
<1>5. \A o, burns : /\ SLI!burnRatesToFindings(o, burns) = RI!SLI!burnRatesToFindings(o, burns)
                    /\ SLI!WorstTier(burns) = RI!SLI!WorstTier(burns)
  BY SMTT(30) DEF SLI!burnRatesToFindings, RI!SLI!burnRatesToFindings, SLI!WorstTier,
         RI!SLI!WorstTier
<1>6. \A source : SLI!check(source) <=> RI!SLI!check(source)
  BY <1>3, <1>4, <1>5, SMTT(30) DEF SLI!check, RI!SLI!check
<1>7. [SLI!Next]_(SLI!vars) => [RI!SLI!Next]_(RI!SLI!vars)
  BY <1>6, ZenonT(60) DEF SLI!Next, RI!SLI!Next, SLI!vars, RI!SLI!vars, SLI!Measure, RI!SLI!Measure,
              SLI!Check, RI!SLI!Check, SLI!Fail, RI!SLI!Fail
<1>8. \A share, o, source :
          SLI!BurntMoreThan(share, o, source) <=> RI!SLI!BurntMoreThan(share, o, source)
  BY <1>1, SMTT(30) DEF SLI!BurntMoreThan, RI!SLI!BurntMoreThan
<1>9. ASSUME NEW o
      PROVE  {share.tier : share \in {h \in SLI!Shares : SLI!BurntMoreThan(h, o, analyzed)}}
             = {share.tier : share \in {h \in RI!SLI!Shares :
                                            RI!SLI!BurntMoreThan(h, o, analyzed)}}
  <2>1. SLI!Shares = RI!SLI!Shares
    BY DEF SLI!Shares, RI!SLI!Shares
  <2> QED BY <1>8, <2>1
<1>10. RI!SLI!AlertIsItsShareOfBudget => SLI!AlertIsItsShareOfBudget
  BY <1>9, ZenonT(60) DEF SLI!AlertIsItsShareOfBudget, RI!SLI!AlertIsItsShareOfBudget
<1> QED BY <1>7, <1>10 DEF SLI!SloAssumption, RI!SLI!SloAssumption, SLI!Init, RI!SLI!Init

\* Dora.
LEMMA DoraIsTheSame ==
    /\ DOR!DoraAssumption => RI!DOR!DoraAssumption
    /\ DOR!Init => RI!DOR!Init
    /\ [DOR!Next]_(DOR!vars) => [RI!DOR!Next]_(RI!DOR!vars)
    /\ RI!DOR!BadNewsNeverImproves => DOR!BadNewsNeverImproves
<1>1. \A f : DOR!SumOf(f) = RI!DOR!SumOf(f)
  BY DEF DOR!SumOf, RI!DOR!SumOf
<1>2. \A D : /\ DOR!successful(D) = RI!DOR!successful(D)
            /\ DOR!Count(D, DOR!AnyRecord) = RI!DOR!Count(D, RI!DOR!AnyRecord)
  BY <1>1 DEF DOR!successful, RI!DOR!successful, DOR!Count, RI!DOR!Count, DOR!Total,
              RI!DOR!Total, DOR!AnyRecord, RI!DOR!AnyRecord
<1>3. \A I : DOR!Count(I, DOR!severe) = RI!DOR!Count(I, RI!DOR!severe)
  BY <1>1 DEF DOR!Count, RI!DOR!Count, DOR!Total, RI!DOR!Total, DOR!severe, RI!DOR!severe
<1>4. \A D, days : DOR!rateDeploymentFrequency(D, days) =
                       RI!DOR!rateDeploymentFrequency(D, days)
  BY <1>2 DEF DOR!rateDeploymentFrequency, RI!DOR!rateDeploymentFrequency, DOR!BandNA,
              RI!DOR!BandNA, DOR!BandElite, RI!DOR!BandElite, DOR!BandHigh, RI!DOR!BandHigh,
              DOR!BandMedium, RI!DOR!BandMedium, DOR!BandLow, RI!DOR!BandLow
<1>5. \A D, I : DOR!rateCFR(D, I) = RI!DOR!rateCFR(D, I)
  BY <1>2, <1>3, ZenonT(60)
     DEF DOR!rateCFR, RI!DOR!rateCFR, DOR!BandNA, RI!DOR!BandNA, DOR!BandElite,
         RI!DOR!BandElite, DOR!BandHigh, RI!DOR!BandHigh, DOR!BandMedium, RI!DOR!BandMedium,
         DOR!BandLow, RI!DOR!BandLow
<1>6. \A s, n : DOR!rateHours(s, n) = RI!DOR!rateHours(s, n)
  BY SMTT(30) DEF DOR!rateHours, RI!DOR!rateHours, DOR!BandNA, RI!DOR!BandNA, DOR!BandElite,
         RI!DOR!BandElite, DOR!BandHigh, RI!DOR!BandHigh, DOR!BandMedium, RI!DOR!BandMedium,
         DOR!BandLow, RI!DOR!BandLow
<1>7. \A D : DOR!rateLeadTime(D) = RI!DOR!rateLeadTime(D)
  BY <1>1, <1>6 DEF DOR!rateLeadTime, RI!DOR!rateLeadTime, DOR!Count, RI!DOR!Count,
                    DOR!Total, RI!DOR!Total, DOR!NoCommit, RI!DOR!NoCommit
<1>8. \A I : DOR!rateMTTR(I) = RI!DOR!rateMTTR(I)
  BY <1>1, <1>6 DEF DOR!rateMTTR, RI!DOR!rateMTTR, DOR!Count, RI!DOR!Count, DOR!Total,
                    RI!DOR!Total, DOR!Open, RI!DOR!Open
<1>9. \A S : DOR!lowestBand(S) = RI!DOR!lowestBand(S)
  BY DEF DOR!lowestBand, RI!DOR!lowestBand, DOR!Min, RI!DOR!Min, DOR!BandElite,
         RI!DOR!BandElite, DOR!BandNA, RI!DOR!BandNA
<1>10. \A days, D, I : DOR!calculateDORA(days, D, I) = RI!DOR!calculateDORA(days, D, I)
  <2>1. \A I : DOR!Count(I, DOR!AnyRecord) = RI!DOR!Count(I, RI!DOR!AnyRecord)
    BY <1>2
  <2> QED BY <2>1, <1>4, <1>5, <1>7, <1>8, <1>9, SMTT(30) DEF DOR!calculateDORA, RI!DOR!calculateDORA
<1>11. ASSUME NEW days
       PROVE  /\ DOR!Metrics(days) = RI!DOR!Metrics(days)
              /\ DOR!Metrics(days)' = RI!DOR!Metrics(days)'
  <2>1. DOR!Metrics(days) = RI!DOR!Metrics(days)
    BY <1>10 DEF DOR!Metrics, RI!DOR!Metrics, DOR!InWindow, RI!DOR!InWindow
  <2>2. DOR!Metrics(days)' = RI!DOR!Metrics(days)'
    BY <1>10 DEF DOR!Metrics, RI!DOR!Metrics, DOR!InWindow, RI!DOR!InWindow
  <2> QED BY <2>1, <2>2
<1>12. DOR!Report => RI!DOR!Report
  <2>1. \A m : DOR!metricsToFindings(m) = RI!DOR!metricsToFindings(m)
    BY DEF DOR!metricsToFindings, RI!DOR!metricsToFindings, DOR!BandElite,
           RI!DOR!BandElite, DOR!BandHigh, RI!DOR!BandHigh, DOR!BandMedium,
           RI!DOR!BandMedium, DOR!BandLow, RI!DOR!BandLow
  <2> QED BY <2>1, <1>11, ZenonT(60) DEF DOR!Report, RI!DOR!Report
<1>13. [DOR!Next]_(DOR!vars) => [RI!DOR!Next]_(RI!DOR!vars)
  BY <1>12 DEF DOR!Next, RI!DOR!Next, DOR!vars, RI!DOR!vars, DOR!Tick, RI!DOR!Tick,
               DOR!LogDeploy, RI!DOR!LogDeploy, DOR!OpenIncident, RI!DOR!OpenIncident,
               DOR!CloseIncident, RI!DOR!CloseIncident, DOR!NoCommit, RI!DOR!NoCommit,
               DOR!Open, RI!DOR!Open
<1>14. RI!DOR!BadNewsNeverImproves => DOR!BadNewsNeverImproves
  BY <1>11 DEF DOR!BadNewsNeverImproves, RI!DOR!BadNewsNeverImproves, DOR!NoBetter,
               RI!DOR!NoBetter, DOR!BandNA, RI!DOR!BandNA, DOR!Last, RI!DOR!Last
<1> QED BY <1>13, <1>14 DEF DOR!DoraAssumption, RI!DOR!DoraAssumption, DOR!Init, RI!DOR!Init

---------------------------------------------------------------------------

\* Whichever component it is, its inductive invariant holds.
Invariant ==
    /\ component = "incidents" => RI!IncidentInv
    /\ component = "db" => RI!DbInv
    /\ component = "deployments" => RI!DepInv
    /\ component = "slo" => RI!SloInv
    /\ component = "dora" => RI!DoraInv

LEMMA InvariantHolds == Spec => []Invariant
<1>1. Init => Invariant
  BY ComponentsAssumption, OneStarts, IncIsTheSame, DbIsTheSame, DepIsTheSame,
     SloIsTheSame, DoraIsTheSame, RI!InitHolds, RI!DbStarts, RI!DepStarts, RI!SloStarts,
     RI!DoraStarts
     DEF Invariant
<1>2. Invariant /\ [Next]_vars => Invariant'
  BY ComponentsAssumption, OneMoves, IncIsTheSame, DbIsTheSame, DepIsTheSame,
     SloIsTheSame, DoraIsTheSame, RI!NextKeeps, RI!DbKeeps, RI!DepKeeps, RI!SloKeeps,
     RI!DoraKeeps
     DEF Invariant
<1>3. QED
  BY <1>1, <1>2, PTL DEF Spec

\* An incident that Open returned stays on record as it was opened, and counts as restored
\* exactly while it is closed (IncidentStore).
THEOREM OpenedAreKept == Spec => []OpenedIsKept
<1>1. Invariant => OpenedIsKept
  BY IncIsTheSame, RI!OpenedAreOnRecord, RI!ClosedAreRestored DEF Invariant, OpenedIsKept
<1>2. QED
  BY <1>1, InvariantHolds, PTL

\* A delivery that was answered "accepted" is in the log of the webhook, whatever other
\* deliveries and commands write to it at the same time (Deployments).
THEOREM AcceptedAreLogged == Spec => []AcceptedIsLogged
<1>1. Invariant => AcceptedIsLogged
  BY ComponentsAssumption, DepIsTheSame, RI!DepLogged DEF Invariant, AcceptedIsLogged
<1>2. QED
  BY <1>1, InvariantHolds, PTL

\* An import that is recorded was whole, whichever runs raced for it, were killed in it or
\* wrote beside it (LocalDb).
THEOREM RecordedImportsWereWhole == Spec => []RecordedImportsAreWhole
<1>1. Invariant => RecordedImportsAreWhole
  BY DbIsTheSame DEF Invariant, RI!DbInv, RecordedImportsAreWhole
<1>2. QED
  BY <1>1, InvariantHolds, PTL

\* No import brings an older copy of a record back (LocalDb).
THEOREM NothingGoesBack == Spec => NeverGoesBack
<1>1. Invariant /\ [Next]_vars => (component = "db" => DB!NoOlderRow)
  BY ComponentsAssumption, OneMoves, DbIsTheSame, RI!DbKeeps DEF Invariant
<1>2. QED
  BY <1>1, InvariantHolds, PTL DEF Spec, NeverGoesBack

\* An alert is raised exactly if the service has burnt that alert's share of its budget, as
\* far as the source knows, and the summary counts an SLO for its worst alert (Slo).
THEOREM AlertsAreTheirShare == Spec => []AlertIsItsShareOfBudget
<1>1. Invariant => AlertIsItsShareOfBudget
  BY ComponentsAssumption, SloIsTheSame, RI!SloAlerts DEF Invariant, AlertIsItsShareOfBudget
<1>2. QED
  BY <1>1, InvariantHolds, PTL

\* A deployment that failed or an incident that was opened makes no band of a report look
\* better than it did, but for the lead time; and an incident not the overall one (Dora).
THEOREM BadNewsStaysBad == Spec => BadNewsNeverImproves
<1>1. Invariant /\ [Next]_vars => (component = "dora" => DOR!BadNewsNeverImproves)
  BY ComponentsAssumption, OneMoves, DoraIsTheSame, RI!BadNewsIsBad DEF Invariant
<1>2. QED
  BY <1>1, InvariantHolds, PTL DEF Spec, BadNewsNeverImproves
=============================================================================
