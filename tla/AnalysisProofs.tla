---------------------------- MODULE AnalysisProofs ----------------------------
(***************************************************************************)
(* The components that analyse and present: what the runs of MCComponents  *)
(* check of them, for any size of them.  The inductive invariants are those *)
(* of AnalysisInvariants, which know one component at a time.              *)
(***************************************************************************)
EXTENDS MCComponents, FiniteSetTheorems, SequenceTheorems, TLAPS

AI == INSTANCE AnalysisInvariants
          WITH job <- status, Plugins <- MCPlugins, Subcommands <- MCSubcommands,
               Fields <- MCFields, Clusters <- MCClusters, Labels <- MCLabels,
               Limits <- MCLimits, Profiles <- MCProfiles

---------------------------------------------------------------------------
(* A behaviour is about one component.                                     *)

\* Which one that is does not change, and every step is one of it.
LEMMA OneMoves ==
    ASSUME [Next]_vars
    PROVE  /\ component' = component
           /\ component = "mapreduce" => [MAP!Next]_(MAP!vars)
           /\ component = "planner" => [PLN!Next]_(PLN!vars)
           /\ component = "session" => [SES!Next]_(SES!vars)
           /\ component = "tui" => [TUI!Next]_(TUI!vars)
           /\ component = "fixes" => [FIX!Next]_(FIX!vars)
<1>1. CASE Next
  BY <1>1, ZenonT(60) DEF Next, MapNext, PlanNext, LogNext, KubeNext, AnomalyNext, SloNext,
              SessionNext, TuiNext, FixNext, DbNext, IncNext, DepNext, DoraNext
<1>2. CASE UNCHANGED vars
  <2>1. UNCHANGED <<component, mapVars, planVars, sessionVars, tuiVars, fixVars>>
    BY <1>2 DEF vars, aVars
  <2> QED
    BY <2>1, ZenonT(60) DEF mapVars, planVars, sessionVars, tuiVars, fixVars, MAP!vars, PLN!vars, SES!vars,
                TUI!vars, FIX!vars
<1> QED BY <1>1, <1>2

LEMMA OneStarts ==
    ASSUME Init
    PROVE  /\ component = "mapreduce" => MAP!Init
           /\ component = "planner" => PLN!Init
           /\ component = "session" => SES!Init
           /\ component = "tui" => TUI!Init
           /\ component = "fixes" => FIX!Init
BY DEF Init, MapInit, PlanInit, LogInit, KubeInit, AnomalyInit, SloInit, SessionInit,
       TuiInit, FixInit, DbInit, IncInit, DepInit, DoraInit

---------------------------------------------------------------------------
(* The components there are those here: MCComponents and AnalysisInvariants   *)
(* each have an instance of one module, with the same constants and        *)
(* variables.                                                              *)

\* MapReduce.
LEMMA MapIsTheSame ==
    /\ MAP!MapReduceAssumption => AI!MapReduceAssumption
    /\ MAP!Init => AI!Init
    /\ [MAP!Next]_(MAP!vars) => [AI!Next]_(AI!vars)
    /\ AI!ReportIsWhole => MAP!ReportIsWhole
    /\ AI!FailureHasItsCause => MAP!FailureHasItsCause
BY ZenonT(60) DEF MAP!MapReduceAssumption, AI!MapReduceAssumption, MAP!Init, AI!Init, MAP!Next,
       AI!Next, MAP!vars, AI!vars, MAP!ReportIsWhole, AI!ReportIsWhole,
       MAP!FailureHasItsCause, AI!FailureHasItsCause, MAP!Jobs, AI!Jobs, MAP!Main,
       AI!Main, MAP!Work, AI!Work, MAP!Interrupt, AI!Interrupt, MAP!Chunks,
       AI!Chunks, MAP!TakeSlot, AI!TakeSlot, MAP!GiveUp, AI!GiveUp, MAP!ReturnError,
       AI!ReturnError, MAP!StartReduce, AI!StartReduce, MAP!ReturnReport,
       AI!ReturnReport, MAP!Parse, AI!Parse, MAP!ParseFails, AI!ParseFails,
       MAP!Call, AI!Call, MAP!NoCall, AI!NoCall, MAP!Answered, AI!Answered,
       MAP!CallFails, AI!CallFails, MAP!CallCancelled, AI!CallCancelled, MAP!Retry,
       AI!Retry, MAP!Wake, AI!Wake, MAP!SleepCancelled, AI!SleepCancelled,
       MAP!Cancelled, AI!Cancelled, MAP!Waited, AI!Waited, MAP!Failed, AI!Failed,
       MAP!Joined, AI!Joined, MAP!Goes, AI!Goes, MAP!Ends, AI!Ends

\* Planner.
LEMMA PlanIsTheSame ==
    /\ PLN!PlannerAssumption => AI!PLN!PlannerAssumption
    /\ PLN!Init => AI!PLN!Init
    /\ [PLN!Next]_(PLN!vars) => [AI!PLN!Next]_(AI!PLN!vars)
    /\ AI!PLN!FirstCheckIsPlanned => PLN!FirstCheckIsPlanned
    /\ AI!PLN!QuestionIsChecked => PLN!QuestionIsChecked
<1>1. /\ \A S : PLN!Cardinality(S) = AI!PLN!Cardinality(S)
      /\ \A s : PLN!ToSet(s) = AI!PLN!ToSet(s)
      /\ \A S, k : PLN!kSubset(k, S) = AI!PLN!kSubset(k, S)
  BY DEF PLN!Cardinality, AI!PLN!Cardinality, PLN!ToSet, AI!PLN!ToSet, PLN!kSubset,
         AI!PLN!kSubset
<1>2. \A S, n : PLN!InOrder(S, n) = AI!PLN!InOrder(S, n)
  BY DEF PLN!InOrder, AI!PLN!InOrder
<1>3. \A S, s : PLN!At(S, s) = AI!PLN!At(S, s)
  BY <1>2, ZenonT(60) DEF PLN!At, AI!PLN!At
<1>4. \A ss : PLN!FlattenSeq(ss) = AI!PLN!FlattenSeq(ss)
  BY ZenonT(60) DEF PLN!FlattenSeq, AI!PLN!FlattenSeq
<1>5. \A p, matching : PLN!MatchSymptoms(p, matching) = AI!PLN!MatchSymptoms(p, matching)
  BY <1>2 DEF PLN!MatchSymptoms, AI!PLN!MatchSymptoms
<1>6. \A p, matching, is :
          PLN!Requests(p, matching, is) = AI!PLN!Requests(p, matching, is)
  BY <1>3, <1>5 DEF PLN!Requests, AI!PLN!Requests
<1>7. \A requests : PLN!ByPriority(requests) = AI!PLN!ByPriority(requests)
  BY <1>4 DEF PLN!ByPriority, AI!PLN!ByPriority
<1>8. \A s : PLN!Once(s) = AI!PLN!Once(s) /\ PLN!Capped(s) = AI!PLN!Capped(s)
  BY <1>3 DEF PLN!Once, AI!PLN!Once, PLN!Capped, AI!PLN!Capped
<1>9. \A p, matching, is :
          PLN!buildPlan(p, matching, is) = AI!PLN!buildPlan(p, matching, is)
  BY <1>6, <1>7, <1>8 DEF PLN!buildPlan, AI!PLN!buildPlan
<1>10. \A p, is, fact :
           PLN!SuggestFollowUps(p, is, fact) = AI!PLN!SuggestFollowUps(p, is, fact)
  BY <1>1, <1>2, ZenonT(60) DEF PLN!SuggestFollowUps, AI!PLN!SuggestFollowUps
<1>11. PLN!profile = AI!PLN!profile
  BY ZenonT(60) DEF PLN!profile, AI!PLN!profile
<1>12. \A p : PLN!Intents(p) = AI!PLN!Intents(p)
  BY <1>1 DEF PLN!Intents, AI!PLN!Intents
<1>13. \A matching, is, fact :
           PLN!Turn(matching, is, fact) <=> AI!PLN!Turn(matching, is, fact)
  <2>1. \A is : PLN!TurnIntents(is) = AI!PLN!TurnIntents(is)
    BY <1>1 DEF PLN!TurnIntents, AI!PLN!TurnIntents
  <2> QED
    BY <2>1, <1>9, <1>10, <1>11, ZenonT(60) DEF PLN!Turn, AI!PLN!Turn
<1>14. PLN!Next <=> AI!PLN!Next
  <2>1. PLN!Ask <=> AI!PLN!Ask
    <3>1. \A n : PLN!Messages(n) = AI!PLN!Messages(n)
      BY <1>1, <1>3, <1>11 DEF PLN!Messages, AI!PLN!Messages
    <3>2. PLN!Matchings = AI!PLN!Matchings
      BY <1>11 DEF PLN!Matchings, AI!PLN!Matchings, PLN!Rows, AI!PLN!Rows
    <3> QED
      BY <3>1, <3>2, <1>1, <1>13 DEF PLN!Ask, AI!PLN!Ask
  <2>2. PLN!AskSuggested <=> AI!PLN!AskSuggested
    BY <1>1, <1>11, <1>13 DEF PLN!AskSuggested, AI!PLN!AskSuggested
  <2> QED
    BY <2>1, <2>2 DEF PLN!Next, AI!PLN!Next
<1>15. PLN!PlannerAssumption => AI!PLN!PlannerAssumption
  <2>1. \A p : PLN!FirstChecks(p) = AI!PLN!FirstChecks(p)
    BY DEF PLN!FirstChecks, AI!PLN!FirstChecks, PLN!FirstOf, AI!PLN!FirstOf
  <2>2. \A p : PLN!Catalog(p) => AI!PLN!Catalog(p)
    BY <2>1, <1>1, <1>12 DEF PLN!Catalog, AI!PLN!Catalog
  <2> QED
    BY <2>2 DEF PLN!PlannerAssumption, AI!PLN!PlannerAssumption
<1>16. PLN!Matched = AI!PLN!Matched
  BY <1>1, <1>5, <1>11 DEF PLN!Matched, AI!PLN!Matched
<1>17. AI!PLN!FirstCheckIsPlanned => PLN!FirstCheckIsPlanned
  BY <1>1, <1>11, <1>16 DEF PLN!FirstCheckIsPlanned, AI!PLN!FirstCheckIsPlanned
<1>18. AI!PLN!QuestionIsChecked => PLN!QuestionIsChecked
  BY <1>1, <1>11, <1>16 DEF PLN!QuestionIsChecked, AI!PLN!QuestionIsChecked
<1> QED BY <1>14, <1>15, <1>17, <1>18 DEF PLN!Init, AI!PLN!Init, PLN!vars, AI!PLN!vars

\* Tui.
LEMMA TuiIsTheSame ==
    /\ TUI!Init => AI!TUI!Init
    /\ [TUI!Next]_(TUI!vars) => [AI!TUI!Next]_(AI!TUI!vars)
    /\ AI!TUI!ResultIsOfTheForm => TUI!ResultIsOfTheForm
BY ZenonT(60) DEF TUI!Init, AI!TUI!Init, TUI!Next, AI!TUI!Next, TUI!vars, AI!TUI!vars,
       TUI!ResultIsOfTheForm, AI!TUI!ResultIsOfTheForm, TUI!selectPlugin,
       AI!TUI!selectPlugin, TUI!ChooseSubcmd, AI!TUI!ChooseSubcmd, TUI!Back,
       AI!TUI!Back, TUI!Type, AI!TUI!Type, TUI!submitForm, AI!TUI!submitForm, TUI!Quit,
       AI!TUI!Quit, TUI!Help, AI!TUI!Help, TUI!CloseHelp, AI!TUI!CloseHelp,
       TUI!QuitFromHelp, AI!TUI!QuitFromHelp, TUI!moveFocus, AI!TUI!moveFocus,
       TUI!Result, AI!TUI!Result, TUI!Call, AI!TUI!Call, TUI!Goes, AI!TUI!Goes,
       TUI!selectSubcmd, AI!TUI!selectSubcmd, TUI!run, AI!TUI!run, TUI!form,
       AI!TUI!form, TUI!Size, AI!TUI!Size, TUI!Cardinality, AI!TUI!Cardinality

\* LogSession.
LEMMA SesIsTheSame ==
    /\ SES!LogSessionAssumption => AI!SES!LogSessionAssumption
    /\ SES!Init => AI!SES!Init
    /\ [SES!Next]_(SES!vars) => [AI!SES!Next]_(AI!SES!vars)
    /\ AI!SES!BoundedCoverageIsVisible => SES!BoundedCoverageIsVisible
    /\ AI!SES!PagesAreWhole => SES!PagesAreWhole
BY ZenonT(60) DEF SES!LogSessionAssumption, AI!SES!LogSessionAssumption, SES!Init, AI!SES!Init,
       SES!Next, AI!SES!Next, SES!vars, AI!SES!vars, SES!BoundedCoverageIsVisible,
       AI!SES!BoundedCoverageIsVisible, SES!PagesAreWhole, AI!SES!PagesAreWhole,
       SES!NewLogSession, AI!SES!NewLogSession, SES!NoSnapshot, AI!SES!NoSnapshot,
       SES!Closed, AI!SES!Closed, SES!Parse, AI!SES!Parse, SES!ComputeStats,
       AI!SES!ComputeStats, SES!Attach, AI!SES!Attach, SES!Page, AI!SES!Page,
       SES!Leave, AI!SES!Leave, SES!Bytes, AI!SES!Bytes, SES!Matching, AI!SES!Matching,
       SES!Lines, AI!SES!Lines, SES!AppendTo, AI!SES!AppendTo, SES!Restore,
       AI!SES!Restore, SES!Query, AI!SES!Query, SES!Retain, AI!SES!Retain, SES!Excess,
       AI!SES!Excess, SES!FoldLeft, AI!SES!FoldLeft, SES!MapThenFoldSet,
       AI!SES!MapThenFoldSet, SES!Max, AI!SES!Max

\* What a collection of ClusterFixes may report.
LEMMA ReportsAreTheSame == ASSUME NEW c PROVE FIX!Reports(c) = AI!FIX!Reports(c)
<1>1. \A S : FIX!Cardinality(S) = AI!FIX!Cardinality(S)
  BY DEF FIX!Cardinality, AI!FIX!Cardinality
<1>2. FIX!UnhealthyPods(c) = AI!FIX!UnhealthyPods(c)
  BY <1>1 DEF FIX!UnhealthyPods, AI!FIX!UnhealthyPods, FIX!Pods, AI!FIX!Pods,
              FIX!Score, AI!FIX!Score, FIX!InScope, AI!FIX!InScope
<1>3. ASSUME NEW kept PROVE FIX!BuildFindings(c, kept) = AI!FIX!BuildFindings(c, kept)
  BY ZenonT(60) DEF FIX!BuildFindings, AI!FIX!BuildFindings, FIX!PodFinding, AI!FIX!PodFinding,
         FIX!StalledFinding, AI!FIX!StalledFinding, FIX!collectDeployments,
         AI!FIX!collectDeployments, FIX!ServiceFinding, AI!FIX!ServiceFinding,
         FIX!collectServiceIssues, AI!FIX!collectServiceIssues, FIX!SelectorFinding,
         AI!FIX!SelectorFinding, FIX!collectSelectorMismatches,
         AI!FIX!collectSelectorMismatches, FIX!GapFinding, AI!FIX!GapFinding,
         FIX!collectResourceGaps, AI!FIX!collectResourceGaps, FIX!CronJobFinding,
         AI!FIX!CronJobFinding, FIX!collectCronJobIssues, AI!FIX!collectCronJobIssues,
         FIX!PodName, AI!FIX!PodName, FIX!Finding, AI!FIX!Finding, FIX!Pods,
         AI!FIX!Pods, FIX!Remediation, AI!FIX!Remediation, FIX!NoRemediation,
         AI!FIX!NoRemediation, FIX!InScope, AI!FIX!InScope, FIX!Ready, AI!FIX!Ready,
         FIX!Empty, AI!FIX!Empty, FIX!readyEP, AI!FIX!readyEP, FIX!newSelector,
         AI!FIX!newSelector, FIX!Suggesting, AI!FIX!Suggesting, FIX!gapPatch,
         AI!FIX!gapPatch, FIX!Gaps, AI!FIX!Gaps, FIX!Carries, AI!FIX!Carries,
         FIX!SelectInSeq, AI!FIX!SelectInSeq, FIX!Min, AI!FIX!Min
<1> QED BY <1>2, <1>3 DEF FIX!Reports, AI!FIX!Reports

\* ClusterFixes.
LEMMA FixIsTheSame ==
    /\ FIX!ClusterFixesAssumption => AI!FIX!ClusterFixesAssumption
    /\ FIX!Init => AI!FIX!Init
    /\ [FIX!Next]_(FIX!vars) => [AI!FIX!Next]_(AI!FIX!vars)
    /\ AI!FIX!FixIsTheOneChosen => FIX!FixIsTheOneChosen
    /\ AI!FIX!ScopeKept => FIX!ScopeKept
    /\ AI!FIX!SpecFixHolds => FIX!SpecFixHolds
BY ReportsAreTheSame, ZenonT(60)
   DEF FIX!ClusterFixesAssumption, AI!FIX!ClusterFixesAssumption,
       FIX!Init, AI!FIX!Init, FIX!Next, AI!FIX!Next, FIX!vars,
       AI!FIX!vars, FIX!FixIsTheOneChosen, AI!FIX!FixIsTheOneChosen,
       FIX!ScopeKept, AI!FIX!ScopeKept, FIX!SpecFixHolds,
       AI!FIX!SpecFixHolds, FIX!IsCluster, AI!FIX!IsCluster,
       FIX!Never, AI!FIX!Never, FIX!NoRemediation,
       AI!FIX!NoRemediation, FIX!Collect, AI!FIX!Collect, FIX!Poll,
       AI!FIX!Poll, FIX!StartFix, AI!FIX!StartFix, FIX!EndFix,
       AI!FIX!EndFix, FIX!doFix, AI!FIX!doFix, FIX!AnswerYes,
       AI!FIX!AnswerYes, FIX!Rollout, AI!FIX!Rollout, FIX!Turns,
       AI!FIX!Turns, FIX!Deploy, AI!FIX!Deploy, FIX!Delete,
       AI!FIX!Delete, FIX!Suspend, AI!FIX!Suspend, FIX!InScope,
       AI!FIX!InScope, FIX!Gone, AI!FIX!Gone, FIX!Now, AI!FIX!Now,
       FIX!ID, AI!FIX!ID, FIX!CarryOut, AI!FIX!CarryOut, FIX!NewPod,
       AI!FIX!NewPod, FIX!Drift, AI!FIX!Drift, FIX!Settled,
       AI!FIX!Settled, FIX!Recurs, AI!FIX!Recurs, FIX!Exists,
       AI!FIX!Exists, FIX!ApplyRemediation, AI!FIX!ApplyRemediation,
       FIX!PodName, AI!FIX!PodName, FIX!rolloutRestart,
       AI!FIX!rolloutRestart, FIX!resumeCronJob,
       AI!FIX!resumeCronJob, FIX!deletePod, AI!FIX!deletePod,
       FIX!patchResource, AI!FIX!patchResource,
       FIX!addResourceLimits, AI!FIX!addResourceLimits

---------------------------------------------------------------------------

\* Whichever component it is, its inductive invariant holds.
Invariant ==
    /\ component = "mapreduce" => AI!MapInv
    /\ component = "planner" => AI!PlanInv
    /\ component = "tui" => AI!TuiInv
    /\ component = "fixes" => AI!FixInv
    /\ component = "session" => AI!SesInv

LEMMA InvariantHolds == Spec => []Invariant
<1>1. Init => Invariant
  BY ComponentsAssumption, OneStarts, MapIsTheSame, PlanIsTheSame, TuiIsTheSame,
     FixIsTheSame, SesIsTheSame, AI!InitHolds, AI!PlanStarts, AI!TuiStarts, AI!FixStarts,
     AI!SesStarts, SMTT(30)
     DEF Invariant
<1>2. Invariant /\ [Next]_vars => Invariant'
  BY ComponentsAssumption, OneMoves, MapIsTheSame, PlanIsTheSame, TuiIsTheSame,
     FixIsTheSame, SesIsTheSame, AI!StepKeeps, AI!PlanKeeps, AI!TuiKeeps, AI!FixKeeps,
     AI!SesKeeps
     DEF Invariant
<1>3. QED
  BY <1>1, <1>2, PTL DEF Spec

\* A report speaks for every chunk of the analysis, whatever fails, is retried or is
\* cancelled meanwhile (MapReduce).
THEOREM ReportsAreWhole == Spec => []ReportIsWhole
<1>1. Invariant => ReportIsWhole
  BY MapIsTheSame DEF Invariant, AI!MapInv, ReportIsWhole
<1>2. QED
  BY <1>1, InvariantHolds, PTL

\* A failed analysis says why, unless it was the user who stopped it (MapReduce).
THEOREM FailuresHaveTheirCause == Spec => []FailureHasItsCause
<1>1. Invariant => FailureHasItsCause
  BY MapIsTheSame DEF Invariant, AI!MapInv, FailureHasItsCause
<1>2. QED
  BY <1>1, InvariantHolds, PTL

\* The first check of every symptom that matches is in the plan of a turn, whatever else
\* matches and is asked, and so is that of the question as long as a plan has room (Planner).
THEOREM ChecksArePlanned == Spec => []NothingIsLeftUnchecked
<1>1. Invariant => NothingIsLeftUnchecked
  BY ComponentsAssumption, PlanIsTheSame, AI!PlannedFor DEF Invariant, NothingIsLeftUnchecked
<1>2. QED
  BY <1>1, InvariantHolds, PTL

\* The result on the screen is that of the form behind it, and two runs are never under
\* way (Tui).
THEOREM ResultsAreOfTheForm == Spec => []ResultIsOfTheForm
<1>1. Invariant => ResultIsOfTheForm
  BY TuiIsTheSame, AI!TuiCount DEF Invariant, ResultIsOfTheForm
<1>2. QED
  BY <1>1, InvariantHolds, PTL

\* What is carried out is the kind of fix, and changes the object, that was chosen, although
\* the report may have been collected anew since (ClusterFixes).
THEOREM ChosenFixIsDone == Spec => []FixIsTheOneChosen
<1>1. Invariant => FixIsTheOneChosen
  BY FixIsTheSame DEF Invariant, AI!FixInv, FixIsTheOneChosen
<1>2. QED
  BY <1>1, InvariantHolds, PTL

\* No fix changes anything outside the namespace it was asked for (ClusterFixes).
THEOREM FixesStay == Spec => FixesStayInScope
<1>1. Invariant /\ [Next]_vars => (component = "fixes" => FIX!ScopeKept)
  BY ComponentsAssumption, OneMoves, FixIsTheSame, AI!FixKeeps DEF Invariant
<1>2. QED
  BY <1>1, InvariantHolds, PTL DEF Spec, FixesStayInScope

\* What was mended in a spec is not reported again until somebody changes the cluster
\* (ClusterFixes).
THEOREM SpecFixesHold == Spec => []SpecFixHolds
<1>1. Invariant => SpecFixHolds
  BY ComponentsAssumption, FixIsTheSame, AI!MendedIsNotReported DEF Invariant, SpecFixHolds
<1>2. QED
  BY <1>1, InvariantHolds, PTL

\* What a session does not have of its run, it counts, also when it was cut down again as it
\* was handed over; and its pages show every match once and in order (LogSession).
THEOREM CoverageIsVisible == Spec => []BoundedCoverageIsVisible
<1>1. Invariant => BoundedCoverageIsVisible
  BY ComponentsAssumption, SesIsTheSame, AI!SesVisible DEF Invariant, BoundedCoverageIsVisible
<1>2. QED
  BY <1>1, InvariantHolds, PTL
=============================================================================
