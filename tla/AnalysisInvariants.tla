-------------------------- MODULE AnalysisInvariants --------------------------
(***************************************************************************)
(* The inductive invariants of the components that analyse and present,    *)
(* each by itself: that its initial states have it and its steps keep it,  *)
(* whatever its constants.                                                 *)
(***************************************************************************)
EXTENDS MapReduce, FiniteSetTheorems, SequenceTheorems, WellFoundedInduction, TLAPS

CONSTANTS Plugins, Subcommands, Fields, MaxRuns, None,           \* Tui
          Clusters, Scopes, All, LabelKeys, App, Absent,         \* ClusterFixes
          Labels, Limits, Healths, MaxPods, MaxDrift, MaxFixes,
          MaxEvents, MaxBytes, PageSize, Sizes, MaxLines,        \* LogSession
          Profiles, MaxPlanSteps, Load, MaxTurns                 \* Planner

VARIABLES state, showHelp, plugin, subcmd, listed, filled, focus, runs, result, started,
          scope, cluster, findings, page, prompt, drifts, fixes, asOf, applied, cured,
          session, hub, explorer, run, parsed, origin,
          analyzer, turns, holds, intents, plan, suggestions

TUI == INSTANCE Tui
FIX == INSTANCE ClusterFixes
SES == INSTANCE LogSession
PLN == INSTANCE Planner

---------------------------------------------------------------------------
(* MapReduce: a report speaks for every chunk and a failure names its      *)
(* cause, however many chunks, slots and retries there are.                *)

Working == {"parse", "try", "call", "sleep"}

\* The chunks whose goroutine runs.
Busy == {i \in Chunks : job[i] \in Working}

Typed ==
    /\ next \in 1..(N + 1)
    /\ stopped \subseteq {"user", "map"}
    /\ job \in [Jobs -> {"new", "parse", "try", "call", "sleep", "over"}]
    /\ attempt \in [Jobs -> 0..MaxRetries]
    /\ results \subseteq Jobs
    /\ errs \in [Jobs -> {"none", "cancelled", "cause"}]
    /\ answer \subseteq {"report", "cancelled", "cause"}

\* Who sleeps has an attempt left.
Patient == \A k \in Jobs : job[k] = "sleep" => attempt[k] < MaxRetries

\* The group and the semaphore count the goroutines that run.
Counted ==
    /\ wg = Cardinality(Busy) /\ slots = Cardinality(Busy)
    /\ slots <= Concurrency

\* The loop has not reached a chunk, or has given it up, or its goroutine runs, or
\* that is over and has left its answer or its error.
Accounted ==
    \A i \in Chunks :
        /\ i >= next => job[i] = "new" /\ errs[i] = "none"
        /\ i < next /\ job[i] = "new" => errs[i] = "cancelled"
        /\ job[i] \in Working => errs[i] = "none"
        /\ job[i] = "over" /\ errs[i] = "none" => i \in results

\* The merging question is asked when all chunks are answered.
Merging ==
    job[0] # "new" => /\ next = N + 1 /\ Busy = {}
                      /\ \A i \in Chunks : errs[i] = "none"

\* Before that, siblings are cancelled because one of them has failed, and a chunk is
\* only cancelled if there is a reason.
Blamed ==
    /\ "map" \in stopped /\ "user" \notin stopped /\ job[0] = "new"
           => \E k \in Chunks : errs[k] = "cause"
    /\ \A i \in Chunks : errs[i] = "cancelled" => stopped # {}

\* Strengthens TypeOK, ReportIsWhole and FailureHasItsCause to an inductive invariant.
MapInv == /\ Typed /\ Patient /\ Counted /\ Accounted /\ Merging /\ Blamed
          /\ ReportIsWhole /\ FailureHasItsCause

---------------------------------------------------------------------------

\* There are finitely many goroutines, N at most.
LEMMA BusyFinite ==
    ASSUME MapReduceAssumption
    PROVE  IsFiniteSet(Busy) /\ Cardinality(Busy) \in 0..N
<1>1. IsFiniteSet(Chunks) /\ Cardinality(Chunks) = N
  BY FS_Interval DEF Chunks, MapReduceAssumption
<1>2. Busy \subseteq Chunks
  BY DEF Busy
<1>3. IsFiniteSet(Busy) /\ Cardinality(Busy) <= N
  BY <1>1, <1>2, FS_Subset
<1>4. QED
  BY <1>3, FS_CardinalityType, SMT DEF MapReduceAssumption

LEMMA InitHolds == ASSUME MapReduceAssumption, Init PROVE MapInv
<1>1. Busy = {}
  BY DEF Init, Busy, Working, Chunks, Jobs
<1>2. Cardinality(Busy) = 0
  BY <1>1, FS_EmptySet
<1>3. Typed
  BY DEF Init, Typed, MapReduceAssumption
<1>4. Counted
  BY <1>2 DEF Init, Counted, MapReduceAssumption
<1>5. Accounted
  BY DEF Init, Accounted, Chunks, Jobs, Working
<1>6. Merging /\ Blamed
  <2>1. 0 \in Jobs /\ Chunks \subseteq Jobs
    BY DEF Jobs, Chunks, MapReduceAssumption
  <2>2. QED
    BY <2>1 DEF Init, Merging, Blamed
<1>7. ReportIsWhole /\ FailureHasItsCause
  BY DEF Init, ReportIsWhole, FailureHasItsCause
<1>8. Patient
  BY DEF Init, Patient
<1>9. QED
  BY <1>3, <1>4, <1>5, <1>6, <1>7, <1>8 DEF MapInv

\* The next chunk's goroutine starts.
LEMMA TakeSlotKeeps ==
    ASSUME MapReduceAssumption, MapInv, NEW c \in Chunks, TakeSlot(c)
    PROVE  MapInv'
<1>1. c \in Nat /\ c \in Jobs /\ c # 0 /\ 0 \in Jobs /\ c <= N /\ N \in Nat
  BY DEF Chunks, Jobs, MapReduceAssumption
<1>2. job[c] = "new" /\ errs[c] = "none" /\ c \notin Busy
  BY <1>1 DEF MapInv, Accounted, TakeSlot, Typed, Busy, Working
<1>3. Busy' = Busy \cup {c}
  BY <1>1 DEF MapInv, Typed, TakeSlot, Busy, Working, Chunks, Jobs
<1>4. Cardinality(Busy') = Cardinality(Busy) + 1
  BY <1>2, <1>3, BusyFinite, FS_AddElement
<1>5. Typed'
  BY <1>1 DEF MapInv, Typed, TakeSlot
<1>6. Counted'
  BY <1>4, BusyFinite DEF MapInv, Counted, TakeSlot, MapReduceAssumption
<1>7. Accounted'
  BY <1>1 DEF MapInv, Accounted, Typed, TakeSlot, Working, Chunks, Jobs
<1>8. job[0] = "new" /\ job'[0] = "new"
  BY <1>1 DEF MapInv, Merging, Typed, TakeSlot
<1>9. Merging' /\ Blamed'
  BY <1>8 DEF MapInv, Merging, Blamed, TakeSlot
<1>10. ReportIsWhole' /\ FailureHasItsCause'
  BY DEF MapInv, ReportIsWhole, FailureHasItsCause, TakeSlot
<1>11. Patient'
  BY <1>1 DEF MapInv, Patient, Typed, TakeSlot
<1>12. QED
  BY <1>5, <1>6, <1>7, <1>9, <1>10, <1>11 DEF MapInv

\* The loop gives a chunk up.
LEMMA GiveUpKeeps ==
    ASSUME MapReduceAssumption, MapInv, NEW c \in Chunks, GiveUp(c)
    PROVE  MapInv'
<1>1. c \in Nat /\ c \in Jobs /\ c # 0 /\ 0 \in Jobs /\ c <= N /\ N \in Nat
  BY DEF Chunks, Jobs, MapReduceAssumption
<1>2. job[c] = "new" /\ errs[c] = "none" /\ stopped # {}
  BY <1>1 DEF MapInv, Accounted, GiveUp, Typed, Cancelled
<1>3. Busy' = Busy
  BY DEF GiveUp, Busy
<1>4. Typed'
  BY <1>1 DEF MapInv, Typed, GiveUp
<1>5. Counted'
  BY <1>3 DEF MapInv, Counted, GiveUp
<1>6. Accounted'
  BY <1>1, <1>2 DEF MapInv, Accounted, Typed, GiveUp, Working, Chunks, Jobs
<1>7. job[0] = "new"
  BY <1>1 DEF MapInv, Merging, GiveUp
<1>8. Merging'
  BY <1>7 DEF Merging, GiveUp
<1>9. Blamed'
  BY <1>1, <1>2 DEF MapInv, Blamed, Typed, GiveUp, Chunks, Jobs
<1>10. ReportIsWhole' /\ FailureHasItsCause'
  BY DEF MapInv, ReportIsWhole, FailureHasItsCause, GiveUp
<1>11. Patient'
  BY DEF MapInv, Patient, GiveUp
<1>12. QED
  BY <1>4, <1>5, <1>6, <1>8, <1>9, <1>10, <1>11 DEF MapInv

\* A job goes on.
LEMMA GoesKeeps ==
    ASSUME MapReduceAssumption, MapInv, NEW i \in Jobs, NEW from \in Working,
           NEW to \in Working, Goes(i, from, to),
           attempt' \in [Jobs -> 0..MaxRetries],
           \A k \in Jobs \ {i} : attempt'[k] = attempt[k],
           to = "sleep" => attempt'[i] < MaxRetries
    PROVE  MapInv'
<1>1. Busy' = Busy
  BY DEF MapInv, Typed, Goes, Busy, Working, Chunks, Jobs
<1>2. Typed'
  BY DEF MapInv, Typed, Goes, Working
<1>3. Counted'
  BY <1>1 DEF MapInv, Counted, Goes
<1>4. Accounted'
  BY DEF MapInv, Accounted, Typed, Goes, Working, Chunks, Jobs
<1>5. job'[0] = "new" <=> job[0] = "new"
  BY DEF MapInv, Typed, Goes, Working, Jobs
<1>6. Merging' /\ Blamed'
  BY <1>1, <1>5 DEF MapInv, Merging, Blamed, Goes
<1>7. ReportIsWhole' /\ FailureHasItsCause'
  BY DEF MapInv, ReportIsWhole, FailureHasItsCause, Goes
<1>8. Patient'
  BY DEF MapInv, Patient, Typed, Goes
<1>9. QED
  BY <1>2, <1>3, <1>4, <1>6, <1>7, <1>8 DEF MapInv

\* A job ends.  A chunk that is cancelled finds the context done.
LEMMA EndsKeeps ==
    ASSUME MapReduceAssumption, MapInv, NEW i \in Jobs, NEW from \in Working,
           NEW err \in {"none", "cancelled", "cause"}, Ends(i, from, err),
           err = "cancelled" => Cancelled(i)
    PROVE  MapInv'
<1>1. Typed'
  BY DEF MapInv, Typed, Ends, Working
<1>2. ReportIsWhole' /\ FailureHasItsCause'
  BY DEF MapInv, ReportIsWhole, FailureHasItsCause, Ends
<1>3. job'[i] = "over" /\ errs'[i] = err
  BY DEF MapInv, Typed, Ends
<1>4. Patient'
  BY DEF MapInv, Patient, Typed, Ends
<1>5. CASE i = 0
  <2>1. Busy' = Busy
    BY <1>5 DEF MapInv, Typed, Ends, Busy, Chunks, Jobs
  <2>2. \A k \in Chunks : job'[k] = job[k] /\ errs'[k] = errs[k]
    BY <1>5 DEF MapInv, Typed, Ends, Chunks, Jobs
  <2>3. results \subseteq results' /\ stopped' = stopped /\ next' = next
    BY <1>5 DEF Ends
  <2>4. job[0] # "new" /\ job'[0] # "new"
    BY <1>3, <1>5 DEF Ends, Working
  <2>5. Counted'
    BY <1>5, <2>1 DEF MapInv, Counted, Ends
  <2>6. Accounted'
    BY <2>2, <2>3 DEF MapInv, Accounted, Ends
  <2>7. Merging' /\ Blamed'
    BY <2>1, <2>2, <2>3, <2>4 DEF MapInv, Merging, Blamed
  <2>8. QED
    BY <1>1, <1>2, <1>4, <2>5, <2>6, <2>7 DEF MapInv
<1>6. CASE i # 0
  <2>1. i \in Chunks
    BY <1>6 DEF Chunks, Jobs
  <2>2. i \in Busy /\ Busy' = Busy \ {i}
    BY <2>1 DEF MapInv, Typed, Ends, Busy, Working, Chunks, Jobs
  <2>3. Cardinality(Busy') = Cardinality(Busy) - 1
    BY <2>2, BusyFinite, FS_RemoveElement
  <2>4. Counted'
    BY <1>6, <2>3, BusyFinite DEF MapInv, Counted, Ends, MapReduceAssumption
  <2>5. Accounted'
    BY <1>3, <2>1 DEF MapInv, Accounted, Typed, Ends, Working, Chunks, Jobs
  <2>6. job[0] = "new" /\ job'[0] = "new"
    BY <1>6, <2>2 DEF MapInv, Merging, Ends, Typed, Jobs
  <2>7. Merging'
    BY <2>6 DEF Merging
  <2>8. \A k \in Chunks : k # i => errs'[k] = errs[k]
    BY DEF MapInv, Typed, Ends, Chunks, Jobs
  <2>9. errs[i] = "none"
    BY <2>1 DEF MapInv, Accounted, Ends
  <2>10. err = "cancelled" => stopped # {}
    BY <1>6 DEF Cancelled
  <2>11. stopped \subseteq stopped'
    BY DEF Ends
  <2>12. \A k \in Chunks : errs'[k] = "cancelled" => stopped' # {}
    BY <1>3, <2>8, <2>10, <2>11 DEF MapInv, Blamed
  <2>13. ASSUME "map" \in stopped', "user" \notin stopped'
         PROVE  \E k \in Chunks : errs'[k] = "cause"
    <3>1. CASE err = "cause"
      BY <1>3, <2>1, <3>1
    <3>2. CASE err # "cause"
      <4>1. "map" \in stopped
        BY <2>10, <2>11, <2>13, <3>2 DEF Ends, MapInv, Typed
      <4>2. PICK k \in Chunks : errs[k] = "cause"
        BY <2>6, <2>11, <2>13, <4>1 DEF MapInv, Blamed
      <4>3. QED
        BY <2>8, <2>9, <4>2
    <3>3. QED
      BY <3>1, <3>2
  <2>14. Blamed'
    BY <2>12, <2>13 DEF Blamed
  <2>15. QED
    BY <1>1, <1>2, <1>4, <2>4, <2>5, <2>7, <2>14 DEF MapInv
<1>7. QED
  BY <1>5, <1>6

\* What the goroutines do.
LEMMA WorkKeeps ==
    ASSUME MapReduceAssumption, MapInv, NEW i \in Jobs, Work(i)
    PROVE  MapInv'
<1>1. attempt \in [Jobs -> 0..MaxRetries]
  BY DEF MapInv, Typed
<1>2. CASE Parse(i)
  BY <1>1, <1>2, GoesKeeps DEF Parse, Working
<1>3. CASE Call(i)
  BY <1>1, <1>3, GoesKeeps DEF Call, Working
<1>4. CASE Retry(i)
  BY <1>1, <1>4, GoesKeeps DEF Retry, Working
<1>5. CASE ParseFails(i)
  BY <1>5, EndsKeeps DEF ParseFails, Working
<1>6. CASE NoCall(i)
  BY <1>6, EndsKeeps DEF NoCall, Working
<1>7. CASE Answered(i)
  BY <1>7, EndsKeeps DEF Answered, Working
<1>8. CASE CallFails(i)
  BY <1>8, EndsKeeps DEF CallFails, Working
<1>9. CASE CallCancelled(i)
  BY <1>9, EndsKeeps DEF CallCancelled, Working
<1>10. CASE SleepCancelled(i)
  BY <1>10, EndsKeeps DEF SleepCancelled, Working
<1>11. CASE Wake(i)
  <2>1. attempt[i] \in 0..MaxRetries /\ attempt[i] < MaxRetries
    BY <1>1, <1>11 DEF Wake, Goes, MapInv, Patient
  <2>2. attempt' \in [Jobs -> 0..MaxRetries]
    BY <1>1, <1>11, <2>1 DEF Wake, MapReduceAssumption
  <2>3. \A k \in Jobs \ {i} : attempt'[k] = attempt[k]
    BY <1>1, <1>11 DEF Wake
  <2>4. QED
    BY <1>11, <2>2, <2>3, GoesKeeps DEF Wake, Working
<1>12. QED
  BY <1>2, <1>3, <1>4, <1>5, <1>6, <1>7, <1>8, <1>9, <1>10, <1>11 DEF Work

\* When the group is empty behind the loop, every chunk has its answer or an error.
LEMMA WaitedForAll ==
    ASSUME MapReduceAssumption, MapInv, Waited
    PROVE  /\ Busy = {}
           /\ \A i \in Chunks : errs[i] = "none" => i \in results
<1>1. Busy = {}
  BY BusyFinite, FS_EmptySet DEF MapInv, Counted, Waited
<1>2. ASSUME NEW i \in Chunks, errs[i] = "none"
      PROVE  i \in results
  <2>1. i < next
    BY DEF Waited, Chunks, MapReduceAssumption
  <2>2. job[i] = "over"
    BY <1>1, <1>2, <2>1 DEF MapInv, Typed, Accounted, Busy, Working, Chunks, Jobs
  <2>3. QED
    BY <1>2, <2>2 DEF MapInv, Accounted
<1>3. QED
  BY <1>1, <1>2

\* What Analyze does behind the map step.
LEMMA ReturnErrorKeeps ==
    ASSUME MapReduceAssumption, MapInv, ReturnError
    PROVE  MapInv'
<1>1. Joined \subseteq {"cancelled", "cause"}
  BY DEF Joined, Failed, MapInv, Typed, Chunks, Jobs
<1>2. Typed' /\ Patient' /\ Accounted'
  BY <1>1 DEF ReturnError, MapInv, Typed, Patient, Accounted
<1>3. Busy' = Busy
  BY DEF ReturnError, Busy
<1>4. Counted' /\ Merging' /\ Blamed'
  BY <1>3 DEF ReturnError, MapInv, Counted, Merging, Blamed
<1>5. ReportIsWhole'
  BY <1>1 DEF ReturnError, ReportIsWhole
<1>6. "user" \notin stopped => "cause" \in Joined
  <2>1. SUFFICES ASSUME "user" \notin stopped
                 PROVE  "cause" \in Joined
    OBVIOUS
  <2>2. PICK i \in Chunks : errs[i] # "none"
    BY DEF ReturnError, Failed
  <2>3. CASE errs[i] = "cause"
    BY <2>3 DEF Joined, Failed
  <2>4. CASE errs[i] = "cancelled"
    <3>1. "map" \in stopped
      BY <2>1, <2>4 DEF MapInv, Blamed, Typed
    <3>2. job[0] = "new"
      BY <2>2 DEF MapInv, Merging
    <3>3. PICK k \in Chunks : errs[k] = "cause"
      BY <2>1, <3>1, <3>2 DEF MapInv, Blamed
    <3>4. QED
      BY <3>3 DEF Joined, Failed
  <2>5. QED
    BY <2>2, <2>3, <2>4 DEF MapInv, Typed, Chunks, Jobs
<1>7. FailureHasItsCause'
  BY <1>6 DEF ReturnError, FailureHasItsCause
<1>8. QED
  BY <1>2, <1>4, <1>5, <1>7 DEF MapInv

LEMMA StartReduceKeeps ==
    ASSUME MapReduceAssumption, MapInv, StartReduce
    PROVE  MapInv'
<1>1. 0 \in Jobs /\ 0 \notin Chunks /\ Chunks \subseteq Jobs
  BY DEF Jobs, Chunks, MapReduceAssumption
<1>2. \A i \in Chunks : job'[i] = job[i]
  BY <1>1 DEF StartReduce, MapInv, Typed
<1>3. job'[0] = "parse" /\ stopped' # {}
  BY <1>1 DEF StartReduce, MapInv, Typed
<1>4. Busy' = Busy /\ Busy = {}
  BY <1>2, WaitedForAll DEF StartReduce, Busy
<1>5. Typed' /\ Patient'
  BY <1>1 DEF StartReduce, MapInv, Typed, Patient
<1>6. Counted' /\ Accounted'
  BY <1>2, <1>4 DEF StartReduce, MapInv, Counted, Accounted
<1>7. Merging'
  BY <1>4 DEF StartReduce, Merging, Waited, Failed
<1>8. Blamed'
  BY <1>3 DEF Blamed
<1>9. ReportIsWhole' /\ FailureHasItsCause'
  BY DEF StartReduce, Waited, ReportIsWhole, FailureHasItsCause
<1>10. QED
  BY <1>5, <1>6, <1>7, <1>8, <1>9 DEF MapInv

LEMMA ReturnReportKeeps ==
    ASSUME MapReduceAssumption, MapInv, ReturnReport
    PROVE  MapInv'
<1>1. Typed' /\ Patient' /\ Accounted'
  BY DEF ReturnReport, MapInv, Typed, Patient, Accounted
<1>2. Busy' = Busy
  BY DEF ReturnReport, Busy
<1>3. Counted' /\ Merging' /\ Blamed'
  BY <1>2 DEF ReturnReport, MapInv, Counted, Merging, Blamed
<1>4. Chunks \subseteq results
  BY WaitedForAll DEF ReturnReport, Failed
<1>5. ReportIsWhole' /\ FailureHasItsCause'
  BY <1>4 DEF ReturnReport, ReportIsWhole, FailureHasItsCause
<1>6. QED
  BY <1>1, <1>3, <1>5 DEF MapInv

LEMMA InterruptKeeps ==
    ASSUME MapReduceAssumption, MapInv, Interrupt
    PROVE  MapInv'
<1>1. Typed' /\ Patient' /\ Accounted'
  BY DEF Interrupt, MapInv, Typed, Patient, Accounted
<1>2. Busy' = Busy
  BY DEF Interrupt, Busy
<1>3. Counted' /\ Merging' /\ Blamed'
  BY <1>2 DEF Interrupt, MapInv, Counted, Merging, Blamed
<1>4. ReportIsWhole' /\ FailureHasItsCause'
  BY DEF Interrupt, ReportIsWhole, FailureHasItsCause
<1>5. QED
  BY <1>1, <1>3, <1>4 DEF MapInv

LEMMA StepKeeps ==
    ASSUME MapReduceAssumption, MapInv, [Next]_vars
    PROVE  MapInv'
<1>1. CASE Main
  BY <1>1, TakeSlotKeeps, GiveUpKeeps, ReturnErrorKeeps, StartReduceKeeps,
     ReturnReportKeeps DEF Main
<1>2. CASE \E i \in Jobs : Work(i)
  BY <1>2, WorkKeeps
<1>3. CASE Interrupt
  BY <1>3, InterruptKeeps
<1>4. CASE UNCHANGED vars
  BY <1>4 DEF vars, MapInv, Typed, Patient, Counted, Busy, Accounted, Merging, Blamed,
              ReportIsWhole, FailureHasItsCause
<1>5. QED
  BY <1>1, <1>2, <1>3, <1>4 DEF Next

---------------------------------------------------------------------------

\* The invariant holds of every state Analyze gets into (analyzer.go:97-240).
THEOREM MapInvHolds == ASSUME MapReduceAssumption PROVE Spec => []MapInv
<1>1. Init => MapInv
  BY InitHolds
<1>2. MapInv /\ [Next]_vars => MapInv'
  BY StepKeeps
<1>3. QED
  BY <1>1, <1>2, PTL DEF Spec

\* Types, and the bounds of the semaphore and the group, hold (analyzer.go:160-200).
THEOREM TypesAreKept == ASSUME MapReduceAssumption PROVE Spec => []TypeOK
<1>1. MapInv => TypeOK
  BY BusyFinite DEF MapInv, Typed, Counted, TypeOK, MapReduceAssumption
<1>2. QED
  BY <1>1, MapInvHolds, PTL

\* A report speaks for every chunk (analyzer.go:173-181).
THEOREM ReportsAreWhole == ASSUME MapReduceAssumption PROVE Spec => []ReportIsWhole
<1>1. MapInv => ReportIsWhole
  BY DEF MapInv
<1>2. QED
  BY <1>1, MapInvHolds, PTL

\* A failure says why, unless it was the user who stopped the analysis
\* (analyzer.go:173-200).
THEOREM FailuresHaveTheirCause ==
    ASSUME MapReduceAssumption PROVE Spec => []FailureHasItsCause
<1>1. MapInv => FailureHasItsCause
  BY DEF MapInv
<1>2. QED
  BY <1>1, MapInvHolds, PTL

---------------------------------------------------------------------------
(* Tui: on the running screen there is one run, of the form behind it; on  *)
(* all others there is none.                                               *)

TuiInv ==
    /\ state \in {"pluginList", "subcmdList", "flagForm", "running", "result", "quit"}
    /\ state \in {"pluginList", "subcmdList", "flagForm", "result"} => runs = {}
    /\ state = "running" => \E r \in runs : runs = {r} /\ r.call = TUI!Call
    /\ state = "result" => result = TUI!Call

LEMMA TuiStarts == ASSUME TUI!Init PROVE TuiInv
BY DEF TUI!Init, TuiInv

LEMMA TuiCount == ASSUME TuiInv PROVE TUI!ResultIsOfTheForm
<1>1. state # "quit" => runs = {} \/ \E r : runs = {r}
  BY DEF TuiInv
<1>2. \A S : TUI!Cardinality(S) = Cardinality(S)
  BY DEF TUI!Cardinality, Cardinality
<1>3. state # "quit" => TUI!Cardinality(runs) \in {0, 1}
  BY <1>1, <1>2, FS_EmptySet, FS_Singleton
<1> QED BY <1>3 DEF TuiInv, TUI!ResultIsOfTheForm

LEMMA TuiKeeps == ASSUME TuiInv, [TUI!Next]_(TUI!vars) PROVE TuiInv'
<1>1. CASE UNCHANGED TUI!vars
  BY <1>1 DEF TUI!vars, TuiInv, TUI!Call
<1>2. CASE \E p \in Plugins : TUI!selectPlugin(p)
  BY <1>2 DEF TuiInv, TUI!selectPlugin, TUI!selectSubcmd, TUI!Goes, TUI!run
<1>3. CASE \E sc \in listed : TUI!ChooseSubcmd(sc)
  BY <1>3 DEF TuiInv, TUI!ChooseSubcmd, TUI!selectSubcmd, TUI!Goes, TUI!run
<1>4. CASE TUI!Back
  BY <1>4 DEF TuiInv, TUI!Back, TUI!Goes, TUI!run
<1>5. CASE TUI!Type \/ \E delta \in {-1, 1} : TUI!moveFocus(delta)
  BY <1>5 DEF TuiInv, TUI!Type, TUI!moveFocus, TUI!run
<1>6. CASE TUI!submitForm
  <2> DEFINE r == [call |-> TUI!Call, n |-> started + 1]
  <2>1. /\ state \in {"flagForm", "result"} /\ state' = "running"
        /\ runs' = runs \cup {r} /\ UNCHANGED TUI!form
    BY <1>6 DEF TUI!submitForm, TUI!Goes
  <2>2. runs' = {r} /\ r.call = TUI!Call /\ TUI!Call' = TUI!Call
    BY <2>1 DEF TuiInv, TUI!form, TUI!Call
  <2> QED BY <2>1, <2>2 DEF TuiInv
<1>7. CASE TUI!Quit \/ TUI!QuitFromHelp
  BY <1>7 DEF TuiInv, TUI!Quit, TUI!QuitFromHelp, TUI!Goes
<1>8. CASE TUI!Help \/ TUI!CloseHelp
  BY <1>8 DEF TuiInv, TUI!Help, TUI!CloseHelp, TUI!form, TUI!run, TUI!Call
<1>9. ASSUME NEW r \in runs, TUI!Result(r) PROVE TuiInv'
  <2>1. state = "running"
    BY <1>9 DEF TuiInv, TUI!Result
  <2>2. runs = {r} /\ r.call = TUI!Call
    BY <2>1 DEF TuiInv
  <2> QED BY <1>9, <2>2 DEF TuiInv, TUI!Result, TUI!form, TUI!Call
<1> QED BY <1>1, <1>2, <1>3, <1>4, <1>5, <1>6, <1>7, <1>8, <1>9 DEF TUI!Next

---------------------------------------------------------------------------
(* ClusterFixes: a finding's identity says what its fix changes, which is  *)
(* in scope; and a fix of a spec that was proposed of the cluster as it is *)
(* leaves nothing to report.                                               *)

Both == {"cpu", "memory"}

\* The fix of f is of that kind, and changes what key names.
Fixes(f, kind, resource, key) ==
    /\ f.remediation.kind = kind /\ f.remediation.resource = resource
    /\ f.remediation.key = key /\ FIX!InScope(key)

Crashed(f)    == f.category = "Pods" /\ f.symptom \in {"CrashLoopBackOff", "OOMKilled"}
Stuck(f)      == f.category = "Pods" /\ f.symptom \in {"ImagePullBackOff", "Deployment stalled"}
Mismatched(f) == f.category = "Services" /\ f.symptom = "Service selector mismatch"
Unlimited(f)  == f.category = "Resources"
Suspended(f)  == f.category = "Workloads"

\* What the fix of a finding is and changes, as its identity says it.
FindingOK(f) ==
    /\ Crashed(f)    => Fixes(f, "delete-pod", "pod", f.key)
    /\ Stuck(f)      => Fixes(f, "rollout-restart", "deployment", f.key)
    /\ Mismatched(f) => Fixes(f, "patch-resource", "service", f.key)
    /\ Unlimited(f)  => /\ Fixes(f, "add-limits", "deployment", <<f.key[1], f.key[2][1]>>)
                        /\ f.symptom = "Resource limits missing"
    /\ Suspended(f)  => /\ Fixes(f, "resume-cronjob", "cronjob", f.key)
                        /\ f.symptom = "CronJob suspended"
    /\ \/ f.remediation = FIX!NoRemediation
       \/ Crashed(f) \/ Stuck(f) \/ Mismatched(f) \/ Unlimited(f) \/ Suspended(f)

\* The patch of f leaves no container of the deployment without limits.
Covers(f, c) ==
    f.remediation.kind = "add-limits" /\ f.remediation.key \in DOMAIN c.deployments =>
        \A x \in DOMAIN c.deployments[f.remediation.key].limits :
            \/ x \in f.remediation.patch
            \/ c.deployments[f.remediation.key].limits[x] = Both

\* What f was about is mended in the spec.
Mended(f, c) ==
    /\ f.remediation.kind = "add-limits" /\ f.remediation.key \in DOMAIN c.deployments =>
           \A x \in DOMAIN c.deployments[f.remediation.key].limits :
               c.deployments[f.remediation.key].limits[x] = Both
    /\ f.remediation.kind = "resume-cronjob" /\ f.remediation.key \in DOMAIN c.cronjobs =>
           ~c.cronjobs[f.remediation.key]

FixInv ==
    /\ FIX!IsCluster(cluster)
    /\ drifts \in Nat
    /\ asOf \in [findings : Int, prompt : Int]
    /\ asOf.findings <= drifts /\ asOf.prompt <= drifts
    /\ \A f \in findings \cup page \cup prompt \cup cured : FindingOK(f)
    /\ \A f \in prompt : f.remediation # FIX!NoRemediation
    /\ asOf.findings = drifts => \A f \in findings : Covers(f, cluster)
    /\ asOf.prompt = drifts => \A f \in prompt : Covers(f, cluster)
    /\ \A f \in cured : Mended(f, cluster)
    /\ FIX!FixIsTheOneChosen


LEMMA MismatchIsAnIssue ==
    ASSUME NEW c, NEW m \in FIX!collectSelectorMismatches(c)
    PROVE  m.key \in FIX!collectServiceIssues(c)
BY DEF FIX!collectSelectorMismatches

LEMMA ReportedAreOK ==
    ASSUME FIX!ClusterFixesAssumption, NEW c, FIX!IsCluster(c), NEW report \in FIX!Reports(c),
           NEW f \in report
    PROVE  FindingOK(f)
<1> USE DEF FindingOK, Fixes, Crashed, Stuck, Mismatched, Unlimited, Suspended,
            FIX!Finding, FIX!Remediation, FIX!NoRemediation
<1>1. PICK kept \in FIX!UnhealthyPods(c) : report = FIX!BuildFindings(c, kept)
  BY DEF FIX!Reports
<1>2. \A k \in kept : k \in DOMAIN c.pods /\ FIX!InScope(k)
  BY DEF FIX!UnhealthyPods, FIX!Pods
<1>3. ASSUME NEW k \in kept, f = FIX!PodFinding(c, k) PROVE FindingOK(f)
  <2>1. c.pods[k].health \in Healths /\ c.pods[k].health # "Deployment stalled"
    BY <1>2 DEF FIX!IsCluster, FIX!ClusterFixesAssumption
  <2>2. FIX!InScope(FIX!PodName(c, k))
    BY <1>2 DEF FIX!InScope, FIX!PodName
  <2> QED BY <1>3, <2>1, <2>2 DEF FIX!PodFinding
<1>4. ASSUME NEW k \in FIX!collectDeployments(c), f = FIX!StalledFinding(k)
      PROVE  FindingOK(f)
  BY <1>4 DEF FIX!StalledFinding, FIX!collectDeployments
<1>5. ASSUME NEW s \in FIX!collectServiceIssues(c), f = FIX!ServiceFinding(s)
      PROVE  FindingOK(f)
  BY <1>5 DEF FIX!ServiceFinding
<1>6. ASSUME NEW m \in FIX!collectSelectorMismatches(c), f = FIX!SelectorFinding(m)
      PROVE  FindingOK(f)
  <2>1. FIX!InScope(m.key)
    BY MismatchIsAnIssue DEF FIX!collectServiceIssues
  <2> QED BY <1>6, <2>1 DEF FIX!SelectorFinding
<1>7. ASSUME NEW k \in FIX!collectResourceGaps(c), f = FIX!GapFinding(c, k)
      PROVE  FindingOK(f)
  <2>1. k = <<k[1], k[2]>> /\ FIX!InScope(k)
    BY DEF FIX!collectResourceGaps, FIX!Pods, FIX!IsCluster
  <2> QED BY <1>7, <2>1 DEF FIX!GapFinding, FIX!PodName
<1>8. ASSUME NEW j \in FIX!collectCronJobIssues(c), f = FIX!CronJobFinding(j)
      PROVE  FindingOK(f)
  BY <1>8 DEF FIX!CronJobFinding, FIX!collectCronJobIssues
<1> HIDE DEF FindingOK
<1> QED BY <1>1, <1>3, <1>4, <1>5, <1>6, <1>7, <1>8 DEF FIX!BuildFindings

\* Of the fixes that are proposed, those that add limits are for gaps.
LEMMA LimitsAreForGaps ==
    ASSUME NEW c, NEW kept, NEW f \in FIX!BuildFindings(c, kept),
           f.remediation.kind = "add-limits"
    PROVE  \E k \in FIX!collectResourceGaps(c) : f = FIX!GapFinding(c, k)
<1> USE DEF FIX!Finding, FIX!Remediation, FIX!NoRemediation
<1>1. \A k : FIX!PodFinding(c, k).remediation.kind # "add-limits"
  BY DEF FIX!PodFinding
<1>2. \A k : /\ FIX!StalledFinding(k).remediation.kind # "add-limits"
             /\ FIX!ServiceFinding(k).remediation.kind # "add-limits"
             /\ FIX!SelectorFinding(k).remediation.kind # "add-limits"
             /\ FIX!CronJobFinding(k).remediation.kind # "add-limits"
  BY DEF FIX!StalledFinding, FIX!ServiceFinding, FIX!SelectorFinding, FIX!CronJobFinding
<1> QED BY <1>1, <1>2 DEF FIX!BuildFindings

\* The gaps of a settled cluster's pods are those of their templates.
LEMMA ReportedCover ==
    ASSUME NEW c, FIX!IsCluster(c), FIX!Settled(c), NEW report \in FIX!Reports(c),
           NEW f \in report
    PROVE  Covers(f, c)
<1>1. SUFFICES ASSUME f.remediation.kind = "add-limits",
                      f.remediation.key \in DOMAIN c.deployments,
                      NEW x \in DOMAIN c.deployments[f.remediation.key].limits
               PROVE  \/ x \in f.remediation.patch
                      \/ c.deployments[f.remediation.key].limits[x] = Both
  BY DEF Covers
<1>2. PICK kept : f \in FIX!BuildFindings(c, kept)
  BY DEF FIX!Reports
<1>3. PICK k \in FIX!collectResourceGaps(c) : f = FIX!GapFinding(c, k)
  BY <1>1, <1>2, LimitsAreForGaps
<1>4. f.remediation.key = k /\ f.remediation.patch = FIX!Gaps(c.pods[k])
  BY <1>3 DEF FIX!GapFinding, FIX!Finding, FIX!Remediation, FIX!gapPatch
<1>5. c.pods[k].limits = c.deployments[k].limits
  BY <1>1, <1>4 DEF FIX!IsCluster, FIX!Settled
<1> QED BY <1>1, <1>4, <1>5 DEF FIX!Gaps, Both

---------------------------------------------------------------------------

\* What a fix does to a cluster: it changes no pod itself, no object of another
\* namespace, and takes no limits away.
Mends(c, d, r) ==
    /\ FIX!IsCluster(d)
    /\ \A field \in {"deployments", "services", "cronjobs"} :
           /\ DOMAIN d[field] = DOMAIN c[field]
           /\ \A k \in DOMAIN c[field] : ~FIX!InScope(k) => d[field][k] = c[field][k]
    /\ \A k \in DOMAIN c.deployments :
           /\ DOMAIN d.deployments[k].limits = DOMAIN c.deployments[k].limits
           /\ \A x \in DOMAIN c.deployments[k].limits :
                  \/ d.deployments[k].limits[x] = c.deployments[k].limits[x]
                  \/ d.deployments[k].limits[x] = Both
    /\ \A j \in DOMAIN c.cronjobs : d.cronjobs[j] => c.cronjobs[j]
    /\ r.kind = "add-limits" =>
           \A x \in DOMAIN d.deployments[r.key].limits :
               x \in r.patch => d.deployments[r.key].limits[x] = Both
    /\ r.kind = "resume-cronjob" => ~d.cronjobs[r.key]

\* The cluster c but for its deployment k, which is t.
Replaced(c, k, t, d) ==
    /\ DOMAIN d = DOMAIN c
    /\ d.pods = c.pods /\ d.services = c.services /\ d.cronjobs = c.cronjobs
    /\ DOMAIN d.deployments = DOMAIN c.deployments
    /\ d.deployments[k] = t
    /\ \A l \in DOMAIN c.deployments \ {k} : d.deployments[l] = c.deployments[l]

LEMMA Replacing ==
    ASSUME NEW c, FIX!IsCluster(c), NEW k \in DOMAIN c.deployments, NEW t
    PROVE  Replaced(c, k, t, [c EXCEPT !.deployments[k] = t])
<1> DEFINE d == [c EXCEPT !.deployments[k] = t]
<1>1. /\ DOMAIN d = DOMAIN c
      /\ d.pods = c.pods /\ d.services = c.services /\ d.cronjobs = c.cronjobs
      /\ d.deployments = [c.deployments EXCEPT ![k] = t]
  BY DEF FIX!IsCluster
<1> HIDE DEF d
<1>2. Replaced(c, k, t, d)
  BY <1>1 DEF Replaced
<1> QED BY <1>2 DEF d

LEMMA TemplateMends ==
    ASSUME NEW c, FIX!IsCluster(c), NEW k \in DOMAIN c.deployments, FIX!InScope(k),
           NEW t, DOMAIN t = {"labels", "limits", "rollout"}, t.rollout = TRUE,
           DOMAIN t.limits = DOMAIN c.deployments[k].limits,
           \A x \in DOMAIN t.limits :
               t.limits[x] = c.deployments[k].limits[x] \/ t.limits[x] = Both,
           NEW r, r.kind # "resume-cronjob",
           r.kind = "add-limits" =>
               r.key = k /\ \A x \in DOMAIN t.limits : x \in r.patch => t.limits[x] = Both,
           NEW d, Replaced(c, k, t, d)
    PROVE  Mends(c, d, r)
<1>1. /\ DOMAIN d = DOMAIN c
      /\ d.pods = c.pods /\ d.services = c.services /\ d.cronjobs = c.cronjobs
      /\ DOMAIN d.deployments = DOMAIN c.deployments
  BY DEF Replaced
<1>2. /\ d.deployments[k] = t
      /\ \A l \in DOMAIN c.deployments \ {k} : d.deployments[l] = c.deployments[l]
  BY DEF Replaced
<1>3. FIX!IsCluster(d)
  <2>1. d.deployments[k].rollout \in BOOLEAN /\ d.deployments[k].rollout
    BY <1>2
  <2>2. \A l \in DOMAIN d.deployments :
            /\ l = <<l[1], l[2]>>
            /\ DOMAIN d.deployments[l] = {"labels", "limits", "rollout"}
            /\ DOMAIN d.pods[l] = {"serial", "labels", "limits", "health"}
            /\ d.pods[l].health \in Healths
    BY <1>1, <1>2 DEF FIX!IsCluster
  <2>3. \A l \in DOMAIN d.deployments \ {k} :
            /\ d.deployments[l].rollout \in BOOLEAN
            /\ ~d.deployments[l].rollout => d.pods[l].limits = d.deployments[l].limits
    BY <1>1, <1>2 DEF FIX!IsCluster
  <2> QED BY <1>1, <2>1, <2>2, <2>3 DEF FIX!IsCluster
<1>4. \A field \in {"deployments", "services", "cronjobs"} :
          /\ DOMAIN d[field] = DOMAIN c[field]
          /\ \A l \in DOMAIN c[field] : ~FIX!InScope(l) => d[field][l] = c[field][l]
  BY <1>1, <1>2
<1>5. \A l \in DOMAIN c.deployments :
          /\ DOMAIN d.deployments[l].limits = DOMAIN c.deployments[l].limits
          /\ \A x \in DOMAIN c.deployments[l].limits :
                 \/ d.deployments[l].limits[x] = c.deployments[l].limits[x]
                 \/ d.deployments[l].limits[x] = Both
  BY <1>2
<1> QED BY <1>1, <1>2, <1>3, <1>4, <1>5 DEF Mends

LEMMA FixMends ==
    ASSUME NEW c, FIX!IsCluster(c), NEW f, FindingOK(f),
           f.remediation # FIX!NoRemediation, FIX!Exists(f.remediation, c)
    PROVE  Mends(c, FIX!ApplyRemediation(f.remediation, c), f.remediation)
<1> DEFINE r == f.remediation
           d == FIX!ApplyRemediation(r, c)
<1>1. /\ FIX!InScope(r.key)
      /\ \/ r.kind = "delete-pod" /\ r.resource = "pod"
         \/ r.kind = "rollout-restart" /\ r.resource = "deployment"
         \/ r.kind = "patch-resource" /\ r.resource = "service"
         \/ r.kind = "add-limits" /\ r.resource = "deployment"
         \/ r.kind = "resume-cronjob" /\ r.resource = "cronjob"
  BY DEF FindingOK, Fixes
<1> HIDE DEF r
<1>2. CASE r.kind = "delete-pod"
  <2> DEFINE k == CHOOSE l \in DOMAIN c.pods : FIX!PodName(c, l) = r.key
             t == [c.deployments[k] EXCEPT !.rollout = TRUE]
  <2>1. k \in DOMAIN c.pods /\ FIX!PodName(c, k) = r.key
    BY <1>1, <1>2 DEF FIX!Exists, r
  <2>2. d = [c EXCEPT !.deployments[k].rollout = TRUE]
    BY <1>2 DEF FIX!ApplyRemediation, FIX!deletePod
  <2> HIDE DEF k
  <2>3. k \in DOMAIN c.deployments /\ FIX!InScope(k)
    BY <1>1, <2>1 DEF FIX!IsCluster, FIX!InScope, FIX!PodName
  <2>4. /\ DOMAIN t = {"labels", "limits", "rollout"} /\ t.rollout = TRUE
        /\ t.limits = c.deployments[k].limits
    BY <2>3 DEF FIX!IsCluster
  <2>5. Replaced(c, k, t, d)
    <3>1. d = [c EXCEPT !.deployments[k] = t]
      BY <2>2
    <3> HIDE DEF t
    <3> QED BY <2>3, <3>1, Replacing
  <2> HIDE DEF t, d
  <2> QED BY <1>2, <2>3, <2>4, <2>5, TemplateMends DEF d, r
<1>3. CASE r.kind = "rollout-restart"
  <2> DEFINE t == [c.deployments[r.key] EXCEPT !.rollout = TRUE]
  <2>1. r.key \in DOMAIN c.deployments
    BY <1>1, <1>3 DEF FIX!Exists, r
  <2>2. Replaced(c, r.key, t, d)
    <3>1. d = [c EXCEPT !.deployments[r.key] = t]
      BY <1>3 DEF FIX!ApplyRemediation, FIX!rolloutRestart
    <3> HIDE DEF t
    <3> QED BY <2>1, <3>1, Replacing
  <2>3. /\ DOMAIN t = {"labels", "limits", "rollout"} /\ t.rollout = TRUE
        /\ t.limits = c.deployments[r.key].limits
    BY <2>1 DEF FIX!IsCluster
  <2> HIDE DEF t, d
  <2> QED BY <1>1, <1>3, <2>1, <2>2, <2>3, TemplateMends DEF d, r
<1>4. CASE r.kind = "add-limits"
  <2> DEFINE old == c.deployments[r.key]
             t == [old EXCEPT !.rollout = TRUE,
                              !.limits = [x \in DOMAIN @ |->
                                             IF x \in r.patch THEN Both ELSE @[x]]]
  <2>1. r.key \in DOMAIN c.deployments
    BY <1>1, <1>4 DEF FIX!Exists, r
  <2>2. Replaced(c, r.key, t, d)
    <3>1. d = [c EXCEPT !.deployments[r.key].rollout = TRUE,
                        !.deployments[r.key].limits =
                            [x \in DOMAIN @ |-> IF x \in r.patch THEN Both ELSE @[x]]]
      BY <1>4 DEF FIX!ApplyRemediation, FIX!addResourceLimits, Both
    <3>2. d = [c EXCEPT !.deployments[r.key] = t]
      BY <2>1, <3>1 DEF FIX!IsCluster
    <3> HIDE DEF t
    <3> QED BY <2>1, <3>2, Replacing
  <2>3. /\ DOMAIN t = {"labels", "limits", "rollout"} /\ t.rollout = TRUE
        /\ DOMAIN t.limits = DOMAIN old.limits
        /\ \A x \in DOMAIN t.limits :
               t.limits[x] = IF x \in r.patch THEN Both ELSE old.limits[x]
    BY <2>1 DEF FIX!IsCluster
  <2> HIDE DEF t, d
  <2> QED BY <1>1, <1>4, <2>1, <2>2, <2>3, TemplateMends DEF d, r
<1>5. CASE r.kind = "patch-resource"
  <2>1. r.key \in DOMAIN c.services
    BY <1>1, <1>5 DEF FIX!Exists, r
  <2>2. PICK v : d = [c EXCEPT !.services[r.key] = v]
    BY <1>5 DEF FIX!ApplyRemediation, FIX!patchResource
  <2>3. /\ DOMAIN d = DOMAIN c
        /\ d.pods = c.pods /\ d.deployments = c.deployments /\ d.cronjobs = c.cronjobs
        /\ d.services = [c.services EXCEPT ![r.key] = v]
    BY <2>2 DEF FIX!IsCluster
  <2>4. FIX!IsCluster(d)
    BY <2>3 DEF FIX!IsCluster
  <2>5. \A field \in {"deployments", "services", "cronjobs"} :
            /\ DOMAIN d[field] = DOMAIN c[field]
            /\ \A l \in DOMAIN c[field] : ~FIX!InScope(l) => d[field][l] = c[field][l]
    BY <1>1, <2>1, <2>3
  <2> QED BY <1>5, <2>3, <2>4, <2>5 DEF Mends, r
<1>6. CASE r.kind = "resume-cronjob"
  <2>1. r.key \in DOMAIN c.cronjobs
    BY <1>1, <1>6 DEF FIX!Exists, r
  <2>2. d = [c EXCEPT !.cronjobs[r.key] = FALSE]
    BY <1>6 DEF FIX!ApplyRemediation, FIX!resumeCronJob
  <2>3. /\ DOMAIN d = DOMAIN c
        /\ d.pods = c.pods /\ d.deployments = c.deployments /\ d.services = c.services
        /\ d.cronjobs = [c.cronjobs EXCEPT ![r.key] = FALSE]
    BY <2>2 DEF FIX!IsCluster
  <2>4. FIX!IsCluster(d)
    BY <2>3 DEF FIX!IsCluster
  <2>5. \A field \in {"deployments", "services", "cronjobs"} :
            /\ DOMAIN d[field] = DOMAIN c[field]
            /\ \A l \in DOMAIN c[field] : ~FIX!InScope(l) => d[field][l] = c[field][l]
    BY <1>1, <2>1, <2>3
  <2> QED BY <1>6, <2>1, <2>3, <2>4, <2>5 DEF Mends, r
<1> QED BY <1>1, <1>2, <1>3, <1>4, <1>5, <1>6 DEF r

LEMMA MendsKeeps ==
    ASSUME NEW c, NEW d, NEW r, Mends(c, d, r)
    PROVE  /\ \A f : Covers(f, c) => Covers(f, d)
           /\ \A f : Mended(f, c) => Mended(f, d)
           /\ \A f : f.remediation = r /\ Covers(f, c) => Mended(f, d)
<1>1. /\ DOMAIN d.deployments = DOMAIN c.deployments
      /\ DOMAIN d.cronjobs = DOMAIN c.cronjobs
      /\ \A k \in DOMAIN c.deployments :
             /\ DOMAIN d.deployments[k].limits = DOMAIN c.deployments[k].limits
             /\ \A x \in DOMAIN c.deployments[k].limits :
                    \/ d.deployments[k].limits[x] = c.deployments[k].limits[x]
                    \/ d.deployments[k].limits[x] = Both
      /\ \A j \in DOMAIN c.cronjobs : d.cronjobs[j] => c.cronjobs[j]
      /\ r.kind = "add-limits" =>
             \A x \in DOMAIN d.deployments[r.key].limits :
                 x \in r.patch => d.deployments[r.key].limits[x] = Both
      /\ r.kind = "resume-cronjob" => ~d.cronjobs[r.key]
  BY DEF Mends
<1>2. ASSUME NEW f, Covers(f, c) PROVE Covers(f, d)
  BY <1>1, <1>2 DEF Covers
<1>3. ASSUME NEW f, Mended(f, c) PROVE Mended(f, d)
  BY <1>1, <1>3 DEF Mended
<1>4. ASSUME NEW f, f.remediation = r, Covers(f, c) PROVE Mended(f, d)
  BY <1>1, <1>4 DEF Covers, Mended
<1> QED BY <1>2, <1>3, <1>4

\* A fix that is carried out: what it was chosen for is what it changes.
LEMMA CarryOutKeeps ==
    ASSUME FixInv, NEW f, NEW g, NEW at, FIX!CarryOut(f, g, at),
           FindingOK(f), FindingOK(g), FIX!ID(f) = FIX!ID(g),
           g.remediation # FIX!NoRemediation, at = drifts => Covers(g, cluster)
    PROVE  /\ Mends(cluster, cluster', g.remediation)
           /\ \A e \in cured' : FindingOK(e) /\ Mended(e, cluster')
           /\ FIX!FixIsTheOneChosen'
<1>1. /\ FIX!Exists(g.remediation, cluster)
      /\ cluster' = FIX!ApplyRemediation(g.remediation, cluster)
      /\ applied' = [chosen |-> f.remediation, done |-> g.remediation]
      /\ cured' = IF at = drifts THEN cured \cup {g} ELSE cured
  BY DEF FIX!CarryOut
<1>2. Mends(cluster, cluster', g.remediation)
  BY <1>1, FixMends DEF FixInv
<1>3. \A e \in cured' : FindingOK(e) /\ Mended(e, cluster')
  BY <1>1, <1>2, MendsKeeps DEF FixInv
<1>4. FIX!FixIsTheOneChosen'
  <2>1. /\ f.remediation.kind = g.remediation.kind
        /\ f.remediation.resource = g.remediation.resource
        /\ f.remediation.key = g.remediation.key
    <3>1. f.category = g.category /\ f.symptom = g.symptom /\ f.key = g.key
      BY DEF FIX!ID
    <3> QED BY <3>1 DEF FindingOK, Fixes, Crashed, Stuck, Mismatched, Unlimited, Suspended
  <2> QED BY <1>1, <2>1 DEF FIX!FixIsTheOneChosen
<1> QED BY <1>2, <1>3, <1>4

LEMMA ScopeStays == ASSUME UNCHANGED scope PROVE \A f : FindingOK(f) => FindingOK(f)'
<1>1. \A k : FIX!InScope(k) => FIX!InScope(k)'
  BY DEF FIX!InScope
<1> QED BY <1>1, ZenonT(60) DEF FindingOK, Fixes, Crashed, Stuck, Mismatched, Unlimited, Suspended,
                    FIX!NoRemediation

\* What was reported of the cluster as it is covers it.
LEMMA ReportedNow ==
    ASSUME FIX!ClusterFixesAssumption, FixInv, NEW c, FIX!IsCluster(c),
           NEW report \in FIX!Reports(c), NEW at, at = FIX!Now(c)
    PROVE  /\ at \in Int /\ at <= drifts
           /\ \A f \in report : FindingOK(f) /\ (at = drifts => Covers(f, c))
<1>1. drifts \in Nat
  BY DEF FixInv
<1>2. at = IF FIX!Settled(c) THEN drifts ELSE -1
  BY DEF FIX!Now, FIX!Never
<1>3. at = drifts => FIX!Settled(c)
  BY <1>1, <1>2
<1> QED BY <1>1, <1>2, <1>3, ReportedAreOK, ReportedCover

LEMMA FixStarts == ASSUME FIX!ClusterFixesAssumption, FIX!Init PROVE FixInv
<1>1. FIX!IsCluster(cluster)
  BY DEF FIX!Init, FIX!ClusterFixesAssumption
<1>2. /\ findings = {} /\ page = {} /\ prompt = {} /\ cured = {} /\ drifts = 0
      /\ asOf = [findings |-> -1, prompt |-> -1]
  BY DEF FIX!Init, FIX!Never
<1>3. FIX!FixIsTheOneChosen
  BY DEF FIX!Init, FIX!FixIsTheOneChosen, FIX!NoRemediation
<1> QED BY <1>1, <1>2, <1>3 DEF FixInv

\* A step that changes neither the cluster nor what was fixed.
LEMMA ReportKeeps ==
    ASSUME FIX!ClusterFixesAssumption, FixInv,
           FIX!Collect \/ FIX!Poll \/ FIX!StartFix \/ FIX!EndFix
    PROVE  FixInv' /\ FIX!ScopeKept
<1>1. UNCHANGED <<scope, cluster, drifts, fixes, applied, cured>>
  BY DEF FIX!Collect, FIX!Poll, FIX!StartFix, FIX!EndFix
<1>2. /\ asOf' \in [findings : Int, prompt : Int]
      /\ asOf'.findings <= drifts /\ asOf'.prompt <= drifts
      /\ \A f \in findings' \cup page' \cup prompt' : FindingOK(f)
      /\ asOf'.findings = drifts => \A f \in findings' : Covers(f, cluster)
      /\ asOf'.prompt = drifts => \A f \in prompt' : Covers(f, cluster)
      /\ \A f \in prompt' : f.remediation # FIX!NoRemediation
  <2> DEFINE at == FIX!Now(cluster)
  <2>1. \A report \in FIX!Reports(cluster) :
            /\ at \in Int /\ at <= drifts
            /\ \A f \in report : FindingOK(f) /\ (at = drifts => Covers(f, cluster))
    BY ReportedNow DEF FixInv
  <2> HIDE DEF at
  <2>2. CASE FIX!Collect
    <3>1. /\ findings' \in FIX!Reports(cluster)
          /\ asOf' = [asOf EXCEPT !.findings = at]
          /\ UNCHANGED <<page, prompt>>
      BY <2>2 DEF FIX!Collect, at
    <3>2. asOf'.findings = at /\ asOf'.prompt = asOf.prompt
      BY <3>1 DEF FixInv
    <3> QED BY <2>1, <3>1, <3>2 DEF FixInv
  <2>3. CASE FIX!StartFix
    <3>1. PICK report \in FIX!Reports(cluster) :
              prompt' = {f \in report : f.remediation # FIX!NoRemediation}
      BY <2>3 DEF FIX!StartFix
    <3>2. asOf' = [asOf EXCEPT !.prompt = at] /\ UNCHANGED <<page, findings>>
      BY <2>3 DEF FIX!StartFix, at
    <3>3. asOf'.prompt = at /\ asOf'.findings = asOf.findings
      BY <3>2 DEF FixInv
    <3> QED BY <2>1, <3>1, <3>2, <3>3 DEF FixInv
  <2>4. CASE FIX!Poll
    BY <2>4 DEF FIX!Poll, FixInv
  <2>5. CASE FIX!EndFix
    BY <2>5 DEF FIX!EndFix, FixInv
  <2> QED BY <2>2, <2>3, <2>4, <2>5
<1>3. \A f \in cured' : Mended(f, cluster')
  BY <1>1 DEF FixInv
<1>4. \A f \in findings' \cup page' \cup prompt' \cup cured' : FindingOK(f)'
  BY <1>1, <1>2, ScopeStays DEF FixInv
<1> QED BY <1>1, <1>2, <1>3, <1>4 DEF FixInv, FIX!ScopeKept, FIX!FixIsTheOneChosen

\* A step that carries out a fix of the dashboard's or of the prompt's findings.
LEMMA FixStepKeeps ==
    ASSUME FIX!ClusterFixesAssumption, FixInv,
           \/ \E f \in page : FIX!doFix(f)
           \/ \E f \in prompt : FIX!AnswerYes(f)
    PROVE  FixInv' /\ FIX!ScopeKept
<1>1. PICK f, g, at :
          /\ FIX!CarryOut(f, g, at)
          /\ FindingOK(f) /\ FindingOK(g) /\ FIX!ID(f) = FIX!ID(g)
          /\ g.remediation # FIX!NoRemediation
          /\ at = drifts => Covers(g, cluster)
          /\ UNCHANGED <<scope, page, drifts>>
          /\ prompt' \subseteq prompt
          /\ \/ findings' \in FIX!Reports(cluster')
                /\ asOf' = [asOf EXCEPT !.findings = FIX!Now(cluster')]
             \/ UNCHANGED <<findings, asOf>>
  <2>1. ASSUME NEW f \in page, FIX!doFix(f)
        PROVE  \E g \in findings :
                   /\ FIX!CarryOut(f, g, asOf.findings)
                   /\ FIX!ID(f) = FIX!ID(g) /\ g.remediation # FIX!NoRemediation
                   /\ UNCHANGED <<scope, page, drifts, prompt>>
                   /\ \/ findings' \in FIX!Reports(cluster')
                         /\ asOf' = [asOf EXCEPT !.findings = FIX!Now(cluster')]
                      \/ UNCHANGED <<findings, asOf>>
    BY <2>1 DEF FIX!doFix
  <2>2. ASSUME NEW f \in prompt, FIX!AnswerYes(f)
        PROVE  /\ FIX!CarryOut(f, f, asOf.prompt)
               /\ UNCHANGED <<scope, page, drifts, findings, asOf>>
               /\ prompt' \subseteq prompt /\ f.remediation # FIX!NoRemediation
    BY <2>2 DEF FIX!AnswerYes, FixInv
  <2>3. CASE \E f \in page : FIX!doFix(f)
    BY <2>1, <2>3 DEF FixInv
  <2>4. CASE \E f \in prompt : FIX!AnswerYes(f)
    <3>1. PICK f \in prompt : FIX!AnswerYes(f)
      BY <2>4
    <3>2. FindingOK(f) /\ (asOf.prompt = drifts => Covers(f, cluster)) /\ f \in prompt
      BY DEF FixInv
    <3> QED BY <2>2, <3>1, <3>2
  <2> QED BY <2>3, <2>4
<1>2. /\ Mends(cluster, cluster', g.remediation)
      /\ \A e \in cured' : FindingOK(e) /\ Mended(e, cluster')
      /\ FIX!FixIsTheOneChosen'
  BY <1>1, CarryOutKeeps
<1>3. FIX!IsCluster(cluster') /\ FIX!ScopeKept
  BY <1>2 DEF Mends, FIX!ScopeKept
<1>4. \A e : Covers(e, cluster) => Covers(e, cluster')
  BY <1>2, MendsKeeps
<1>5. /\ asOf' \in [findings : Int, prompt : Int]
      /\ asOf'.findings <= drifts /\ asOf'.prompt <= drifts
      /\ \A e \in findings' : FindingOK(e)
      /\ asOf'.findings = drifts => \A e \in findings' : Covers(e, cluster')
      /\ asOf'.prompt = asOf.prompt
  <2>1. CASE UNCHANGED <<findings, asOf>>
    BY <1>4, <2>1 DEF FixInv
  <2> DEFINE new == FIX!Now(cluster')
  <2>2. CASE findings' \in FIX!Reports(cluster') /\ asOf' = [asOf EXCEPT !.findings = new]
    <3>1. /\ new \in Int /\ new <= drifts
          /\ \A e \in findings' : FindingOK(e) /\ (new = drifts => Covers(e, cluster'))
      BY <1>3, <2>2, ReportedNow
    <3> HIDE DEF new
    <3>2. asOf'.findings = new /\ asOf'.prompt = asOf.prompt
      BY <2>2 DEF FixInv
    <3> QED BY <2>2, <3>1, <3>2 DEF FixInv
  <2> QED BY <1>1, <2>1, <2>2
<1>6. \A e \in findings' \cup page' \cup prompt' \cup cured' : FindingOK(e)
  BY <1>1, <1>2, <1>5 DEF FixInv
<1>7. \A e \in findings' \cup page' \cup prompt' \cup cured' : FindingOK(e)'
  BY <1>1, <1>6, ScopeStays
<1>8. /\ asOf'.prompt = drifts' => \A e \in prompt' : Covers(e, cluster')
      /\ \A e \in prompt' : e.remediation # FIX!NoRemediation
  BY <1>1, <1>4, <1>5 DEF FixInv
<1> QED BY <1>1, <1>2, <1>3, <1>5, <1>7, <1>8 DEF FixInv

\* A pod is replaced by one that has the limits of its template.
LEMMA RolloutKeeps ==
    ASSUME FIX!ClusterFixesAssumption, FixInv,
           NEW k \in DOMAIN cluster.deployments, FIX!Rollout(k)
    PROVE  FixInv' /\ FIX!ScopeKept
<1>1. PICK health \in Healths :
          cluster' = [cluster EXCEPT
              !.deployments[k].rollout = FALSE,
              !.pods[k] = FIX!NewPod(cluster.deployments[k], @.serial + 1, health)]
  BY DEF FIX!Rollout
<1>2. /\ UNCHANGED <<scope, findings, page, prompt, drifts, fixes, asOf, applied>>
      /\ cured' \subseteq cured
  BY DEF FIX!Rollout
<1> DEFINE t == [cluster.deployments[k] EXCEPT !.rollout = FALSE]
           pod == FIX!NewPod(cluster.deployments[k], cluster.pods[k].serial + 1, health)
<1>3. /\ DOMAIN cluster' = DOMAIN cluster /\ UNCHANGED cluster.cronjobs
      /\ cluster'.deployments = [cluster.deployments EXCEPT ![k] = t]
      /\ cluster'.pods = [cluster.pods EXCEPT ![k] = pod]
  BY <1>1 DEF FixInv, FIX!IsCluster
<1>4. /\ DOMAIN t = {"labels", "limits", "rollout"} /\ t.rollout = FALSE
      /\ t.limits = cluster.deployments[k].limits
  BY DEF FixInv, FIX!IsCluster
<1>5. /\ DOMAIN pod = {"serial", "labels", "limits", "health"}
      /\ pod.limits = cluster.deployments[k].limits /\ pod.health = health
  BY DEF FIX!NewPod
<1> HIDE DEF t, pod
<1>6. /\ DOMAIN cluster'.deployments = DOMAIN cluster.deployments
      /\ DOMAIN cluster'.pods = DOMAIN cluster.pods
      /\ cluster'.deployments[k] = t /\ cluster'.pods[k] = pod
      /\ \A l \in DOMAIN cluster.deployments \ {k} :
             /\ cluster'.deployments[l] = cluster.deployments[l]
             /\ cluster'.pods[l] = cluster.pods[l]
  BY <1>3 DEF FixInv, FIX!IsCluster
<1>7. FIX!IsCluster(cluster')
  <2>1. \A l \in DOMAIN cluster'.deployments :
            /\ l = <<l[1], l[2]>>
            /\ DOMAIN cluster'.deployments[l] = {"labels", "limits", "rollout"}
            /\ DOMAIN cluster'.pods[l] = {"serial", "labels", "limits", "health"}
            /\ cluster'.pods[l].health \in Healths
    BY <1>4, <1>5, <1>6 DEF FixInv, FIX!IsCluster
  <2>2. cluster'.deployments[k].rollout \in BOOLEAN
    BY <1>4, <1>6
  <2>3. cluster'.pods[k].limits = cluster'.deployments[k].limits
    BY <1>4, <1>5, <1>6
  <2>4. \A l \in DOMAIN cluster'.deployments \ {k} :
            /\ cluster'.deployments[l].rollout \in BOOLEAN
            /\ ~cluster'.deployments[l].rollout =>
                   cluster'.pods[l].limits = cluster'.deployments[l].limits
    BY <1>6 DEF FixInv, FIX!IsCluster
  <2> QED BY <1>3, <1>6, <2>1, <2>2, <2>3, <2>4 DEF FixInv, FIX!IsCluster
<1>8. \A l \in DOMAIN cluster.deployments :
          cluster'.deployments[l].limits = cluster.deployments[l].limits
  BY <1>4, <1>6
<1>9. \A f : /\ Covers(f, cluster) => Covers(f, cluster')
             /\ Mended(f, cluster) => Mended(f, cluster')
  BY <1>3, <1>6, <1>8 DEF Covers, Mended
<1>10. \A f \in findings' \cup page' \cup prompt' \cup cured' : FindingOK(f)'
  BY <1>2, ScopeStays DEF FixInv
<1> QED BY <1>2, <1>7, <1>9, <1>10 DEF FixInv, FIX!ScopeKept, FIX!FixIsTheOneChosen

\* Somebody changes the cluster: nothing was reported of it as it is now.
LEMMA DriftKeeps ==
    ASSUME FixInv, FIX!Drift, FIX!IsCluster(cluster')
    PROVE  FixInv' /\ FIX!ScopeKept
<1>1. /\ UNCHANGED <<scope, findings, page, prompt, fixes, asOf, applied>>
      /\ drifts' = drifts + 1 /\ cured' = {}
  BY DEF FIX!Drift
<1>2. /\ drifts' \in Nat /\ asOf.findings < drifts' /\ asOf.prompt < drifts'
      /\ asOf.findings \in Int /\ asOf.prompt \in Int
  BY <1>1 DEF FixInv
<1>3. \A f \in findings' \cup page' \cup prompt' \cup cured' : FindingOK(f)'
  BY <1>1, ScopeStays DEF FixInv
<1>4. asOf'.findings # drifts' /\ asOf'.prompt # drifts'
      /\ asOf'.findings <= drifts' /\ asOf'.prompt <= drifts'
  BY <1>1, <1>2
<1> QED BY <1>1, <1>2, <1>3, <1>4 DEF FixInv, FIX!ScopeKept, FIX!FixIsTheOneChosen

LEMMA DriftIsToACluster ==
    ASSUME FIX!IsCluster(cluster),
           \/ \E k \in DOMAIN cluster.deployments :
                  FIX!Turns(k) \/ FIX!Deploy(k) \/ FIX!Delete(k)
           \/ \E j \in DOMAIN cluster.cronjobs : FIX!Suspend(j)
    PROVE  FIX!Drift /\ FIX!IsCluster(cluster')
<1>1. ASSUME NEW k \in DOMAIN cluster.deployments, FIX!Turns(k)
      PROVE  FIX!IsCluster(cluster')
  <2>1. PICK health \in Healths : cluster' = [cluster EXCEPT !.pods[k].health = health]
    BY <1>1 DEF FIX!Turns
  <2> DEFINE pod == [cluster.pods[k] EXCEPT !.health = health]
  <2>2. /\ DOMAIN pod = {"serial", "labels", "limits", "health"}
        /\ pod.health = health /\ pod.limits = cluster.pods[k].limits
    BY DEF FIX!IsCluster
  <2>3. /\ DOMAIN cluster' = DOMAIN cluster
        /\ UNCHANGED <<cluster.deployments, cluster.cronjobs>>
        /\ cluster'.pods = [cluster.pods EXCEPT ![k] = pod]
    BY <2>1 DEF FIX!IsCluster
  <2> HIDE DEF pod
  <2>4. /\ DOMAIN cluster'.pods = DOMAIN cluster.pods /\ cluster'.pods[k] = pod
        /\ \A l \in DOMAIN cluster.pods \ {k} : cluster'.pods[l] = cluster.pods[l]
    BY <2>3 DEF FIX!IsCluster
  <2> QED BY <2>2, <2>3, <2>4 DEF FIX!IsCluster
<1>2. ASSUME NEW k \in DOMAIN cluster.deployments, FIX!Deploy(k)
      PROVE  FIX!IsCluster(cluster')
  <2>1. PICK labels \in Labels, limits \in Limits :
            cluster' = [cluster EXCEPT !.deployments[k] =
                           [labels |-> labels, limits |-> limits, rollout |-> TRUE]]
    BY <1>2 DEF FIX!Deploy
  <2> DEFINE t == [labels |-> labels, limits |-> limits, rollout |-> TRUE]
  <2>2. DOMAIN t = {"labels", "limits", "rollout"} /\ t.rollout = TRUE
    OBVIOUS
  <2>3. Replaced(cluster, k, t, cluster')
    BY <2>1, Replacing
  <2> HIDE DEF t
  <2>4. /\ DOMAIN cluster' = DOMAIN cluster
        /\ UNCHANGED <<cluster.pods, cluster.cronjobs>>
        /\ DOMAIN cluster'.deployments = DOMAIN cluster.deployments
        /\ cluster'.deployments[k] = t
        /\ \A l \in DOMAIN cluster.deployments \ {k} :
               cluster'.deployments[l] = cluster.deployments[l]
    BY <2>3 DEF Replaced
  <2>5. cluster'.deployments[k].rollout \in BOOLEAN /\ cluster'.deployments[k].rollout
    BY <2>2, <2>4
  <2>6. \A l \in DOMAIN cluster'.deployments :
            /\ l = <<l[1], l[2]>>
            /\ DOMAIN cluster'.deployments[l] = {"labels", "limits", "rollout"}
            /\ DOMAIN cluster'.pods[l] = {"serial", "labels", "limits", "health"}
            /\ cluster'.pods[l].health \in Healths
    BY <2>2, <2>4 DEF FIX!IsCluster
  <2>7. \A l \in DOMAIN cluster'.deployments \ {k} :
            /\ cluster'.deployments[l].rollout \in BOOLEAN
            /\ ~cluster'.deployments[l].rollout =>
                   cluster'.pods[l].limits = cluster'.deployments[l].limits
    BY <2>4 DEF FIX!IsCluster
  <2> QED BY <2>4, <2>5, <2>6, <2>7 DEF FIX!IsCluster
<1>3. ASSUME NEW k \in DOMAIN cluster.deployments, FIX!Delete(k)
      PROVE  FIX!IsCluster(cluster')
  <2>1. cluster' = [cluster EXCEPT
            !.deployments = [l \in DOMAIN @ \ {k} |-> @[l]],
            !.pods = [l \in DOMAIN @ \ {k} |-> @[l]]]
    BY <1>3 DEF FIX!Delete
  <2>2. /\ DOMAIN cluster' = DOMAIN cluster /\ UNCHANGED cluster.cronjobs
        /\ DOMAIN cluster'.deployments = DOMAIN cluster.deployments \ {k}
        /\ DOMAIN cluster'.pods = DOMAIN cluster.pods \ {k}
        /\ \A l \in DOMAIN cluster.deployments \ {k} :
               /\ cluster'.deployments[l] = cluster.deployments[l]
               /\ cluster'.pods[l] = cluster.pods[l]
    BY <2>1 DEF FIX!IsCluster
  <2> QED BY <2>2 DEF FIX!IsCluster
<1>4. ASSUME NEW j \in DOMAIN cluster.cronjobs, FIX!Suspend(j)
      PROVE  FIX!IsCluster(cluster')
  <2>1. cluster' = [cluster EXCEPT !.cronjobs[j] = TRUE]
    BY <1>4 DEF FIX!Suspend
  <2>2. /\ DOMAIN cluster' = DOMAIN cluster
        /\ UNCHANGED <<cluster.deployments, cluster.pods>>
        /\ cluster'.cronjobs = [cluster.cronjobs EXCEPT ![j] = TRUE]
    BY <2>1 DEF FIX!IsCluster
  <2> QED BY <2>2 DEF FIX!IsCluster
<1>5. FIX!Drift
  BY DEF FIX!Turns, FIX!Deploy, FIX!Delete, FIX!Suspend
<1> QED BY <1>1, <1>2, <1>3, <1>4, <1>5

LEMMA FixKeeps ==
    ASSUME FIX!ClusterFixesAssumption, FixInv, [FIX!Next]_(FIX!vars)
    PROVE  FixInv' /\ FIX!ScopeKept
<1>1. CASE UNCHANGED FIX!vars
  <2>1. UNCHANGED <<scope, cluster, findings, page, prompt, drifts, fixes, asOf, applied,
                    cured>>
    BY <1>1 DEF FIX!vars
  <2>2. \A f \in findings' \cup page' \cup prompt' \cup cured' : FindingOK(f)'
    BY <2>1, ScopeStays DEF FixInv
  <2> QED BY <2>1, <2>2 DEF FixInv, FIX!ScopeKept, FIX!FixIsTheOneChosen
<1>2. CASE \/ \E k \in DOMAIN cluster.deployments :
                  FIX!Turns(k) \/ FIX!Deploy(k) \/ FIX!Delete(k)
           \/ \E j \in DOMAIN cluster.cronjobs : FIX!Suspend(j)
  <2>1. FIX!IsCluster(cluster)
    BY DEF FixInv
  <2> QED BY <1>2, <2>1, DriftIsToACluster, DriftKeeps
<1> QED BY <1>1, <1>2, ReportKeeps, FixStepKeeps, RolloutKeeps DEF FIX!Next

\* What is mended in the spec is not reported once the rollouts are done.
LEMMA MendedIsNotReported ==
    ASSUME FIX!ClusterFixesAssumption, FixInv
    PROVE  FIX!SpecFixHolds
<1>1. SUFFICES ASSUME FIX!Settled(cluster), NEW f \in cured,
                      f.remediation.kind \in {"add-limits", "resume-cronjob"},
                      NEW report \in FIX!Reports(cluster), NEW g \in report,
                      g.symptom = f.symptom,
                      g.remediation # FIX!NoRemediation,
                      g.remediation.key = f.remediation.key
               PROVE  FALSE
  BY DEF FIX!SpecFixHolds, FIX!Gone, FIX!Recurs
<1>2. FIX!IsCluster(cluster) /\ FindingOK(f) /\ Mended(f, cluster)
  BY DEF FixInv
<1>3. PICK kept \in FIX!UnhealthyPods(cluster) : g \in FIX!BuildFindings(cluster, kept)
  BY DEF FIX!Reports
<1>4. kept \subseteq DOMAIN cluster.pods
  BY DEF FIX!UnhealthyPods, FIX!Pods
<1>5. \/ f.remediation.kind = "add-limits" /\ f.symptom = "Resource limits missing"
      \/ f.remediation.kind = "resume-cronjob" /\ f.symptom = "CronJob suspended"
  <2>1. f.remediation # FIX!NoRemediation
    BY <1>1 DEF FIX!NoRemediation
  <2>2. /\ Crashed(f) => f.remediation.kind = "delete-pod"
        /\ Stuck(f) => f.remediation.kind = "rollout-restart"
        /\ Mismatched(f) => f.remediation.kind = "patch-resource"
        /\ Unlimited(f) => /\ f.remediation.kind = "add-limits"
                           /\ f.symptom = "Resource limits missing"
        /\ Suspended(f) => /\ f.remediation.kind = "resume-cronjob"
                           /\ f.symptom = "CronJob suspended"
        /\ Crashed(f) \/ Stuck(f) \/ Mismatched(f) \/ Unlimited(f) \/ Suspended(f)
    BY <1>2, <2>1 DEF FindingOK, Fixes
  <2> QED BY <1>1, <2>2
<1>6. ASSUME NEW k \in kept, g = FIX!PodFinding(cluster, k) PROVE FALSE
  <2>1. g.symptom \in Healths
    BY <1>2, <1>4, <1>6 DEF FIX!IsCluster, FIX!PodFinding, FIX!Finding
  <2> QED BY <1>1, <1>5, <2>1 DEF FIX!ClusterFixesAssumption
<1>7. ASSUME NEW k, \/ g = FIX!StalledFinding(k) \/ g = FIX!ServiceFinding(k)
                    \/ g = FIX!SelectorFinding(k)
      PROVE  FALSE
  <2>1. g.symptom \in {"Deployment stalled", "Service no endpoints",
                       "Service selector mismatch"}
    <3>1. CASE g = FIX!StalledFinding(k)
      BY <3>1 DEF FIX!StalledFinding, FIX!Finding
    <3>2. CASE g = FIX!ServiceFinding(k)
      BY <3>2 DEF FIX!ServiceFinding, FIX!Finding
    <3>3. CASE g = FIX!SelectorFinding(k)
      BY <3>3 DEF FIX!SelectorFinding, FIX!Finding
    <3> QED BY <1>7, <3>1, <3>2, <3>3
  <2> QED BY <1>1, <1>5, <2>1
<1>8. ASSUME NEW k \in FIX!collectResourceGaps(cluster), g = FIX!GapFinding(cluster, k)
      PROVE  FALSE
  <2>1. g.symptom = "Resource limits missing" /\ g.remediation.key = k
    BY <1>8 DEF FIX!GapFinding, FIX!Finding, FIX!Remediation
  <2>2. f.remediation.kind = "add-limits" /\ f.remediation.key = k
    BY <1>1, <1>5, <2>1
  <2>3. k \in DOMAIN cluster.deployments /\ FIX!Gaps(cluster.pods[k]) # {}
    BY <1>2 DEF FIX!collectResourceGaps, FIX!Pods, FIX!IsCluster
  <2>4. cluster.pods[k].limits = cluster.deployments[k].limits
    BY <1>1, <1>2, <2>3 DEF FIX!IsCluster, FIX!Settled
  <2> QED BY <1>2, <2>2, <2>3, <2>4 DEF Mended, FIX!Gaps, Both
<1>9. ASSUME NEW j \in FIX!collectCronJobIssues(cluster), g = FIX!CronJobFinding(j)
      PROVE  FALSE
  <2>1. g.symptom = "CronJob suspended" /\ g.remediation.key = j
    BY <1>9 DEF FIX!CronJobFinding, FIX!Finding, FIX!Remediation
  <2>2. f.remediation.kind = "resume-cronjob" /\ f.remediation.key = j
    BY <1>1, <1>5, <2>1
  <2> QED BY <1>2, <2>2 DEF Mended, FIX!collectCronJobIssues
<1> QED BY <1>3, <1>6, <1>7, <1>8, <1>9 DEF FIX!BuildFindings

---------------------------------------------------------------------------
(* Natural numbers.                                                        *)

\* A set of naturals has a least one: what the inductions below rest on.
LEMMA Least ==
    ASSUME NEW T, T \subseteq Nat, T # {}
    PROVE  \E x \in T : \A y \in T : x <= y
<1>1. PICK x \in T : \A y \in T : ~(<<y, x>> \in OpToRel(<, Nat))
  BY WFMin, NatLessThanWellFounded
<1>2. \A y \in T : ~(y < x)
  BY <1>1, Zenon DEF OpToRel
<1> QED BY <1>2

---------------------------------------------------------------------------
(* LogSession: a session has the end of what was parsed and counts the     *)
(* rest, in the run and in the hub; the pages of it are its first matches. *)

\* The fold that Bytes is gives 0 for no events.
LEMMA NoBytes == SES!Bytes(<<>>) = 0
<1> DEFINE F(g) == g = [s \in SUBSET {} |-> IF s = {} THEN 0 ELSE
                    LET x == SES!Max(s) IN g[s \ {x}] + <<>>[x].size]
<1>1. F([s \in SUBSET {} |-> 0])
  OBVIOUS
<1>2. SES!Bytes(<<>>) = (CHOOSE g : F(g))[{}]
  BY DEF SES!Bytes, SES!FoldLeft, SES!MapThenFoldSet
<1> QED BY <1>1, <1>2

\* Matching is defined for every session, and gives a sequence of its events.
LEMMA MatchingIsASeq ==
    ASSUME NEW S, NEW s, s.events \in Seq(S)
    PROVE  SES!Matching(s) \in Seq(S)
<1> DEFINE e == s.events
           L == Len(e)
           Then(g, n) == IF n = 0 THEN <<>>
                         ELSE IF e[n].matches THEN Append(g[n - 1], e[n])
                         ELSE g[n - 1]
           UpTo(g, m) == g = [n \in 0..m |-> Then(g, n)]
<1>1. L \in Nat /\ \A n \in 1..L : e[n] \in S
  BY LenProperties, ElementOfSeq
<1>2. \A m \in 0..L : \E g : UpTo(g, m)
  <2> DEFINE Bad == {m \in 0..L : ~\E g : UpTo(g, m)}
  <2>1. SUFFICES ASSUME Bad # {} PROVE FALSE
    OBVIOUS
  <2>2. PICK m \in Bad : \A k \in Bad : m <= k
    <3>1. Bad \subseteq Nat
      BY <1>1
    <3> HIDE DEF Bad
    <3> QED BY <2>1, <3>1, Least
  <2>3. m \in 0..L /\ ~\E g : UpTo(g, m)
    OBVIOUS
  <2>4. CASE m = 0
    <3>1. UpTo([n \in 0..0 |-> <<>>], 0)
      OBVIOUS
    <3> QED BY <2>3, <2>4, <3>1
  <2>5. CASE m # 0
    <3>1. m - 1 \in 0..L /\ m - 1 \notin Bad
      <4>1. m - 1 \in 0..L /\ m \in Int
        BY <1>1, <2>3, <2>5
      <4> HIDE DEF Bad
      <4>2. ~(m <= m - 1)
        BY <4>1
      <4> QED BY <2>2, <4>1, <4>2
    <3>2. PICK g : UpTo(g, m - 1)
      BY <3>1
    <3> DEFINE h == [n \in 0..m |-> IF n = m THEN Then(g, m) ELSE g[n]]
    <3>3. \A n \in 0..(m - 1) : g[n] = Then(g, n)
      BY <3>2
    <3>4. \A n \in 0..(m - 1) : h[n] = g[n]
      BY <1>1, <2>3
    <3>5. h[m] = Then(g, m)
      BY <1>1, <2>3
    <3> HIDE DEF h
    <3>6. ASSUME NEW n \in 0..m PROVE Then(h, n) = Then(g, n)
      <4>1. n # 0 => h[n - 1] = g[n - 1]
        BY <1>1, <2>3, <3>4
      <4> QED BY <4>1
    <3>7. ASSUME NEW n \in 0..m PROVE h[n] = Then(h, n)
      <4>1. CASE n = m
        BY <3>5, <3>6, <4>1
      <4>2. CASE n # m
        <5>1. n \in 0..(m - 1)
          BY <1>1, <2>3, <4>2
        <5> HIDE DEF Then
        <5> QED BY <3>3, <3>4, <3>6, <5>1
      <4> QED BY <4>1, <4>2
    <3>8. h = [n \in 0..m |-> h[n]]
      BY DEF h
    <3>9. UpTo(h, m)
      <4> HIDE DEF Then
      <4> QED BY <3>7, <3>8
    <3> QED BY <2>3, <3>9
  <2> QED BY <2>4, <2>5
<1> DEFINE up == CHOOSE g : UpTo(g, L)
<1>3. UpTo(up, L)
  <2>1. \E g : UpTo(g, L)
    <3> HIDE DEF UpTo
    <3> QED BY <1>1, <1>2
  <2> HIDE DEF UpTo
  <2> QED BY <2>1
<1>4. SES!Matching(s) = up[L]
  BY DEF SES!Matching
<1> HIDE DEF up
<1>5. \A n \in 0..L : up[n] = Then(up, n)
  BY <1>3
<1>6. \A n \in 0..L : up[n] \in Seq(S)
  <2> DEFINE Bad == {m \in 0..L : up[m] \notin Seq(S)}
  <2>1. SUFFICES ASSUME Bad # {} PROVE FALSE
    OBVIOUS
  <2>2. PICK m \in Bad : \A k \in Bad : m <= k
    <3>1. Bad \subseteq Nat
      BY <1>1
    <3> HIDE DEF Bad
    <3> QED BY <2>1, <3>1, Least
  <2>3. m # 0 /\ m \in 0..L
    <3>1. up[0] = <<>>
      BY <1>1, <1>5
    <3> QED BY <3>1, EmptySeq
  <2>4. m - 1 \in 0..L /\ up[m - 1] \in Seq(S)
    <3>1. m - 1 \in 0..L /\ m \in Int
      BY <1>1, <2>3
    <3>2. m - 1 \notin Bad
      <4> HIDE DEF Bad
      <4>1. ~(m <= m - 1)
        BY <3>1
      <4> QED BY <2>2, <3>1, <4>1
    <3> QED BY <3>1, <3>2
  <2>5. m \in 1..L /\ e[m] \in S
    BY <1>1, <2>3
  <2>6. up[m] = Append(up[m - 1], e[m]) \/ up[m] = up[m - 1]
    BY <1>5, <2>3
  <2>7. Append(up[m - 1], e[m]) \in Seq(S)
    BY <2>4, <2>5, AppendProperties
  <2> QED BY <2>4, <2>6, <2>7
<1> QED BY <1>1, <1>4, <1>6

\* The part of s behind its i-th element, up to its j-th.
Part(s, i, j) == SubSeq(s, i + 1, j)

\* a + b is c.
Sum(a, b, c) == c = a + b

Ev == [line : Nat, size : Sizes, matches : BOOLEAN]

\* What s has of the events `all` is their end, within the caps; the rest it counts.
Kept(s, all) ==
    /\ s.truncated \in 0..Len(all)
    /\ s.events = Part(all, s.truncated, Len(all))
    /\ s.bytes = SES!Bytes(s.events)
    /\ s.bytes <= MaxBytes /\ Len(s.events) <= MaxEvents

\* The pages of the session the hub has now are the first of its matches.
Paged ==
    LET M == SES!Matching(hub) IN
    /\ hub # SES!NoSnapshot
    /\ explorer.offset \in Nat /\ explorer.total = Len(M)
    /\ explorer.shown =
           Part(M, 0, IF explorer.offset < Len(M) THEN explorer.offset ELSE Len(M))

SesInv ==
    /\ parsed \in Seq(Ev) /\ origin.parsed \in Seq(Ev) /\ run \in Nat \ {0}
    /\ session = [events |-> session.events, bytes |-> session.bytes,
                  truncated |-> session.truncated, stats |-> session.stats]
    /\ Kept(session, parsed)
    /\ hub # SES!NoSnapshot => Kept(hub, origin.parsed)
    /\ explorer = [of |-> explorer.of, offset |-> explorer.offset,
                   shown |-> explorer.shown, total |-> explorer.total]
    /\ explorer.of \in 0..run
    /\ explorer.of = run => Paged

\* There is a least cut that brings the caps back: to drop everything does.
LEMMA ExcessFits ==
    ASSUME SES!LogSessionAssumption, NEW S, NEW es \in Seq(S)
    PROVE  LET k == SES!Excess(es)
           IN  /\ k \in 0..Len(es) /\ Len(es) - k <= MaxEvents
               /\ SES!Bytes(Part(es, k, Len(es))) <= MaxBytes
<1> DEFINE L == Len(es)
           Fits(j) == /\ L - j <= MaxEvents
                      /\ SES!Bytes(Part(es, j, L)) <= MaxBytes
           Good == {j \in 0..L : Fits(j)}
<1>1. L \in Nat
  BY LenProperties
<1>2. Fits(L) /\ L \in Good
  <2>1. Part(es, L, L) = <<>>
    BY <1>1, SubSeqEmpty DEF Part
  <2>2. SES!Bytes(Part(es, L, L)) = 0
    BY <2>1, NoBytes
  <2> QED BY <1>1, <2>2 DEF SES!LogSessionAssumption
<1>3. PICK k \in Good : \A j \in Good : k <= j
  <2>1. Good \subseteq Nat
    BY <1>1
  <2> HIDE DEF Good
  <2> QED BY <1>2, <2>1, Least
<1>4. k \in 0..L /\ Fits(k) /\ \A j \in 0..(k - 1) : ~Fits(j)
  <2>1. k \in 0..L /\ Fits(k)
    OBVIOUS
  <2>2. ASSUME NEW j \in 0..(k - 1) PROVE ~Fits(j)
    <3>1. j \in 0..L /\ ~(k <= j)
      BY <1>1, <2>1
    <3>2. j \notin Good
      <4> HIDE DEF Good
      <4> QED BY <1>3, <3>1
    <3> HIDE DEF Fits
    <3> QED BY <3>1, <3>2
  <2> QED BY <2>1, <2>2
<1>5. SES!Excess(es) = CHOOSE c \in 0..L : Fits(c) /\ \A j \in 0..(c - 1) : ~Fits(j)
  BY DEF SES!Excess, Part
<1>6. SES!Excess(es) \in 0..L /\ Fits(SES!Excess(es))
  <2> HIDE DEF Fits, L
  <2> QED BY <1>4, <1>5
<1> QED BY <1>6

LEMMA EndIs ==
    ASSUME NEW S, NEW s \in Seq(S), NEW L \in Nat, L = Len(s), NEW i \in 0..L
    PROVE  Part(s, i, L) \in Seq(S) /\ Len(Part(s, i, L)) = L - i
<1> DEFINE end == SubSeq(s, i + 1, L)
<1>1. end \in Seq(S) /\ Len(end) = IF i + 1 <= L THEN L - (i + 1) + 1 ELSE 0
  <2>1. \A n \in (i + 1)..L : s[n] \in S
    BY ElementOfSeq
  <2> QED BY <2>1, SubSeqProperties
<1> HIDE DEF end
<1>2. end \in Seq(S) /\ Len(end) = L - i
  BY <1>1
<1> QED BY <1>2 DEF end, Part

LEMMA EndAt ==
    ASSUME NEW S, NEW s \in Seq(S), NEW L \in Nat, L = Len(s), NEW i \in 0..L,
           NEW n \in 1..(L - i)
    PROVE  Part(s, i, L)[n] = s[i + n]
<1> DEFINE end == SubSeq(s, i + 1, L)
<1>1. \A m \in 1..(L - (i + 1) + 1) : end[m] = s[(i + 1) + m - 1]
  <2>1. \A m \in (i + 1)..L : s[m] \in S
    BY ElementOfSeq
  <2> QED BY <2>1, SubSeqProperties
<1> HIDE DEF end
<1>2. n \in 1..(L - (i + 1) + 1) /\ (i + 1) + n - 1 = i + n
  OBVIOUS
<1>3. end[n] = s[i + n]
  BY <1>1, <1>2
<1> QED BY <1>3 DEF end, Part

\* The end of the end of a sequence.
LEMMA EndOfEnd ==
    ASSUME NEW S, NEW all \in Seq(S), NEW L \in Nat, L = Len(all), NEW i \in 0..L,
           NEW M \in Nat, Sum(i, M, L), NEW k \in 0..M, NEW j \in 0..L, Sum(i, k, j)
    PROVE  Part(Part(all, i, L), k, M) = Part(all, j, L)
<1>0. L = i + M /\ j = i + k
  BY DEF Sum
<1>1. PICK end : end = Part(all, i, L)
  OBVIOUS
<1>2. PICK left, right : left = Part(end, k, M) /\ right = Part(all, j, L)
  OBVIOUS
<1>3. end \in Seq(S) /\ Len(end) = L - i
  BY <1>1, EndIs, ZenonT(60)
<1>4. \A n \in 1..(L - i) : end[n] = all[i + n]
  BY <1>1, EndAt
<1>5. Len(end) = M
  BY <1>0, <1>3
<1>6. left \in Seq(S) /\ Len(left) = M - k
  BY <1>2, <1>3, <1>5, EndIs
<1>7. \A n \in 1..(M - k) : left[n] = end[k + n]
  BY <1>2, <1>3, <1>5, EndAt
<1>8. right \in Seq(S) /\ Len(right) = L - j
  BY <1>2, EndIs, ZenonT(60)
<1>9. \A n \in 1..(L - j) : right[n] = all[j + n]
  BY <1>2, EndAt
<1>10. ASSUME NEW n \in 1..Len(left) PROVE left[n] = right[n]
  <2>1. /\ n \in 1..(M - k) /\ n \in 1..(L - j) /\ k + n \in 1..(L - i)
        /\ i + (k + n) = j + n
    BY <1>0, <1>6
  <2>2. left[n] = end[k + n] /\ end[k + n] = all[i + (k + n)]
    BY <1>4, <1>7, <2>1
  <2> QED BY <1>9, <2>1, <2>2
<1>11. Len(left) = Len(right)
  BY <1>0, <1>6, <1>8
<1>12. left = right
  BY <1>6, <1>8, <1>10, <1>11, SeqEqual
<1> QED BY <1>1, <1>2, <1>12

\* What is appended comes after the end.
LEMMA EndWithMore ==
    ASSUME NEW S, NEW all \in Seq(S), NEW more \in Seq(S), NEW i \in 0..Len(all)
    PROVE  Part(all, i, Len(all)) \o more = Part(all \o more, i, Len(all \o more))
<1>01. PICK L \in Nat, K \in Nat, Z \in Nat : L = Len(all) /\ K = Len(more) /\ Sum(L, K, Z)
  <2>1. Len(all) \in Nat /\ Len(more) \in Nat /\ Len(all) + Len(more) \in Nat
    BY LenProperties
  <2> QED BY <2>1 DEF Sum
<1>02. L = Len(all) /\ i \in 0..L
  BY <1>01
<1>0. Z = L + K /\ i \in 0..Z
  BY <1>01, <1>02 DEF Sum
<1>1. PICK W, end : W = all \o more /\ end = Part(all, i, L)
  OBVIOUS
<1>2. PICK left, right : left = end \o more /\ right = Part(W, i, Z)
  OBVIOUS
<1>3. /\ W \in Seq(S) /\ Len(W) = Z
      /\ \A n \in 1..Z : W[n] = IF n <= L THEN all[n] ELSE more[n - L]
  BY <1>0, <1>1, <1>01, ConcatProperties
<1>4. end \in Seq(S) /\ Len(end) = L - i
  BY <1>1, <1>02, EndIs, ZenonT(60)
<1>5. \A n \in 1..(L - i) : end[n] = all[i + n]
  BY <1>1, <1>02, EndAt
<1>6. PICK M \in Nat : M = Len(end)
  BY <1>4, LenProperties
<1>7. /\ left \in Seq(S) /\ Len(left) = M + K
      /\ \A n \in 1..(M + K) : left[n] = IF n <= M THEN end[n] ELSE more[n - M]
  <2>1. end \in Seq(S)
    BY <1>4
  <2>2. K = Len(more)
    BY <1>01
  <2> QED BY <1>2, <1>6, <2>1, <2>2, ConcatProperties
<1>8. right \in Seq(S) /\ Len(right) = Z - i
  <2>1. i \in 0..Z /\ W \in Seq(S) /\ Len(W) = Z
    BY <1>0, <1>3
  <2>2. Part(W, i, Z) \in Seq(S) /\ Len(Part(W, i, Z)) = Z - i
    BY <2>1, EndIs, SMTT(30)
  <2> QED BY <1>2, <2>2
<1>9. \A n \in 1..(Z - i) : right[n] = W[i + n]
  <2>1. i \in 0..Z /\ W \in Seq(S) /\ Len(W) = Z
    BY <1>0, <1>3
  <2> QED BY <1>2, <2>1, EndAt
<1>10. ASSUME NEW n \in 1..Len(left) PROVE left[n] = right[n]
  <2>1. n \in 1..(M + K) /\ n \in 1..(Z - i) /\ i + n \in 1..Z
    BY <1>0, <1>4, <1>6, <1>7
  <2>2. right[n] = W[i + n]
    BY <1>9, <2>1
  <2>3. CASE n <= M
    <3>1. left[n] = end[n] /\ n \in 1..(L - i) /\ i + n <= L
      BY <1>4, <1>6, <1>7, <2>1, <2>3
    <3>2. end[n] = all[i + n]
      BY <1>5, <3>1
    <3>3. W[i + n] = all[i + n]
      BY <1>3, <2>1, <3>1
    <3> QED BY <2>2, <3>1, <3>2, <3>3
  <2>4. CASE ~(n <= M)
    <3>1. left[n] = more[n - M] /\ ~(i + n <= L) /\ (i + n) - L = n - M
      BY <1>4, <1>6, <1>7, <2>1, <2>4
    <3>2. W[i + n] = more[(i + n) - L]
      BY <1>3, <2>1, <3>1
    <3>3. more[(i + n) - L] = more[n - M]
      BY <3>1
    <3> QED BY <2>2, <3>1, <3>2, <3>3
  <2> QED BY <2>3, <2>4
<1>11. Len(left) = Len(right)
  BY <1>0, <1>4, <1>6, <1>7, <1>8
<1>12. left = right
  BY <1>7, <1>8, <1>10, <1>11, SeqEqual
<1> QED BY <1>02, <1>1, <1>2, <1>3, <1>12

\* The end of what there was, cut down to the caps, is again an end of it.
LEMMA CutDown ==
    ASSUME SES!LogSessionAssumption, NEW whole \in Seq(Ev), NEW Z \in Nat, Z = Len(whole),
           NEW t \in 0..Z
    PROVE  LET W == Part(whole, t, Z)
               k == SES!Excess(W)
               end == Part(W, k, Len(W))
           IN  /\ t + k \in 0..Z /\ end = Part(whole, t + k, Z)
               /\ Len(end) <= MaxEvents /\ SES!Bytes(end) <= MaxBytes
<1>1. PICK W : W = Part(whole, t, Z)
  OBVIOUS
<1>2. W \in Seq(Ev) /\ Len(W) = Z - t
  BY <1>1, EndIs
<1>3. PICK k, M : k = SES!Excess(W) /\ M = Len(W)
  OBVIOUS
<1>4. M \in Nat /\ k \in 0..M /\ M - k <= MaxEvents /\ SES!Bytes(Part(W, k, M)) <= MaxBytes
  BY <1>2, <1>3, ExcessFits, LenProperties
<1>5. PICK j : Sum(t, k, j)
  BY DEF Sum
<1>6. j \in 0..Z /\ Sum(t, M, Z)
  BY <1>2, <1>3, <1>4, <1>5 DEF Sum
<1>7. Part(W, k, M) = Part(whole, j, Z)
  <2>1. Part(Part(whole, t, Z), k, M) = Part(whole, j, Z)
    BY <1>4, <1>5, <1>6, EndOfEnd
  <2> QED BY <1>1, <2>1
<1>8. Len(Part(W, k, M)) = M - k
  <2>1. W \in Seq(Ev) /\ k \in 0..M /\ M \in Nat /\ M = Len(W)
    BY <1>2, <1>3, <1>4
  <2> QED BY <2>1, EndIs, ZenonT(60)
<1>9. j = t + k
  BY <1>5 DEF Sum
<1> QED BY <1>1, <1>3, <1>4, <1>6, <1>7, <1>8, <1>9

\* Appending keeps the end of all there was.
LEMMA AppendToKeeps ==
    ASSUME SES!LogSessionAssumption, NEW all \in Seq(Ev), NEW more \in Seq(Ev), NEW s,
           s = [events |-> s.events, bytes |-> s.bytes, truncated |-> s.truncated,
                stats |-> s.stats],
           s.truncated \in 0..Len(all),
           s.events = Part(all, s.truncated, Len(all)),
           NEW r, r = SES!AppendTo(s, more)
    PROVE  /\ r = [events |-> r.events, bytes |-> r.bytes, truncated |-> r.truncated,
                   stats |-> s.stats]
           /\ Kept(r, all \o more)
<1>1. PICK L, K, Z : L = Len(all) /\ K = Len(more) /\ Z = L + K
  OBVIOUS
<1>2. L \in Nat /\ K \in Nat /\ Z \in Nat /\ Sum(L, K, Z)
  BY <1>1, LenProperties DEF Sum
<1>3. PICK t, whole : t = s.truncated /\ whole = all \o more
  OBVIOUS
<1>4. t \in 0..L /\ t \in 0..Z
  BY <1>1, <1>2, <1>3
<1>5. /\ all \o more \in Seq(Ev) /\ Len(all \o more) = Z
      /\ Part(all, t, L) \o more = Part(all \o more, t, Z)
  <2>1. L = Len(all) /\ K = Len(more) /\ t \in 0..L
    BY <1>1, <1>4
  <2>2. all \o more \in Seq(Ev) /\ Len(all \o more) = Z
    <3>1. all \o more \in Seq(Ev) /\ Len(all \o more) = Len(all) + Len(more)
      BY ConcatProperties
    <3> QED BY <1>1, <3>1
  <2>3. Part(all, t, L) \o more = Part(all \o more, t, Z)
    BY <2>1, <2>2, EndWithMore
  <2> QED BY <2>2, <2>3
<1>6. PICK W : W = s.events \o more
  OBVIOUS
<1>7. W = Part(whole, t, Z) /\ whole \in Seq(Ev) /\ Z = Len(whole)
  BY <1>1, <1>3, <1>5, <1>6
<1>8. PICK k, end : k = SES!Excess(W) /\ end = Part(W, k, Len(W))
  OBVIOUS
<1>9. /\ t + k \in 0..Z /\ end = Part(whole, t + k, Z)
      /\ Len(end) <= MaxEvents /\ SES!Bytes(end) <= MaxBytes
  <2>1. PICK V, c, cut : /\ V = Part(whole, t, Z) /\ c = SES!Excess(V)
                         /\ cut = Part(V, c, Len(V))
    OBVIOUS
  <2>2. /\ t + c \in 0..Z /\ cut = Part(whole, t + c, Z)
        /\ Len(cut) <= MaxEvents /\ SES!Bytes(cut) <= MaxBytes
    BY <1>2, <1>4, <1>7, <2>1, CutDown
  <2> QED BY <1>7, <1>8, <2>1, <2>2
<1>10. r = [s EXCEPT !.events = end, !.bytes = SES!Bytes(end), !.truncated = @ + k]
  BY <1>6, <1>8 DEF SES!AppendTo, SES!Retain, Part
<1>11. r = [events |-> end, bytes |-> SES!Bytes(end), truncated |-> t + k,
            stats |-> s.stats]
  BY <1>3, <1>10
<1> QED BY <1>3, <1>7, <1>9, <1>11 DEF Kept

\* What is handed over is the end of what the run had parsed.
LEMMA RestoreKeeps ==
    ASSUME SES!LogSessionAssumption, NEW all \in Seq(Ev), NEW s, Kept(s, all),
           NEW z, z = SES!Restore(s)
    PROVE  Kept(z, all)
<1>1. PICK L, t, es : L = Len(all) /\ t = s.truncated /\ es = s.events
  OBVIOUS
<1>2. L \in Nat /\ t \in 0..L /\ L - t \in Nat
  BY <1>1, LenProperties DEF Kept
<1>3. es \in Seq(Ev) /\ Len(es) = L - t /\ es = Part(all, t, L)
  <2>1. es = Part(all, t, L)
    BY <1>1 DEF Kept
  <2>2. Part(all, t, L) \in Seq(Ev) /\ Len(Part(all, t, L)) = L - t
    BY <1>1, <1>2, EndIs, ZenonT(60)
  <2> QED BY <2>1, <2>2
<1>4. PICK r : r = SES!AppendTo(SES!NewLogSession, es)
  OBVIOUS
<1>5. r = [events |-> r.events, bytes |-> r.bytes, truncated |-> r.truncated,
           stats |-> "none"] /\ Kept(r, es)
  <2>1. PICK new, none : new = SES!NewLogSession /\ none = <<>>
    OBVIOUS
  <2>2. /\ new = [events |-> new.events, bytes |-> new.bytes, truncated |-> new.truncated,
                  stats |-> new.stats]
        /\ new.truncated = 0 /\ new.events = <<>> /\ new.stats = "none"
    BY <2>1 DEF SES!NewLogSession
  <2>3. none \in Seq(Ev) /\ Len(none) = 0 /\ none \o es = es
    BY <1>3, <2>1, EmptySeq, ConcatEmptySeq
  <2>4. new.truncated \in 0..Len(none)
        /\ new.events = Part(none, new.truncated, Len(none))
    BY <2>1, <2>2, <2>3, SubSeqEmpty DEF Part
  <2>5. Kept(r, none \o es) /\ r = [events |-> r.events, bytes |-> r.bytes,
                                    truncated |-> r.truncated, stats |-> new.stats]
    <3>1. es \in Seq(Ev)
      BY <1>3
    <3>2. r = SES!AppendTo(new, es)
      BY <1>4, <2>1
    <3>3. none \in Seq(Ev)
      BY <2>3
    <3>4. new = [events |-> new.events, bytes |-> new.bytes, truncated |-> new.truncated,
                 stats |-> new.stats]
      BY <2>2
    <3> QED BY <2>4, <3>1, <3>2, <3>3, <3>4, AppendToKeeps
  <2> QED BY <2>2, <2>3, <2>5
<1>6. PICK u : u = r.truncated
  OBVIOUS
<1>7. u \in 0..(L - t) /\ r.events = Part(es, u, L - t)
  BY <1>3, <1>5, <1>6 DEF Kept
<1>8. Part(Part(all, t, L), u, L - t) = Part(all, t + u, L)
  <2>1. PICK M, j : M = L - t /\ j = t + u
    OBVIOUS
  <2>2. /\ M \in Nat /\ Sum(t, M, L) /\ u \in 0..M /\ j \in 0..L /\ Sum(t, u, j)
        /\ L \in Nat /\ L = Len(all) /\ t \in 0..L
    BY <1>1, <1>2, <1>7, <2>1, SMTT(30) DEF Sum
  <2>3. Part(Part(all, t, L), u, M) = Part(all, j, L)
    BY <2>2, EndOfEnd
  <2> QED BY <2>1, <2>3
<1>9. z.truncated = u + t /\ z.events = r.events /\ z.bytes = r.bytes
  <2>1. z = [r EXCEPT !.truncated = @ + t,
                      !.stats = IF s.stats = "none" THEN "none" ELSE "json"]
    BY <1>1, <1>4 DEF SES!Restore
  <2> QED BY <1>5, <1>6, <2>1
<1>10. u + t \in 0..L /\ u + t + 1 = t + u + 1
  BY <1>2, <1>7
<1> QED BY <1>1, <1>3, <1>5, <1>7, <1>8, <1>9, <1>10 DEF Kept

\* A page that is put behind the pages before it.
LEMMA NextPart ==
    ASSUME NEW S, NEW s \in Seq(S), NEW o \in Nat, NEW n \in Nat, o <= n, n <= Len(s)
    PROVE  Part(s, 0, o) \o Part(s, o, n) = Part(s, 0, n)
<1>1. Len(s) \in Nat
  BY LenProperties
<1>2. 1 \in 1..(Len(s) + 1) /\ o \in (1 - 1)..Len(s) /\ n \in o..Len(s)
  BY <1>1
<1>3. SubSeq(s, 1, o) \o SubSeq(s, o + 1, n) = SubSeq(s, 1, n)
  BY <1>2, ConcatAdjacentSubSeq
<1> QED BY <1>3 DEF Part

LEMMA SesStarts == ASSUME SES!LogSessionAssumption, SES!Init PROVE SesInv
<1>1. /\ session = [events |-> <<>>, bytes |-> 0, truncated |-> 0, stats |-> "none"]
      /\ hub = SES!NoSnapshot /\ run = 1 /\ parsed = <<>> /\ origin.parsed = <<>>
      /\ explorer = [of |-> 0, offset |-> 0, shown |-> <<>>, total |-> 0]
  BY DEF SES!Init, SES!NewLogSession, SES!Closed
<1>2. parsed \in Seq(Ev) /\ origin.parsed \in Seq(Ev) /\ Len(parsed) = 0
  BY <1>1, EmptySeq
<1>3. Part(parsed, 0, 0) = <<>>
  BY SubSeqEmpty DEF Part
<1>4. Kept(session, parsed)
  BY <1>1, <1>2, <1>3, NoBytes DEF Kept, SES!LogSessionAssumption
<1> QED BY <1>1, <1>2, <1>4 DEF SesInv

LEMMA SesKeeps ==
    ASSUME SES!LogSessionAssumption, SesInv, [SES!Next]_(SES!vars)
    PROVE  SesInv'
<1> USE DEF SesInv
<1>1. CASE UNCHANGED SES!vars
  BY <1>1 DEF SES!vars, Kept, Paged
<1>2. CASE SES!Parse
  <2>0. PICK n \in 1..(MaxLines - Len(parsed) - Len(origin.parsed)) :
        \E ls \in SES!Lines(n) :
            LET added == [i \in 1..n |-> [line |-> Len(parsed) + i, size |-> ls[i].size,
                                           matches |-> ls[i].matches]]
            IN  session' = SES!AppendTo(session, added) /\ parsed' = parsed \o added
    BY <1>2 DEF SES!Parse
  <2>1. PICK ls \in SES!Lines(n) :
            LET added == [i \in 1..n |-> [line |-> Len(parsed) + i, size |-> ls[i].size,
                                           matches |-> ls[i].matches]]
            IN  session' = SES!AppendTo(session, added) /\ parsed' = parsed \o added
    BY <2>0
  <2>2. PICK L, K : L = Len(parsed) /\ K = MaxLines - Len(parsed) - Len(origin.parsed)
    OBVIOUS
  <2>3. n \in 1..K /\ L \in Nat
    BY <2>0, <2>2, LenProperties
  <2>4. PICK added : added = [i \in 1..n |-> [line |-> L + i, size |-> ls[i].size,
                                                 matches |-> ls[i].matches]]
    OBVIOUS
  <2>5. n \in Nat /\ \A i \in 1..n : added[i] \in Ev
    <3>1. n \in Nat
      BY <2>3
    <3>2. \A i \in 1..n : ls[i] \in [size : Sizes, matches : BOOLEAN]
      BY <2>1 DEF SES!Lines
    <3>3. \A i \in 1..n : L + i \in Nat
      BY <2>3
    <3> QED BY <2>4, <3>1, <3>2, <3>3 DEF Ev
  <2>6. added \in Seq(Ev)
    <3>1. added = [i \in 1..n |-> added[i]]
      BY <2>4
    <3>2. added \in [1..n -> Ev]
      BY <2>5, <3>1
    <3> QED BY <2>5, <3>2, SeqDef
  <2>7. session' = SES!AppendTo(session, added) /\ parsed' = parsed \o added
    BY <2>1, <2>2, <2>4
  <2>8. /\ session' = [events |-> session'.events, bytes |-> session'.bytes,
                       truncated |-> session'.truncated, stats |-> session.stats]
        /\ Kept(session', parsed \o added)
    <3>1. PICK s, all, r : s = session /\ all = parsed /\ r = session'
      OBVIOUS
    <3>2. /\ s = [events |-> s.events, bytes |-> s.bytes, truncated |-> s.truncated,
                  stats |-> s.stats]
          /\ s.truncated \in 0..Len(all) /\ s.events = Part(all, s.truncated, Len(all))
          /\ all \in Seq(Ev) /\ r = SES!AppendTo(s, added)
      BY <2>7, <3>1 DEF Kept
    <3>3. /\ r = [events |-> r.events, bytes |-> r.bytes, truncated |-> r.truncated,
                  stats |-> s.stats]
          /\ Kept(r, all \o added)
      BY <2>6, <3>2, AppendToKeeps
    <3> QED BY <3>1, <3>3
  <2>9. session'.stats = session.stats /\ parsed' \in Seq(Ev)
    BY <2>6, <2>7, <2>8, ConcatProperties
  <2>10. UNCHANGED <<hub, explorer, run, origin>>
    BY <1>2 DEF SES!Parse
  <2> QED BY <2>7, <2>8, <2>9, <2>10 DEF Kept, Paged
<1>3. CASE SES!ComputeStats
  <2>1. session' = [session EXCEPT !.stats = "typed"]
        /\ UNCHANGED <<hub, explorer, run, parsed, origin>>
    BY <1>3 DEF SES!ComputeStats
  <2>2. session' = [events |-> session.events, bytes |-> session.bytes,
                    truncated |-> session.truncated, stats |-> "typed"]
    BY <2>1
  <2> QED BY <2>1, <2>2 DEF Kept, Paged
<1>4. CASE SES!Attach
  <2>1. /\ hub' = SES!Restore(session) /\ origin' = [session |-> session, parsed |-> parsed]
        /\ run' = run + 1 /\ session' = SES!NewLogSession /\ parsed' = <<>>
        /\ explorer' = explorer
    BY <1>4 DEF SES!Attach
  <2>2. Kept(hub', origin'.parsed) /\ origin'.parsed \in Seq(Ev)
    <3>1. PICK s, all, z : s = session /\ all = parsed /\ z = hub'
      OBVIOUS
    <3>2. Kept(s, all) /\ all \in Seq(Ev) /\ z = SES!Restore(s)
      BY <2>1, <3>1
    <3>3. Kept(z, all)
      BY <3>2, RestoreKeeps
    <3> QED BY <2>1, <3>1, <3>2, <3>3
  <2>3. session' = [events |-> <<>>, bytes |-> 0, truncated |-> 0, stats |-> "none"]
    BY <2>1 DEF SES!NewLogSession
  <2>4. Kept(session', parsed')
    <3>1. Part(<<>>, 0, 0) = <<>>
      BY SubSeqEmpty DEF Part
    <3> QED BY <2>1, <2>3, <3>1, NoBytes DEF Kept, SES!LogSessionAssumption
  <2>5. run' \in Nat \ {0} /\ explorer.of \in 0..run' /\ explorer.of # run'
    BY <2>1
  <2> QED BY <2>1, <2>2, <2>3, <2>4, <2>5, EmptySeq DEF Kept
<1>5. CASE SES!Page
  <2>1. PICK from, M : /\ from = (IF explorer = SES!Closed
                                  THEN [SES!Closed EXCEPT !.of = run] ELSE explorer)
                       /\ M = SES!Matching(hub)
    OBVIOUS
  <2>2. /\ hub # SES!NoSnapshot
        /\ from.offset < from.total \/ explorer = SES!Closed
        /\ explorer' = [from EXCEPT !.offset = @ + PageSize,
                                    !.shown = @ \o SES!Query(hub, from.offset),
                                    !.total = Len(M)]
        /\ UNCHANGED <<session, hub, run, parsed, origin>>
    BY <1>5, <2>1 DEF SES!Page
  <2>3. M \in Seq(Ev)
    <3>1. hub.events \in Seq(Ev)
      <4>1. PICK L, t, all : /\ all = origin.parsed /\ L = Len(all) /\ t = hub.truncated
        OBVIOUS
      <4>2. all \in Seq(Ev) /\ L \in Nat /\ t \in 0..L /\ hub.events = Part(all, t, L)
        BY <2>2, <4>1, LenProperties DEF Kept
      <4>3. Part(all, t, L) \in Seq(Ev)
        BY <4>1, <4>2, EndIs
      <4> QED BY <4>2, <4>3
    <3> QED BY <2>1, <3>1, MatchingIsASeq
  <2>4. from = [of |-> from.of, offset |-> from.offset, shown |-> from.shown,
                total |-> from.total] /\ from.of \in 0..run
    BY <2>1 DEF SES!Closed
  <2>5. PICK o, n : /\ o = from.offset
                    /\ n = IF o + PageSize < Len(M) THEN o + PageSize ELSE Len(M)
    OBVIOUS
  <2>6. SES!Query(hub, from.offset) = Part(M, o, n)
    BY <2>1, <2>5 DEF SES!Query, Part
  <2>7. explorer' = [of |-> from.of, offset |-> o + PageSize,
                     shown |-> from.shown \o Part(M, o, n), total |-> Len(M)]
    BY <2>2, <2>4, <2>5, <2>6
  <2>8. ASSUME from.of = run PROVE Paged'
    <3>1. o \in Nat /\ from.shown = Part(M, 0, IF o < Len(M) THEN o ELSE Len(M))
          /\ (o = 0 \/ o < Len(M))
      <4>1. CASE explorer = SES!Closed
        <5>1. from.offset = 0 /\ from.shown = <<>>
          BY <2>1, <4>1 DEF SES!Closed
        <5>2. Part(M, 0, 0) = <<>> /\ Len(M) \in Nat
          BY <2>3, SubSeqEmpty, LenProperties DEF Part
        <5> QED BY <2>5, <5>1, <5>2
      <4>2. CASE explorer # SES!Closed
        <5>1. from = explorer /\ Paged /\ from.offset < from.total
          BY <2>1, <2>2, <2>8, <4>2
        <5> QED BY <2>1, <2>5, <5>1 DEF Paged
      <4> QED BY <4>1, <4>2
    <3>2. o \in Nat /\ n \in Nat /\ o <= n /\ n <= Len(M) /\ from.shown = Part(M, 0, o)
          /\ o + PageSize \in Nat
      <4>1. Len(M) \in Nat
        BY <2>3, LenProperties
      <4> QED BY <2>5, <3>1, <4>1, SMTT(30) DEF SES!LogSessionAssumption
    <3>3. Part(M, 0, o) \o Part(M, o, n) = Part(M, 0, n)
      BY <2>3, <3>2, NextPart
    <3>4. explorer'.offset = o + PageSize /\ explorer'.total = Len(M)
          /\ explorer'.shown = Part(M, 0, n)
      BY <2>7, <3>2, <3>3
    <3>5. SES!Matching(hub)' = M /\ hub' # SES!NoSnapshot
      BY <2>1, <2>2
    <3>6. n = IF explorer'.offset < Len(M) THEN explorer'.offset ELSE Len(M)
      BY <2>5, <3>4
    <3>7. explorer'.offset \in Nat
      BY <3>2, <3>4
    <3> QED BY <3>4, <3>5, <3>6, <3>7 DEF Paged
  <2> QED BY <2>2, <2>4, <2>7, <2>8 DEF Kept
<1>6. CASE SES!Leave
  <2>1. explorer' = [of |-> 0, offset |-> 0, shown |-> <<>>, total |-> 0]
        /\ UNCHANGED <<session, hub, run, parsed, origin>>
    BY <1>6 DEF SES!Leave, SES!Closed
  <2> QED BY <2>1 DEF Kept
<1> QED BY <1>1, <1>2, <1>3, <1>4, <1>5, <1>6 DEF SES!Next

LEMMA SesVisible ==
    ASSUME SES!LogSessionAssumption, SesInv
    PROVE  SES!BoundedCoverageIsVisible /\ SES!PagesAreWhole
<1>1. SES!BoundedCoverageIsVisible
  BY DEF SesInv, Kept, Part, SES!BoundedCoverageIsVisible
<1>2. ASSUME explorer # SES!Closed, explorer.of = run, explorer.offset >= explorer.total
      PROVE  explorer.shown = SES!Matching(hub)
  <2>1. PICK M : M = SES!Matching(hub)
    OBVIOUS
  <2>2. M \in Seq(Ev)
    <3>1. hub.events \in Seq(Ev)
      <4>1. PICK L, t, all : /\ all = origin.parsed /\ L = Len(all) /\ t = hub.truncated
        OBVIOUS
      <4>2. all \in Seq(Ev) /\ L \in Nat /\ t \in 0..L /\ hub.events = Part(all, t, L)
        BY <1>2, <4>1, LenProperties DEF SesInv, Paged, Kept
      <4>3. Part(all, t, L) \in Seq(Ev)
        BY <4>1, <4>2, EndIs
      <4> QED BY <4>2, <4>3
    <3> QED BY <2>1, <3>1, MatchingIsASeq
  <2>3. /\ explorer.offset \in Nat /\ ~(explorer.offset < Len(M))
        /\ explorer.shown =
               Part(M, 0, IF explorer.offset < Len(M) THEN explorer.offset ELSE Len(M))
    <3>1. Len(M) \in Nat
      BY <2>2, LenProperties
    <3> QED BY <1>2, <2>1, <3>1 DEF SesInv, Paged
  <2>4. explorer.shown = SubSeq(M, 1, Len(M))
    BY <2>3 DEF Part
  <2> QED BY <2>1, <2>2, <2>4, SubSeqFull
<1> QED BY <1>1, <1>2 DEF SES!PagesAreWhole

---------------------------------------------------------------------------
(* Planner: the plan of a turn is made of what matched and was asked, and  *)
(* the check that comes first for a symptom is not cut off.                *)
(* Functions that are defined by recursion over a range of numbers come    *)
(* first.                                                                  *)

\* What such a function is, and that there is one: values from V, each made of the one
\* before it.
Recursive(g, m, n, z, step) ==
    g = [k \in m..n |-> IF k = m THEN z ELSE step[k][g[k - 1]]]

\* A function that is defined step by step is there, and its values are of V.
LEMMA RecursionIsDefined ==
    ASSUME NEW m \in {0, 1}, NEW n \in Nat, m <= n, NEW V, NEW z \in V,
           NEW step \in [1..n -> [V -> V]]
    PROVE  \E g \in [m..n -> V] : Recursive(g, m, n, z, step)
<1> DEFINE UpTo(g, i) == g \in [m..i -> V] /\ Recursive(g, m, i, z, step)
           Bad == {i \in m..n : ~\E g : UpTo(g, i)}
<1>1. SUFFICES Bad = {}
  BY DEF Bad
<1>2. SUFFICES ASSUME Bad # {} PROVE FALSE
  OBVIOUS
<1>3. PICK i \in Bad : \A j \in Bad : i <= j
  <2>1. Bad \subseteq Nat
    OBVIOUS
  <2> HIDE DEF Bad
  <2> QED BY <1>2, <2>1, Least
<1>4. i \in m..n /\ ~\E g : UpTo(g, i)
  OBVIOUS
<1>5. CASE i = m
  <2>1. UpTo([k \in m..m |-> z], m)
    BY DEF Recursive
  <2> QED BY <1>4, <1>5, <2>1
<1>6. CASE i # m
  <2>1. i - 1 \in m..n /\ i \in 1..n
    BY <1>4, <1>6
  <2>2. i - 1 \notin Bad
    <3>1. ~(i <= i - 1)
      BY <2>1
    <3> HIDE DEF Bad
    <3> QED BY <1>3, <2>1, <3>1
  <2>3. PICK g : UpTo(g, i - 1)
    BY <2>1, <2>2
  <2> DEFINE h == [k \in m..i |-> IF k = i THEN step[i][g[i - 1]] ELSE g[k]]
  <2>4. g[i - 1] \in V /\ step[i][g[i - 1]] \in V
    BY <2>1, <2>3
  <2>5. h \in [m..i -> V]
    <3>1. \A k \in m..i : k # i => k \in m..(i - 1)
      BY <2>1
    <3> QED BY <2>3, <2>4, <3>1
  <2>6. ASSUME NEW k \in m..i
        PROVE  h[k] = IF k = m THEN z ELSE step[k][h[k - 1]]
    <3>1. CASE k = i
      <4>1. k - 1 \in m..i /\ k - 1 # i /\ k # m
        BY <2>1, <3>1
      <4> QED BY <3>1, <4>1
    <3>2. CASE k # i
      <4>1. k \in m..(i - 1)
        BY <2>1, <3>2
      <4>2. g[k] = IF k = m THEN z ELSE step[k][g[k - 1]]
        BY <2>3, <4>1 DEF Recursive
      <4>3. k # m => k - 1 \in m..i /\ k - 1 # i
        BY <2>1, <3>2
      <4>4. k # m => h[k - 1] = g[k - 1]
        BY <4>3
      <4>5. h[k] = g[k]
        BY <3>2
      <4> HIDE DEF h
      <4> QED BY <4>2, <4>4, <4>5
    <3> QED BY <3>1, <3>2
  <2>7. h = [k \in m..i |-> h[k]]
    OBVIOUS
  <2> HIDE DEF h
  <2>8. UpTo(h, i)
    BY <2>5, <2>6, <2>7 DEF Recursive
  <2> QED BY <1>4, <2>8
<1> QED BY <1>5, <1>6

\* How many members of a set of positions there are up to one.
Place(S, i) == Cardinality(S \cap (1..i))

\* Places count from 0, and one further with every member.
Placed(S, n) ==
    /\ Place(S, 0) = 0
    /\ \A k \in 1..n : /\ Place(S, k) \in Nat /\ Place(S, k - 1) \in Nat
                      /\ Place(S, k) = IF k \in S THEN Place(S, k - 1) + 1
                                       ELSE Place(S, k - 1)
    /\ \A k \in 1..n : \A i \in 1..k : Place(S, i) <= Place(S, k)

\* Members of a finite set of positions are counted like that.
LEMMA PlaceGrows ==
    ASSUME NEW n \in Nat, NEW S, S \subseteq 1..n
    PROVE  Placed(S, n)
<1>1. ASSUME NEW k \in 0..n PROVE IsFiniteSet(S \cap (1..k)) /\ Place(S, k) \in Nat
  <2>1. IsFiniteSet(1..k)
    BY FS_Interval
  <2>2. IsFiniteSet(S \cap (1..k))
    BY <2>1, FS_Subset
  <2> QED BY <2>2, FS_CardinalityType DEF Place
<1>2. Place(S, 0) = 0
  <2>1. S \cap (1..0) = {}
    OBVIOUS
  <2> QED BY <2>1, FS_EmptySet DEF Place
<1>3. ASSUME NEW k \in 1..n
      PROVE  Place(S, k) = IF k \in S THEN Place(S, k - 1) + 1 ELSE Place(S, k - 1)
  <2>1. k - 1 \in 0..n
    OBVIOUS
  <2>2. CASE k \in S
    <3>1. S \cap (1..k) = (S \cap (1..(k - 1))) \cup {k} /\ k \notin S \cap (1..(k - 1))
      BY <2>2
    <3>2. IsFiniteSet(S \cap (1..(k - 1)))
      BY <1>1, <2>1
    <3> QED BY <2>2, <3>1, <3>2, FS_AddElement DEF Place
  <2>3. CASE k \notin S
    <3>1. S \cap (1..k) = S \cap (1..(k - 1))
      BY <2>3
    <3> QED BY <2>3, <3>1 DEF Place
  <2> QED BY <2>2, <2>3
<1>4. ASSUME NEW k \in 1..n, NEW i \in 1..k PROVE Place(S, i) <= Place(S, k)
  <2>1. S \cap (1..i) \subseteq S \cap (1..k)
    OBVIOUS
  <2>2. IsFiniteSet(S \cap (1..k))
    BY <1>1
  <2> QED BY <2>1, <2>2, FS_Subset DEF Place
<1>5. \A k \in 1..n : k \in 0..n /\ k - 1 \in 0..n
  OBVIOUS
<1> QED BY <1>1, <1>2, <1>3, <1>4, <1>5 DEF Placed

\* The members of a set are each in their place.
LEMMA InOrderIs ==
    ASSUME NEW n \in Nat, NEW S, S \subseteq 1..n
    PROVE  /\ PLN!InOrder(S, n) \in Seq(S)
           /\ \A i \in S : /\ Place(S, i) \in 1..Len(PLN!InOrder(S, n))
                          /\ PLN!InOrder(S, n)[Place(S, i)] = i
<1> DEFINE step == [k \in 1..n |->
                       [s \in Seq(S) |-> IF k \in S THEN Append(s, k) ELSE s]]
           body(g) == [k \in 0..n |-> IF k = 0 THEN <<>>
                                      ELSE IF k \in S THEN Append(g[k - 1], k) ELSE g[k - 1]]
           upTo == CHOOSE g : g = body(g)
<1>1. PICK f \in [0..n -> Seq(S)] : Recursive(f, 0, n, <<>>, step)
  <2>1. step \in [1..n -> [Seq(S) -> Seq(S)]]
    BY AppendProperties
  <2>2. <<>> \in Seq(S)
    BY EmptySeq
  <2>3. 0 \in {0, 1} /\ 0 <= n
    OBVIOUS
  <2> DEFINE Q == Seq(S)
             e == <<>>
             z == 0
  <2>4. step \in [1..n -> [Q -> Q]] /\ e \in Q /\ z \in {0, 1} /\ z <= n
    BY <2>1, <2>2, <2>3
  <2>5. \E g \in [z..n -> Q] : Recursive(g, z, n, e, step)
    <3> HIDE DEF step, Q, e, z
    <3> QED BY ONLY <2>4, n \in Nat, RecursionIsDefined
  <2> HIDE DEF step
  <2> QED BY <2>5
<1>2. f = body(f)
  <2>1. \A k \in 0..n : k # 0 => k - 1 \in 0..n /\ k \in 1..n
    OBVIOUS
  <2>2. \A k \in 0..n : k # 0 =>
            step[k][f[k - 1]] = IF k \in S THEN Append(f[k - 1], k) ELSE f[k - 1]
    BY <2>1
  <2> HIDE DEF step
  <2> QED BY <1>1, <2>2 DEF Recursive
<1>3. upTo = body(upTo)
  <2> HIDE DEF body
  <2> QED BY <1>2
<1>4. PLN!InOrder(S, n) = upTo[n]
  BY DEF PLN!InOrder
<1> HIDE DEF upTo
<1>5. /\ upTo[0] = <<>>
      /\ \A k \in 1..n : upTo[k] = IF k \in S THEN Append(upTo[k - 1], k) ELSE upTo[k - 1]
  <2>1. \A k \in 0..n : body(upTo)[k] = IF k = 0 THEN <<>>
                                     ELSE IF k \in S THEN Append(upTo[k - 1], k) ELSE upTo[k - 1]
    OBVIOUS
  <2> HIDE DEF body
  <2>2. \A k \in 0..n : upTo[k] = IF k = 0 THEN <<>>
                               ELSE IF k \in S THEN Append(upTo[k - 1], k) ELSE upTo[k - 1]
    BY <1>3, <2>1
  <2>3. 0 \in 0..n /\ \A k \in 1..n : k \in 0..n /\ k # 0
    OBVIOUS
  <2> QED BY <2>2, <2>3
<1> DEFINE Fine(k) == /\ upTo[k] \in Seq(S) /\ Len(upTo[k]) = Place(S, k)
                      /\ \A i \in S \cap (1..k) : /\ Place(S, i) \in 1..Len(upTo[k])
                                                 /\ upTo[k][Place(S, i)] = i
           Bad == {k \in 0..n : ~Fine(k)}
<1>9. Placed(S, n)
  BY PlaceGrows
<1>6. Bad = {}
  <2>1. SUFFICES ASSUME Bad # {} PROVE FALSE
    OBVIOUS
  <2>2. PICK m \in Bad : \A k \in Bad : m <= k
    <3>1. Bad \subseteq Nat
      OBVIOUS
    <3> HIDE DEF Bad
    <3> QED BY <2>1, <3>1, Least
  <2>3. m \in 0..n /\ ~Fine(m)
    OBVIOUS
  <2>4. m # 0
    <3>1. Fine(0)
      <4>1. S \cap (1..0) = {} /\ Place(S, 0) = 0
        BY <1>9 DEF Placed
      <4>2. <<>> \in Seq(S) /\ Len(<<>>) = 0
        BY EmptySeq
      <4> QED BY <1>5, <4>1, <4>2
    <3> HIDE DEF Fine
    <3> QED BY <2>3, <3>1
  <2>5. m \in 1..n /\ m - 1 \in 0..n
    BY <2>3, <2>4
  <2>6. Fine(m - 1)
    <3>1. ~(m <= m - 1)
      BY <2>5
    <3>2. m - 1 \notin Bad
      <4> HIDE DEF Bad
      <4> QED BY <2>2, <3>1
    <3> HIDE DEF Fine
    <3> QED BY <2>5, <3>2
  <2>7. upTo[m] = IF m \in S THEN Append(upTo[m - 1], m) ELSE upTo[m - 1]
    BY <1>5, <2>5
  <2>8. /\ Place(S, m) \in Nat /\ Place(S, m - 1) \in Nat
        /\ Place(S, m) = IF m \in S THEN Place(S, m - 1) + 1 ELSE Place(S, m - 1)
    BY <1>9, <2>5 DEF Placed
  <2>9. CASE m \in S
    <3> DEFINE s == upTo[m - 1]
               t == upTo[m]
    <3>1. s \in Seq(S) /\ t = Append(s, m) /\ Len(s) = Place(S, m - 1)
      BY <2>6, <2>7, <2>9
    <3> HIDE DEF s, t, Bad
    <3>2. t \in Seq(S) /\ Len(t) = Len(s) + 1 /\ t[Len(s) + 1] = m
          /\ \A j \in 1..Len(s) : t[j] = s[j]
      BY <2>9, <3>1, AppendProperties
    <3>3. Len(t) = Place(S, m)
      BY <2>8, <2>9, <3>1, <3>2
    <3>4. ASSUME NEW i \in S \cap (1..m)
          PROVE  Place(S, i) \in 1..Len(t) /\ t[Place(S, i)] = i
      <4>1. CASE i = m
        BY <2>8, <2>9, <3>1, <3>2, <4>1
      <4>2. CASE i # m
        <5>1. i \in S \cap (1..(m - 1))
          BY <2>5, <4>2
        <5>2. Place(S, i) \in 1..Len(s) /\ s[Place(S, i)] = i
          BY <2>6, <5>1 DEF s
        <5>3. Len(s) \in Nat
          BY <2>8, <3>1
        <5> QED BY <3>2, <5>2, <5>3
      <4> QED BY <4>1, <4>2
    <3> QED BY <2>3, <3>2, <3>3, <3>4 DEF t
  <2>10. CASE m \notin S
    <3>1. S \cap (1..m) = S \cap (1..(m - 1))
      BY <2>5, <2>10
    <3>2. upTo[m] = upTo[m - 1] /\ Place(S, m) = Place(S, m - 1)
      BY <2>7, <2>8, <2>10
    <3> HIDE DEF Bad
    <3> QED BY <2>3, <2>6, <3>1, <3>2
  <2> QED BY <2>9, <2>10
<1>7. Fine(n)
  <2> HIDE DEF Fine
  <2> QED BY <1>6, SMTT(30)
<1>8. S \cap (1..n) = S
  OBVIOUS
<1> QED BY <1>4, <1>7, <1>8

\* What is at them is the sequence's.
LEMMA AtIs ==
    ASSUME NEW T, NEW s \in Seq(T), NEW S, S \subseteq DOMAIN s
    PROVE  /\ PLN!At(S, s) \in Seq(T)
           /\ \A i \in S : /\ Place(S, i) \in 1..Len(PLN!At(S, s))
                          /\ PLN!At(S, s)[Place(S, i)] = s[i]
           /\ \A k \in 1..Len(PLN!At(S, s)) : \E i \in S : PLN!At(S, s)[k] = s[i]
<1> DEFINE ps == PLN!InOrder(S, Len(s))
           t  == PLN!At(S, s)
<1>1. Len(s) \in Nat /\ DOMAIN s = 1..Len(s)
  OBVIOUS
<1>2. /\ ps \in Seq(S)
      /\ \A i \in S : Place(S, i) \in 1..Len(ps) /\ ps[Place(S, i)] = i
  BY <1>1, InOrderIs
<1>3. t = [k \in DOMAIN ps |-> s[ps[k]]]
  BY DEF PLN!At
<1> HIDE DEF ps, t
<1>4. DOMAIN ps = 1..Len(ps) /\ Len(ps) \in Nat /\ \A k \in 1..Len(ps) : ps[k] \in S
  BY <1>2
<1>5. \A k \in 1..Len(ps) : s[ps[k]] \in T
  BY <1>1, <1>4
<1>6. t \in Seq(T) /\ Len(t) = Len(ps)
  BY <1>3, <1>4, <1>5
<1>7. \A k \in 1..Len(ps) : t[k] = s[ps[k]]
  BY <1>3, <1>4
<1> QED BY <1>2, <1>4, <1>6, <1>7 DEF t

\* FlattenSeq puts one after another.
Flattens(f, seqs) ==
    /\ f[1] = seqs[1]
    /\ \A i \in 1..Len(seqs) : i # 1 => f[i] = f[i - 1] \o seqs[i]

\* FlattenSeq is the last value of such a function.
LEMMA FlattenIs ==
    ASSUME NEW V, NEW seqs \in Seq(Seq(V)), seqs # <<>>
    PROVE  /\ Len(seqs) \in 1..Len(seqs)
           /\ \E f \in [1..Len(seqs) -> Seq(V)] :
                  Flattens(f, seqs) /\ PLN!FlattenSeq(seqs) = f[Len(seqs)]
<1> DEFINE n == Len(seqs)
           step == [k \in 1..n |-> [s \in Seq(V) |-> s \o seqs[k]]]
           body(g) == [i \in 1..n |-> IF i = 1 THEN seqs[i] ELSE g[i - 1] \o seqs[i]]
           flatten == CHOOSE g : g = body(g)
<1>1. n \in Nat /\ 1 <= n /\ 1 \in 1..n /\ n \in 1..n /\ seqs[1] \in Seq(V)
  <2>1. Len(seqs) # 0
    BY EmptySeq
  <2> QED BY <2>1
<1>2. PICK f \in [1..n -> Seq(V)] : Recursive(f, 1, n, seqs[1], step)
  <2>1. step \in [1..n -> [Seq(V) -> Seq(V)]]
    <3>1. \A k \in 1..n : seqs[k] \in Seq(V)
      OBVIOUS
    <3>2. \A k \in 1..n, s \in Seq(V) : s \o seqs[k] \in Seq(V)
      BY <3>1, ConcatProperties
    <3> HIDE DEF n
    <3> QED BY <3>2
  <2> DEFINE Q == Seq(V)
             e == seqs[1]
             z == 1
  <2>2. step \in [1..n -> [Q -> Q]] /\ e \in Q /\ z \in {0, 1} /\ z <= n /\ n \in Nat
    BY <1>1, <2>1
  <2>3. \E g \in [z..n -> Q] : Recursive(g, z, n, e, step)
    <3> HIDE DEF step, Q, e, z, n
    <3> QED BY ONLY <2>2, RecursionIsDefined
  <2> HIDE DEF step, n
  <2> QED BY <2>3
<1> HIDE DEF n
<1>3. f = body(f)
  <2>1. \A k \in 1..n : k # 1 => k - 1 \in 1..n
    BY <1>1
  <2>2. \A k \in 1..n : k # 1 => step[k][f[k - 1]] = f[k - 1] \o seqs[k]
    BY <2>1
  <2> HIDE DEF step
  <2> QED BY <1>2, <2>2 DEF Recursive
<1>4. flatten = body(flatten)
  <2> HIDE DEF body
  <2> QED BY <1>3
<1>5. PLN!FlattenSeq(seqs) = flatten[n]
  <2>1. Len(seqs) # 0
    BY <1>1 DEF n
  <2> QED BY <2>1 DEF n, PLN!FlattenSeq
<1> HIDE DEF flatten
<1>6. \A k \in 1..n : flatten[k] = IF k = 1 THEN seqs[k] ELSE flatten[k - 1] \o seqs[k]
  <2>1. \A k \in 1..n : body(flatten)[k] =
                         IF k = 1 THEN seqs[k] ELSE flatten[k - 1] \o seqs[k]
    OBVIOUS
  <2> HIDE DEF body
  <2> QED BY <1>4, <2>1
<1> DEFINE Bad == {k \in 1..n : flatten[k] \notin Seq(V)}
<1>7. Bad = {}
  <2>1. SUFFICES ASSUME Bad # {} PROVE FALSE
    OBVIOUS
  <2>2. PICK m \in Bad : \A k \in Bad : m <= k
    <3>1. Bad \subseteq Nat
      OBVIOUS
    <3> HIDE DEF Bad
    <3> QED BY <2>1, <3>1, Least
  <2>3. m \in 1..n /\ flatten[m] \notin Seq(V)
    OBVIOUS
  <2>4. seqs[m] \in Seq(V)
    BY <2>3 DEF n
  <2>5. m # 1
    BY <1>6, <2>3, <2>4
  <2>6. m - 1 \in 1..n /\ ~(m <= m - 1)
    BY <2>3, <2>5, <1>1
  <2>7. m - 1 \notin Bad
    <3> HIDE DEF Bad
    <3> QED BY <2>2, <2>6
  <2>8. flatten[m - 1] \in Seq(V)
    BY <2>6, <2>7
  <2>9. flatten[m] = flatten[m - 1] \o seqs[m]
    BY <1>6, <2>3, <2>5
  <2> QED BY <2>3, <2>4, <2>8, <2>9, ConcatProperties
<1>8. flatten = [k \in 1..n |-> flatten[k]]
  BY <1>4
<1>9. flatten \in [1..n -> Seq(V)]
  BY <1>7, <1>8
<1>10. Flattens(flatten, seqs)
  BY <1>1, <1>6 DEF Flattens, n
<1> QED BY <1>1, <1>5, <1>9, <1>10 DEF n

\* A sequence is where another one starts.
Starts(s, t) == /\ Len(s) <= Len(t)
                /\ \A j \in 1..Len(s) : t[j] = s[j]

\* It still is, of a longer one.
LEMMA StartsOn ==
    ASSUME NEW V, NEW s \in Seq(V), NEW t \in Seq(V), NEW u \in Seq(V), Starts(s, t)
    PROVE  Starts(s, t \o u)
<1> DEFINE h == t \o u
<1>1. /\ Len(t) \in Nat /\ Len(u) \in Nat /\ Len(s) \in Nat
      /\ Len(h) = Len(t) + Len(u)
      /\ \A j \in 1..Len(t) : h[j] = t[j]
  BY ConcatProperties
<1> HIDE DEF h
<1>2. Starts(s, h)
  BY <1>1 DEF Starts
<1> QED BY <1>2 DEF h

\* The first of the sequences is where the flat one starts.
LEMMA FlattenStarts ==
    ASSUME NEW V, NEW seqs \in Seq(Seq(V)), seqs # <<>>
    PROVE  PLN!FlattenSeq(seqs) \in Seq(V) /\ Starts(seqs[1], PLN!FlattenSeq(seqs))
<1> DEFINE n == Len(seqs)
<1>1. PICK f \in [1..n -> Seq(V)] : Flattens(f, seqs) /\ PLN!FlattenSeq(seqs) = f[n]
  BY FlattenIs
<1>2. n \in 1..n
  BY FlattenIs
<1>3. n \in Nat
  OBVIOUS
<1> DEFINE Bad == {k \in 1..n : ~Starts(seqs[1], f[k])}
<1>4. Bad = {}
  <2>1. SUFFICES ASSUME Bad # {} PROVE FALSE
    OBVIOUS
  <2>2. PICK m \in Bad : \A k \in Bad : m <= k
    <3>1. Bad \subseteq Nat
      OBVIOUS
    <3> HIDE DEF Bad
    <3> QED BY <2>1, <3>1, Least
  <2>3. m \in 1..n /\ ~Starts(seqs[1], f[m])
    OBVIOUS
  <2>4. seqs[1] \in Seq(V) /\ seqs[m] \in Seq(V)
    BY <2>3, <1>2
  <2> HIDE DEF n
  <2>5. m # 1
    <3>1. Starts(seqs[1], seqs[1])
      BY <2>4 DEF Starts
    <3> QED BY <1>1, <2>3, <3>1 DEF Flattens
  <2>6. m - 1 \in 1..n /\ ~(m <= m - 1)
    BY <1>3, <2>3, <2>5
  <2>7. m - 1 \notin Bad
    <3> HIDE DEF Bad
    <3> QED BY <2>2, <2>6
  <2> DEFINE g == f[m - 1]
             h == f[m]
  <2>8. Starts(seqs[1], g) /\ g \in Seq(V)
    BY <1>1, <2>6, <2>7
  <2>9. h = g \o seqs[m]
    BY <1>1, <2>3, <2>5 DEF Flattens, n
  <2> HIDE DEF g, h, Bad
  <2>10. g \in Seq(V) /\ Starts(seqs[1], g)
    BY <2>8
  <2>11. Starts(seqs[1], h)
    BY <2>4, <2>9, <2>10, StartsOn
  <2> QED BY <2>3, <2>11 DEF h
<1> HIDE DEF n
<1>5. Starts(seqs[1], f[n]) /\ f[n] \in Seq(V)
  BY <1>1, <1>2, <1>4
<1> QED BY <1>1, <1>5

\* s has the one element of each of n sequences.
OneOfEach(s, seqs, n) == Len(s) = n /\ \A j \in 1..n : s[j] = seqs[j][1]

\* Sequences of one each make one of what they have, in order.
LEMMA FlattenOfOnes ==
    ASSUME NEW V, NEW seqs \in Seq(Seq(V)), \A i \in DOMAIN seqs : Len(seqs[i]) = 1
    PROVE  PLN!FlattenSeq(seqs) \in Seq(V) /\ OneOfEach(PLN!FlattenSeq(seqs), seqs, Len(seqs))
<1>1. CASE seqs = <<>>
  <2>1. Len(seqs) = 0 /\ PLN!FlattenSeq(seqs) = <<>>
    BY <1>1, EmptySeq DEF PLN!FlattenSeq
  <2>2. <<>> \in Seq(V) /\ Len(<<>>) = 0 /\ 1..0 = {}
    BY EmptySeq
  <2> QED BY <2>1, <2>2 DEF OneOfEach
<1>2. CASE seqs # <<>>
  <2> DEFINE n == Len(seqs)
  <2>1. PICK f \in [1..n -> Seq(V)] : Flattens(f, seqs) /\ PLN!FlattenSeq(seqs) = f[n]
    BY <1>2, FlattenIs
  <2>2. n \in 1..n
    BY <1>2, FlattenIs
  <2>3. n \in Nat /\ DOMAIN seqs = 1..n
    OBVIOUS
  <2>6. \A i \in 1..n : seqs[i] \in Seq(V)
    OBVIOUS
  <2>7. \A i \in 1..n : Len(seqs[i]) = 1
    BY <2>3
  <2> HIDE DEF n
  <2>8. 1 \in 1..n
    BY <2>2, <2>3
  <2> DEFINE Bad == {k \in 1..n : ~OneOfEach(f[k], seqs, k)}
  <2>4. Bad = {}
    <3>1. SUFFICES ASSUME Bad # {} PROVE FALSE
      OBVIOUS
    <3>2. PICK m \in Bad : \A k \in Bad : m <= k
      <4>1. Bad \subseteq Nat
        OBVIOUS
      <4> HIDE DEF Bad
      <4> QED BY <3>1, <4>1, Least
    <3>3. m \in 1..n /\ ~OneOfEach(f[m], seqs, m)
      OBVIOUS
    <3>4. seqs[m] \in Seq(V) /\ Len(seqs[m]) = 1
      BY ONLY <3>3, <2>6, <2>7
    <3>5. m # 1
      <4>1. seqs[1] \in Seq(V) /\ Len(seqs[1]) = 1
        BY ONLY <2>8, <2>6, <2>7
      <4>2. OneOfEach(seqs[1], seqs, 1)
        <5>1. \A j \in 1..1 : j = 1
          OBVIOUS
        <5> QED BY ONLY <4>1, <5>1 DEF OneOfEach
      <4> QED BY <2>1, <3>3, <4>2 DEF Flattens
    <3>6. m - 1 \in 1..n /\ ~(m <= m - 1)
      BY <2>3, <3>3, <3>5
    <3>7. m - 1 \notin Bad
      <4> HIDE DEF Bad
      <4> QED BY <3>2, <3>6
    <3> DEFINE g == f[m - 1]
               h == f[m]
               k == m - 1
               x == seqs[m]
    <3>8. OneOfEach(g, seqs, k) /\ g \in Seq(V)
      BY <2>1, <3>6, <3>7
    <3>9. h = g \o seqs[m]
      BY <2>1, <3>3, <3>5 DEF Flattens, n
    <3>10. m \in Nat /\ k \in Nat /\ m = k + 1
      BY <3>3, <3>5, <2>3
    <3>16. x \in Seq(V) /\ Len(x) = 1 /\ h = g \o x
      BY <3>4, <3>9
    <3> HIDE DEF g, h, Bad, k, x
    <3>17. Len(g) = k
      BY <3>8 DEF OneOfEach
    <3>11. /\ Len(h) = Len(g) + Len(x)
           /\ \A j \in 1..Len(g) : h[j] = g[j]
           /\ \A j \in (Len(g) + 1)..(Len(g) + Len(x)) : h[j] = x[j - Len(g)]
      <4>1. h = g \o x /\ g \in Seq(V) /\ x \in Seq(V)
        BY <3>8, <3>16
      <4>2. Len(g) \in Nat /\ Len(x) \in Nat
        BY <4>1
      <4>3. Len(h) = Len(g) + Len(x)
        BY ONLY <4>1, ConcatProperties
      <4>4. \A j \in 1..(Len(g) + Len(x)) : h[j] = IF j <= Len(g) THEN g[j] ELSE x[j - Len(g)]
        BY ONLY <4>1, ConcatProperties
      <4>5. ASSUME NEW j \in 1..Len(g) PROVE h[j] = g[j]
        <5>1. j \in 1..(Len(g) + Len(x)) /\ j <= Len(g)
          BY ONLY <4>2, j \in 1..Len(g)
        <5> QED BY ONLY <4>4, <5>1
      <4>6. ASSUME NEW j \in (Len(g) + 1)..(Len(g) + Len(x)) PROVE h[j] = x[j - Len(g)]
        <5>1. j \in 1..(Len(g) + Len(x)) /\ ~ (j <= Len(g))
          BY ONLY <4>2, j \in (Len(g) + 1)..(Len(g) + Len(x))
        <5> QED BY ONLY <4>4, <5>1
      <4> QED BY ONLY <4>3, <4>5, <4>6
    <3>12. Len(h) = m
      BY <3>16, <3>10, <3>11, <3>17
    <3>13. h[m] = x[1]
      <4>1. m \in (Len(g) + 1)..(Len(g) + Len(x)) /\ m - Len(g) = 1
        BY <3>16, <3>10, <3>17
      <4> QED BY <3>11, <4>1
    <3>14. ASSUME NEW j \in 1..m PROVE h[j] = seqs[j][1]
      <4>1. CASE j = m
        BY <3>13, <4>1 DEF x
      <4>2. CASE j # m
        <5>1. j \in 1..k
          BY <3>10, <4>2
        <5> QED BY <3>8, <3>11, <3>17, <5>1 DEF OneOfEach
      <4> QED BY <4>1, <4>2
    <3>15. OneOfEach(h, seqs, m)
      BY <3>12, <3>14 DEF OneOfEach
    <3> QED BY <3>3, <3>15 DEF h
  <2>5. OneOfEach(f[n], seqs, n) /\ f[n] \in Seq(V)
    BY <2>1, <2>2, <2>4
  <2> QED BY <2>1, <2>5 DEF n
<1> QED BY <1>1, <1>2

\* What a function has of a finite set is no more.
LEMMA ImageIsNoMore ==
    ASSUME NEW S, IsFiniteSet(S), NEW f, DOMAIN f = S, NEW T, T = {f[x] : x \in S}
    PROVE  /\ IsFiniteSet(T) /\ Cardinality(T) \in Nat /\ Cardinality(S) \in Nat
           /\ Cardinality(T) <= Cardinality(S)
<1> DEFINE g == [x \in S |-> f[x]]
<1>1. g \in Surjection(S, T)
  BY DEF Surjection
<1> HIDE DEF g
<1> QED BY <1>1, FS_Surjection, FS_CardinalityType

\* A plan has what comes before the cap, counted without repetition.
LEMMA OnceCapped ==
    ASSUME MaxPlanSteps \in Nat, NEW V, NEW s \in Seq(V), NEW k \in DOMAIN s,
           NEW C, IsFiniteSet(C), Cardinality(C) <= MaxPlanSteps,
           \A j \in 1..k : s[j] \in C
    PROVE  s[k] \in PLN!ToSet(PLN!Capped(PLN!Once(s)))
<1> DEFINE S == {i \in DOMAIN s : \A j \in 1..(i - 1) : s[j] # s[i]}
           t == PLN!Once(s)
           D == {i \in 1..k : s[i] = s[k]}
<1>1. Len(s) \in Nat /\ DOMAIN s = 1..Len(s) /\ k \in 1..Len(s) /\ k \in 1..k
  OBVIOUS
<1>2. PICK i \in D : \A j \in D : i <= j
  <2>1. D \subseteq Nat /\ D # {}
    BY <1>1
  <2> HIDE DEF D
  <2> QED BY <2>1, Least
<1>3. i \in 1..k /\ s[i] = s[k] /\ i \in DOMAIN s
  BY <1>1
<1>4. i \in S
  <2>1. ASSUME NEW j \in 1..(i - 1), s[j] = s[i] PROVE FALSE
    <3>1. j \in 1..k /\ ~(i <= j)
      BY <1>3, <1>1
    <3>2. j \in D
      BY <1>3, <2>1, <3>1
    <3> HIDE DEF D
    <3> QED BY <1>2, <3>1, <3>2
  <2> QED BY <1>3, <2>1
<1>5. t = PLN!At(S, s)
  BY DEF PLN!Once
<1>6. S \subseteq DOMAIN s
  OBVIOUS
<1> DEFINE Q == S \cap (1..i)
           f == [x \in Q |-> s[x]]
<1>7. f \in Injection(Q, C)
  <2>1. \A x \in Q : f[x] \in C
    BY <1>1, <1>3
  <2>2. ASSUME NEW x \in Q, NEW z \in Q, x < z PROVE f[x] # f[z]
    <3>1. x \in 1..(z - 1)
      BY <1>3, <1>1, <2>2
    <3> QED BY <3>1
  <2>3. \A x, z \in Q : x # z => x < z \/ z < x
    BY <1>3, <1>1
  <2>4. \A x, z \in Q : f[x] = f[z] => x = z
    <3> HIDE DEF Q, f
    <3> QED BY <2>2, <2>3
  <2>5. f \in [Q -> C]
    BY <2>1
  <2> HIDE DEF Q, f
  <2> QED BY <2>4, <2>5 DEF Injection, IsInjective
<1> HIDE DEF f
<1>8. Cardinality(Q) <= Cardinality(C) /\ Cardinality(Q) \in Nat /\ Cardinality(C) \in Nat
  <2> HIDE DEF Q
  <2> QED BY <1>7, FS_Injection, FS_CardinalityType
<1>9. Place(S, i) <= MaxPlanSteps
  BY <1>8 DEF Place
<1> DEFINE place == Place(S, i)
<1> HIDE DEF S, t, Q, D
<1>10. t \in Seq(V) /\ place \in 1..Len(t) /\ t[place] = s[i]
  BY <1>4, <1>5, <1>6, AtIs
<1> DEFINE cap == IF Len(t) < MaxPlanSteps THEN Len(t) ELSE MaxPlanSteps
           c   == SubSeq(t, 1, cap)
<1> HIDE DEF place
<1>11. Len(t) \in Nat /\ cap \in Nat /\ cap <= Len(t) /\ place \in 1..cap
  BY <1>9, <1>10 DEF place
<1> HIDE DEF cap
<1>12. DOMAIN c = 1..cap /\ c[place] = t[place]
  BY <1>10, <1>11
<1>13. c = PLN!Capped(t)
  BY DEF PLN!Capped, cap
<1> HIDE DEF c
<1>14. c[place] \in PLN!ToSet(c)
  BY <1>11, <1>12 DEF PLN!ToSet
<1> QED BY <1>3, <1>10, <1>12, <1>13, <1>14 DEF t

\* By priority, what each request asks for first comes first.
Requested(requests) ==
    \A r \in DOMAIN requests : requests[r] # <<>> /\ Len(requests[r][1]) = 1

FirstAre(s, requests) ==
    /\ Len(requests) <= Len(s)
    /\ \A r \in 1..Len(requests) : s[r] = PLN!FirstOf(requests[r])

\* The order by priority starts with the first check of every request.
LEMMA PriorityIs ==
    ASSUME NEW V, NEW requests \in Seq(Seq(Seq(V))), Requested(requests)
    PROVE  /\ PLN!ByPriority(requests) \in Seq(V)
           /\ FirstAre(PLN!ByPriority(requests), requests)
<1> DEFINE ask(n) == [r \in DOMAIN requests |->
                         IF n \in DOMAIN requests[r] THEN requests[r][n] ELSE <<>>]
           level(n) == PLN!FlattenSeq(ask(n))
           levels == [n \in 1..5 |-> level(n)]
           L == Len(requests)
<1>1. DOMAIN requests = 1..L /\ L \in Nat
  OBVIOUS
<1>2. \A r \in 1..L : requests[r] \in Seq(Seq(V))
  OBVIOUS
<1>3. ASSUME NEW n PROVE ask(n) \in Seq(Seq(V)) /\ Len(ask(n)) = L
  <2>1. ASSUME NEW r \in 1..L PROVE ask(n)[r] \in Seq(V)
    <3>1. <<>> \in Seq(V)
      BY EmptySeq
    <3>2. n \in DOMAIN requests[r] => requests[r][n] \in Seq(V)
      BY <1>2
    <3> QED BY <1>1, <3>1, <3>2
  <2>2. DOMAIN ask(n) = 1..L
    BY <1>1
  <2>3. ask(n) \in [1..L -> Seq(V)]
    BY <2>1, <2>2
  <2> HIDE DEF ask, L
  <2> QED BY <1>1, <2>3
<1>4. ASSUME NEW r \in 1..L
      PROVE  Len(ask(1)[r]) = 1 /\ ask(1)[r][1] = PLN!FirstOf(requests[r])
  <2>1. requests[r] # <<>> /\ Len(requests[r][1]) = 1
    BY <1>1 DEF Requested
  <2>2. 1 \in DOMAIN requests[r]
    BY <1>2, <2>1
  <2>3. ask(1)[r] = requests[r][1]
    BY <1>1, <2>2
  <2> QED BY <2>1, <2>3 DEF PLN!FirstOf
<1> HIDE DEF ask
<1>5. ASSUME NEW n PROVE level(n) \in Seq(V)
  <2>1. CASE ask(n) = <<>>
    <3>1. level(n) = <<>>
      BY <2>1, EmptySeq DEF PLN!FlattenSeq
    <3> QED BY <3>1, EmptySeq
  <2>2. CASE ask(n) # <<>>
    BY <1>3, <2>2, FlattenStarts
  <2> QED BY <2>1, <2>2
<1>6. OneOfEach(level(1), ask(1), L)
  <2> DEFINE asked == ask(1)
  <2>1. asked \in Seq(Seq(V)) /\ Len(asked) = L /\ DOMAIN asked = 1..L
    <3>1. asked \in Seq(Seq(V)) /\ Len(asked) = L
      BY <1>3
    <3> QED BY <3>1
  <2>2. \A i \in DOMAIN asked : Len(asked[i]) = 1
    BY <1>4, <2>1
  <2> HIDE DEF asked, L
  <2>3. OneOfEach(PLN!FlattenSeq(asked), asked, Len(asked))
    BY <2>1, <2>2, FlattenOfOnes
  <2> QED BY <2>1, <2>3 DEF asked
<1> HIDE DEF level
<1>7. levels \in Seq(Seq(V)) /\ levels # <<>> /\ levels[1] = level(1)
  <2>1. levels \in [1..5 -> Seq(V)] /\ 1 \in 1..5
    BY <1>5
  <2> QED BY <2>1
<1>8. PLN!ByPriority(requests) = PLN!FlattenSeq(levels)
  BY DEF PLN!ByPriority, level, ask
<1> HIDE DEF levels
<1> DEFINE s == PLN!FlattenSeq(levels)
<1>9. s \in Seq(V) /\ Starts(level(1), s)
  BY <1>7, FlattenStarts
<1> HIDE DEF s, L
<1>10. L <= Len(s) /\ \A r \in 1..L : s[r] = PLN!FirstOf(requests[r])
  <2>1. Len(level(1)) = L /\ \A r \in 1..L : level(1)[r] = ask(1)[r][1]
    BY <1>6 DEF OneOfEach
  <2>2. L <= Len(s) /\ \A r \in 1..L : s[r] = level(1)[r]
    BY <1>9, <2>1 DEF Starts
  <2> QED BY <1>4, <2>1, <2>2
<1>11. FirstAre(s, requests)
  BY <1>10 DEF FirstAre, L
<1> QED BY <1>8, <1>9, <1>11 DEF s

\* A request's first check is planned for, if it and those of the requests before it are
\* few enough.
LEMMA RequestIsPlanned ==
    ASSUME MaxPlanSteps \in Nat,
           NEW V, NEW requests \in Seq(Seq(Seq(V))), Requested(requests),
           NEW C, IsFiniteSet(C), Cardinality(C) <= MaxPlanSteps,
           NEW r \in 1..Len(requests), \A j \in 1..r : PLN!FirstOf(requests[j]) \in C
    PROVE  PLN!FirstOf(requests[r])
               \in PLN!ToSet(PLN!Capped(PLN!Once(PLN!ByPriority(requests))))
<1> DEFINE s == PLN!ByPriority(requests)
<1>1. s \in Seq(V) /\ FirstAre(s, requests)
  BY PriorityIs
<1> HIDE DEF s
<1>2. r \in DOMAIN s /\ s[r] = PLN!FirstOf(requests[r])
  <2>1. Len(requests) \in Nat /\ Len(s) \in Nat /\ DOMAIN s = 1..Len(s)
    BY <1>1
  <2> QED BY <1>1, <2>1 DEF FirstAre
<1>3. \A j \in 1..r : s[j] = PLN!FirstOf(requests[j])
  <2>1. \A j \in 1..r : j \in 1..Len(requests)
    OBVIOUS
  <2> QED BY <1>1, <2>1 DEF FirstAre
<1>4. \A j \in 1..r : s[j] \in C
  BY <1>3
<1>5. s[r] \in PLN!ToSet(PLN!Capped(PLN!Once(s)))
  BY <1>1, <1>2, <1>4, OnceCapped
<1> QED BY <1>2, <1>5 DEF s

\* The requests are those of the rows that match, in order, and of the intents.
RequestsOf(requests, p, matched, known) ==
    /\ requests \in Seq(Seq(Seq(STRING))) /\ Requested(requests)
    /\ \A m \in matched : \E r \in 1..Len(requests) :
          /\ requests[r] = p.symptoms[m].checks
          /\ \A j \in 1..r : \E o \in matched : requests[j] = p.symptoms[o].checks
    /\ \A i \in known : \E r \in 1..Len(requests) : requests[r] = p.checks[i]
    /\ \A r \in 1..Len(requests) : \/ \E m \in matched : requests[r] = p.symptoms[m].checks
                                  \/ \E i \in known : requests[r] = p.checks[i]

\* What matches is rows of the catalog.
LEMMA MatchedAre ==
    ASSUME NEW p, PLN!Catalog(p), NEW matching, matching \subseteq DOMAIN p.symptoms
    PROVE  /\ PLN!MatchSymptoms(p, matching) \in Seq(DOMAIN p.symptoms)
           /\ PLN!ToSet(PLN!MatchSymptoms(p, matching)) \subseteq DOMAIN p.symptoms
<1> DEFINE n == Len(p.symptoms)
           S == IF matching \subseteq {n} THEN matching ELSE matching \ {n}
           matches == PLN!InOrder(S, n)
<1>1. p.symptoms \in Seq([key : STRING, checks : Seq(Seq(STRING))])
  BY DEF PLN!Catalog
<1>2. n \in Nat /\ DOMAIN p.symptoms = 1..n
  BY <1>1
<1>3. matches = PLN!MatchSymptoms(p, matching)
  BY DEF PLN!MatchSymptoms
<1>4. S \subseteq 1..n
  BY <1>2
<1> HIDE DEF S, matches, n
<1>5. matches \in Seq(S)
  BY <1>2, <1>4, InOrderIs DEF matches
<1>6. matches \in Seq(DOMAIN p.symptoms)
  <2>1. Len(matches) \in Nat /\ matches \in [1..Len(matches) -> S]
    BY <1>5
  <2>2. matches \in [1..Len(matches) -> DOMAIN p.symptoms]
    BY <1>2, <1>4, <2>1
  <2> QED BY <2>1, <2>2
<1> QED BY <1>3, <1>6 DEF PLN!ToSet

\* Requests are like that for every catalog and every turn.
LEMMA RequestsAre ==
    ASSUME NEW p, PLN!Catalog(p), NEW matching, matching \subseteq DOMAIN p.symptoms,
           NEW T, NEW is \in Seq(T)
    PROVE  RequestsOf(PLN!Requests(p, matching, is), p,
                      PLN!ToSet(PLN!MatchSymptoms(p, matching)),
                      PLN!ToSet(is) \cap DOMAIN p.checks)
<1> DEFINE matches == PLN!MatchSymptoms(p, matching)
           K == {k \in DOMAIN is : is[k] \in DOMAIN p.checks}
           names == PLN!At(K, is)
           bySymptom == [r \in DOMAIN matches |-> p.symptoms[matches[r]].checks]
           byIntent == [k \in DOMAIN names |-> p.checks[names[k]]]
           requests == PLN!Requests(p, matching, is)
           known == PLN!ToSet(is) \cap DOMAIN p.checks
           levels == Seq(Seq(STRING))
           n == Len(matches)
           o == Len(names)
<1>1. /\ p.symptoms \in Seq([key : STRING, checks : levels])
      /\ \A i \in DOMAIN p.checks : p.checks[i] \in levels
  BY DEF PLN!Catalog
<1>2. /\ \A m \in DOMAIN p.symptoms : 
           p.symptoms[m].checks # <<>> /\ Len(p.symptoms[m].checks[1]) = 1
      /\ \A i \in DOMAIN p.checks : p.checks[i] # <<>> /\ Len(p.checks[i][1]) = 1
  BY DEF PLN!Catalog
<1>3. matches \in Seq(DOMAIN p.symptoms)
  BY MatchedAre
<1>4. /\ names \in Seq(T)
      /\ \A k \in K : /\ Place(K, k) \in 1..o /\ names[Place(K, k)] = is[k]
      /\ \A k \in 1..o : \E j \in K : names[k] = is[j]
  <2>1. K \subseteq DOMAIN is
    OBVIOUS
  <2> HIDE DEF K
  <2> QED BY <2>1, AtIs
<1>5. requests = bySymptom \o byIntent
  BY DEF PLN!Requests
<1> HIDE DEF matches, names, requests, levels
<1>6. /\ n \in Nat /\ DOMAIN matches = 1..n /\ \A r \in 1..n : matches[r] \in DOMAIN p.symptoms
      /\ o \in Nat /\ DOMAIN names = 1..o
  BY <1>3, <1>4
<1>7. \A k \in 1..o : names[k] \in known
  BY <1>4 DEF PLN!ToSet
<1>8. \A i \in known : \E k \in 1..o : names[k] = i
  <2>1. ASSUME NEW i \in known PROVE \E k \in 1..o : names[k] = i
    <3>1. PICK k \in DOMAIN is : is[k] = i
      BY DEF PLN!ToSet
    <3>2. k \in K
      BY <3>1
    <3> HIDE DEF K
    <3> QED BY <1>4, <3>1, <3>2
  <2> QED BY <2>1
<1> HIDE DEF n, o, known, K
<1>9. \A m \in DOMAIN p.symptoms : p.symptoms[m].checks \in levels
  <2> DEFINE sy == p.symptoms
             row == [key : STRING, checks : levels]
  <2>1. sy \in Seq(row)
    BY <1>1
  <2>2. \A x \in row : x.checks \in levels
    OBVIOUS
  <2> HIDE DEF sy, row
  <2>3. \A m \in DOMAIN sy : sy[m] \in row
    BY <2>1
  <2> QED BY <2>2, <2>3 DEF sy
<1>10. bySymptom \in Seq(levels) /\ Len(bySymptom) = n
  <2>1. bySymptom \in [1..n -> levels]
    BY <1>6, <1>9
  <2> HIDE DEF bySymptom
  <2> QED BY <1>6, <2>1
<1>11. byIntent \in Seq(levels) /\ Len(byIntent) = o
  <2>1. byIntent \in [1..o -> levels]
    BY <1>1, <1>6, <1>7 DEF known
  <2> HIDE DEF byIntent
  <2> QED BY <1>6, <2>1
<1>12. \A r \in 1..n : bySymptom[r] = p.symptoms[matches[r]].checks
  BY <1>6
<1>13. \A k \in 1..o : byIntent[k] = p.checks[names[k]]
  BY <1>6
<1> HIDE DEF bySymptom, byIntent
<1>14. /\ requests \in Seq(levels) /\ Len(requests) = n + o
       /\ \A r \in 1..(n + o) : requests[r] = IF r <= n THEN bySymptom[r] ELSE byIntent[r - n]
  BY <1>5, <1>10, <1>11, ConcatProperties
<1> DEFINE matched == PLN!ToSet(matches)
<1>15. matched = {matches[r] : r \in 1..n}
  BY <1>6 DEF PLN!ToSet
<1> HIDE DEF matched
<1>16. \A r \in 1..n : r \in 1..(n + o) /\ requests[r] = p.symptoms[matches[r]].checks
  BY <1>6, <1>12, <1>14
<1>17. \A k \in 1..o : n + k \in 1..(n + o) /\ requests[n + k] = p.checks[names[k]]
  <2>1. ASSUME NEW k \in 1..o PROVE n + k \in 1..(n + o) /\ ~(n + k <= n) /\ n + k - n = k
    BY <1>6
  <2>2. ASSUME NEW k \in 1..o PROVE requests[n + k] = byIntent[k]
    <3> DEFINE r == n + k
    <3>1. r \in 1..(n + o) /\ ~(r <= n) /\ r - n = k
      BY ONLY <1>6, k \in 1..o
    <3> HIDE DEF r
    <3>2. requests[r] = byIntent[r - n]
      BY <1>14, <3>1
    <3> QED BY <3>1, <3>2 DEF r
  <2> QED BY <1>13, <2>1, <2>2
<1>18. \A m \in matched : \E r \in 1..(n + o) :
          /\ requests[r] = p.symptoms[m].checks
          /\ \A j \in 1..r : \E x \in matched : requests[j] = p.symptoms[x].checks
  <2>1. ASSUME NEW m \in matched
        PROVE  \E r \in 1..(n + o) :
                  /\ requests[r] = p.symptoms[m].checks
                  /\ \A j \in 1..r : \E x \in matched : requests[j] = p.symptoms[x].checks
    <3>1. PICK r \in 1..n : matches[r] = m
      BY <1>15
    <3>2. \A j \in 1..r : j \in 1..n
      BY <1>6
    <3>3. \A j \in 1..r : matches[j] \in matched /\ requests[j] = p.symptoms[matches[j]].checks
      BY <1>15, <1>16, <3>2
    <3> QED BY <1>16, <3>1, <3>3
  <2> QED BY <2>1
<1>19. \A i \in known : \E r \in 1..(n + o) : requests[r] = p.checks[i]
  BY <1>8, <1>17
<1>20. \A r \in 1..(n + o) : \/ \E m \in matched : requests[r] = p.symptoms[m].checks
                            \/ \E i \in known : requests[r] = p.checks[i]
  <2>1. ASSUME NEW r \in 1..(n + o)
        PROVE  \/ \E m \in matched : requests[r] = p.symptoms[m].checks
               \/ \E i \in known : requests[r] = p.checks[i]
    <3>1. CASE r <= n
      <4>1. r \in 1..n
        BY <1>6, <3>1
      <4> QED BY <1>15, <1>16, <4>1
    <3>2. CASE ~(r <= n)
      <4>1. r - n \in 1..o
        BY <1>6, <3>2
      <4>2. requests[r] = p.checks[names[r - n]]
        BY <1>13, <1>14, <3>2, <4>1
      <4> QED BY <1>7, <4>1, <4>2
    <3> QED BY <3>1, <3>2
  <2> QED BY <2>1
<1>21. Requested(requests)
  <2>1. DOMAIN requests = 1..(n + o)
    BY <1>14
  <2>2. matched \subseteq DOMAIN p.symptoms /\ known \subseteq DOMAIN p.checks
    BY <1>6, <1>15 DEF known
  <2> QED BY <1>2, <1>20, <2>1, <2>2 DEF Requested
<1>22. RequestsOf(requests, p, matched, known)
  BY <1>14, <1>18, <1>19, <1>20, <1>21 DEF RequestsOf, levels
<1> QED BY <1>22 DEF requests, matched, known, matches

\* The planner counts as everyone does.
LEMMA SameCardinality == ASSUME NEW S PROVE PLN!Cardinality(S) = Cardinality(S)
BY DEF PLN!Cardinality, Cardinality

\* What a plan is for: the first check of every row that matches, and of every intent if
\* rows and intents are few enough.
Planned(p, matching, is, checks) ==
    LET matched == PLN!ToSet(PLN!MatchSymptoms(p, matching))
        known == PLN!ToSet(is) \cap DOMAIN p.checks
    IN  /\ \A m \in matched : PLN!ToSet(p.symptoms[m].checks[1]) \subseteq PLN!ToSet(checks)
        /\ Cardinality(matched) + Cardinality(known) <= MaxPlanSteps =>
               \A i \in known : PLN!ToSet(p.checks[i][1]) \subseteq PLN!ToSet(checks)

\* The first level of a request is its first check.
LEMMA FirstAlone ==
    ASSUME NEW levels \in Seq(Seq(STRING)), levels # <<>>, Len(levels[1]) = 1
    PROVE  PLN!ToSet(levels[1]) = {PLN!FirstOf(levels)}
<1> DEFINE s == levels[1]
<1>1. s \in Seq(STRING)
  BY EmptySeq
<1>2. DOMAIN s = {1}
  BY <1>1
<1> QED BY <1>2 DEF PLN!ToSet, PLN!FirstOf

\* Every plan of buildPlan has them.
LEMMA PlanIsPlanned ==
    ASSUME MaxPlanSteps \in Nat, NEW p, PLN!Catalog(p),
           NEW matching, matching \subseteq DOMAIN p.symptoms, NEW I, NEW is \in Seq(I)
    PROVE  Planned(p, matching, is, PLN!buildPlan(p, matching, is))
<1> DEFINE matched == PLN!ToSet(PLN!MatchSymptoms(p, matching))
           known == PLN!ToSet(is) \cap DOMAIN p.checks
           requests == PLN!Requests(p, matching, is)
           steps == PLN!ToSet(PLN!buildPlan(p, matching, is))
           n == Len(p.symptoms)
<1>1. RequestsOf(requests, p, matched, known)
  BY RequestsAre
<1>2. matched \subseteq DOMAIN p.symptoms /\ known \subseteq DOMAIN p.checks
  BY MatchedAre
<1>3. steps = PLN!ToSet(PLN!Capped(PLN!Once(PLN!ByPriority(requests))))
  BY DEF PLN!buildPlan
<1>4. IsFiniteSet(known)
  <2>1. IsFiniteSet(DOMAIN is)
    <3>1. DOMAIN is = 1..Len(is) /\ Len(is) \in Nat
      OBVIOUS
    <3> QED BY <3>1, FS_Interval
  <2>2. IsFiniteSet(PLN!ToSet(is))
    <3> DEFINE D == DOMAIN is
               T == {is[x] : x \in D}
    <3>1. IsFiniteSet(D) /\ DOMAIN is = D /\ T = {is[x] : x \in D}
      BY <2>1
    <3>2. IsFiniteSet(T)
      <4> HIDE DEF T, D
      <4> QED BY ONLY <3>1, ImageIsNoMore
    <3> QED BY <3>2 DEF PLN!ToSet
  <2> QED BY <2>2, FS_Subset
<1> HIDE DEF matched, known, requests, steps
<1>5. /\ requests \in Seq(Seq(Seq(STRING))) /\ Requested(requests)
      /\ \A m \in matched : \E r \in 1..Len(requests) :
            /\ requests[r] = p.symptoms[m].checks
            /\ \A j \in 1..r : \E o \in matched : requests[j] = p.symptoms[o].checks
      /\ \A i \in known : \E r \in 1..Len(requests) : requests[r] = p.checks[i]
      /\ \A r \in 1..Len(requests) : \/ \E m \in matched : requests[r] = p.symptoms[m].checks
                                    \/ \E i \in known : requests[r] = p.checks[i]
  BY <1>1 DEF RequestsOf
<1>6. n \in Nat /\ DOMAIN p.symptoms = 1..n /\ IsFiniteSet(DOMAIN p.symptoms)
  <2>1. p.symptoms \in Seq([key : STRING, checks : Seq(Seq(STRING))])
    BY DEF PLN!Catalog
  <2>2. n \in Nat /\ DOMAIN p.symptoms = 1..n
    BY <2>1
  <2>3. 1 \in Int /\ n \in Int
    BY <2>2
  <2> HIDE DEF n
  <2>4. IsFiniteSet(1..n)
    BY ONLY <2>3, FS_Interval
  <2> QED BY ONLY <2>2, <2>4
<1>7. IsFiniteSet(matched)
  BY <1>2, <1>6, FS_Subset
<1>8. ASSUME NEW r \in 1..Len(requests)
      PROVE  PLN!ToSet(requests[r][1]) = {PLN!FirstOf(requests[r])}
  <2>1. requests[r] # <<>> /\ Len(requests[r][1]) = 1 /\ requests[r] \in Seq(Seq(STRING))
    BY <1>5 DEF Requested
  <2> QED BY <2>1, FirstAlone
<1> DEFINE first == [m \in DOMAIN p.symptoms |-> PLN!FirstOf(p.symptoms[m].checks)]
           C == {first[m] : m \in DOMAIN p.symptoms}
<1>9. IsFiniteSet(C) /\ Cardinality(C) <= MaxPlanSteps
  <2>1. C = PLN!FirstChecks(p)
    BY DEF PLN!FirstChecks
  <2>2. Cardinality(C) <= MaxPlanSteps
    <3>1. Cardinality(PLN!FirstChecks(p)) <= MaxPlanSteps
      BY PLN!Catalog(p), SameCardinality DEF PLN!Catalog
    <3> HIDE DEF C
    <3> QED BY ONLY <2>1, <3>1
  <2> DEFINE D == DOMAIN p.symptoms
             T == C
  <2>3. IsFiniteSet(D) /\ DOMAIN first = D /\ T = {first[x] : x \in D}
    BY <1>6
  <2>4. IsFiniteSet(T)
    <3> HIDE DEF T, D, first
    <3> QED BY ONLY <2>3, ImageIsNoMore
  <2> QED BY <2>2, <2>4
<1>10. ASSUME NEW m \in matched
       PROVE  PLN!ToSet(p.symptoms[m].checks[1]) \subseteq steps
  <2>1. PICK r \in 1..Len(requests) :
           /\ requests[r] = p.symptoms[m].checks
           /\ \A j \in 1..r : \E o \in matched : requests[j] = p.symptoms[o].checks
    BY <1>5
  <2>2. \A j \in 1..r : PLN!FirstOf(requests[j]) \in C
    BY <1>2, <2>1
  <2> HIDE DEF C
  <2>3. PLN!FirstOf(requests[r]) \in steps
    BY ONLY MaxPlanSteps \in Nat, <1>3, <1>5, <1>9, <2>2, r \in 1..Len(requests), RequestIsPlanned
  <2> QED BY <1>8, <2>1, <2>3
<1>11. ASSUME Cardinality(matched) + Cardinality(known) <= MaxPlanSteps, NEW i \in known
       PROVE  PLN!ToSet(p.checks[i][1]) \subseteq steps
  <2> DEFINE f == [m \in matched |-> PLN!FirstOf(p.symptoms[m].checks)]
             g == [x \in known |-> PLN!FirstOf(p.checks[x])]
             A == {f[m] : m \in matched}
             B == {g[x] : x \in known}
             E == A \cup B
  <2>1. DOMAIN f = matched /\ DOMAIN g = known
    OBVIOUS
  <2>2. /\ \A m \in matched : PLN!FirstOf(p.symptoms[m].checks) \in E
        /\ \A x \in known : PLN!FirstOf(p.checks[x]) \in E
    OBVIOUS
  <2> HIDE DEF f, g
  <2>3. /\ IsFiniteSet(A) /\ Cardinality(A) \in Nat /\ Cardinality(matched) \in Nat
        /\ Cardinality(A) <= Cardinality(matched)
    <3> DEFINE T == A
    <3>1. T = {f[x] : x \in matched}
      OBVIOUS
    <3> HIDE DEF T
    <3>2. /\ IsFiniteSet(T) /\ Cardinality(T) \in Nat /\ Cardinality(matched) \in Nat
          /\ Cardinality(T) <= Cardinality(matched)
      BY ONLY <3>1, <1>7, <2>1, ImageIsNoMore
    <3> QED BY <3>2 DEF T
  <2>4. /\ IsFiniteSet(B) /\ Cardinality(B) \in Nat /\ Cardinality(known) \in Nat
        /\ Cardinality(B) <= Cardinality(known)
    <3> DEFINE T == B
    <3>1. T = {g[x] : x \in known}
      OBVIOUS
    <3> HIDE DEF T
    <3>2. /\ IsFiniteSet(T) /\ Cardinality(T) \in Nat /\ Cardinality(known) \in Nat
          /\ Cardinality(T) <= Cardinality(known)
      BY ONLY <3>1, <1>4, <2>1, ImageIsNoMore
    <3> QED BY <3>2 DEF T
  <2> HIDE DEF A, B
  <2>5. IsFiniteSet(E) /\ Cardinality(E) <= MaxPlanSteps
    <3>1. IsFiniteSet(E) /\ Cardinality(E) = Cardinality(A) + Cardinality(B) - Cardinality(A \cap B)
      BY <2>3, <2>4, FS_Union
    <3>2. IsFiniteSet(A \cap B)
      BY <2>3, FS_Subset
    <3>3. Cardinality(A \cap B) \in Nat
      BY <3>2, FS_CardinalityType
    <3> HIDE DEF E
    <3> QED BY <1>11, <2>3, <2>4, <3>1, <3>3
  <2> HIDE DEF E
  <2>6. PICK r \in 1..Len(requests) : requests[r] = p.checks[i]
    BY <1>5
  <2>7. \A j \in 1..r : PLN!FirstOf(requests[j]) \in E
    <3>1. \A j \in 1..r : j \in 1..Len(requests)
      OBVIOUS
    <3> QED BY <1>5, <2>2, <3>1
  <2>8. PLN!FirstOf(requests[r]) \in steps
    BY ONLY MaxPlanSteps \in Nat, <1>3, <1>5, <2>5, <2>7, r \in 1..Len(requests), RequestIsPlanned
  <2> QED BY <1>8, <2>6, <2>8
<1> QED BY <1>10, <1>11 DEF Planned, matched, known, steps

\* The inductive invariant: the plan is that of the rows and intents of the turn.
PlanInv ==
    /\ analyzer \in DOMAIN Profiles
    /\ intents \in Seq(PLN!Intents(PLN!profile))
    /\ holds \subseteq PLN!Rows
    /\ PLN!ToSet(suggestions) \subseteq DOMAIN PLN!profile.questions
    /\ intents # <<>> => plan = PLN!buildPlan(PLN!profile, holds, intents)

\* The invariant holds initially.
LEMMA PlanStarts == ASSUME PLN!Init PROVE PlanInv
<1>1. <<>> \in Seq(PLN!Intents(PLN!profile)) /\ DOMAIN <<>> = {}
  BY EmptySeq
<1>2. PLN!ToSet(<<>>) = {}
  BY <1>1 DEF PLN!ToSet
<1> QED BY <1>1, <1>2 DEF PLN!Init, PlanInv

\* What is suggested is a question of the profile.
LEMMA SuggestedAreQuestions ==
    ASSUME NEW p, PLN!Catalog(p), NEW is, NEW fact
    PROVE  PLN!ToSet(PLN!SuggestFollowUps(p, is, fact)) \subseteq DOMAIN p.questions
<1> DEFINE open == {q \in DOMAIN p.questions :
                       p.questions[q].unless \cap PLN!ToSet(is) = {} /\ (q = 1 => fact)}
           n == Len(p.questions)
           all == PLN!InOrder(open, n)
           cap == IF Len(all) < 5 THEN Len(all) ELSE 5
           s == SubSeq(all, 1, cap)
<1>1. n \in Nat /\ DOMAIN p.questions = 1..n
  BY DEF PLN!Catalog
<1>2. open \subseteq DOMAIN p.questions
  OBVIOUS
<1>3. PLN!SuggestFollowUps(p, is, fact) = s
  BY DEF PLN!SuggestFollowUps
<1> HIDE DEF open, n
<1>4. all \in Seq(open)
  BY <1>1, <1>2, InOrderIs
<1> HIDE DEF all
<1>5. Len(all) \in Nat /\ cap \in Nat /\ cap <= Len(all)
  BY <1>4
<1> HIDE DEF cap
<1>6. \A k \in DOMAIN s : s[k] \in open
  <2>1. DOMAIN s = 1..cap /\ \A k \in 1..cap : s[k] = all[k]
    BY <1>4, <1>5
  <2>2. \A k \in 1..cap : all[k] \in open
    BY <1>4, <1>5
  <2> QED BY <2>1, <2>2
<1> HIDE DEF s
<1> QED BY <1>2, <1>3, <1>6 DEF PLN!ToSet

\* A turn plans for what holds and is asked in it.
LEMMA PlanTurn ==
    ASSUME PLN!PlannerAssumption, analyzer \in DOMAIN Profiles,
           NEW matching, matching \subseteq PLN!Rows, NEW is \in Seq(PLN!Intents(PLN!profile)),
           NEW fact, PLN!Turn(matching, is, fact)
    PROVE  PlanInv'
<1> DEFINE p == PLN!profile
<1>1. PLN!Catalog(p)
  BY DEF PLN!PlannerAssumption, PLN!profile
<1>2. /\ analyzer' = analyzer /\ holds' = matching /\ intents' = PLN!TurnIntents(is)
      /\ plan' = PLN!buildPlan(p, matching, intents')
      /\ suggestions' = PLN!SuggestFollowUps(p, intents', fact)
  BY DEF PLN!Turn
<1> DEFINE I == PLN!Intents(p)
<1>3. intents' \in Seq(I)
  <2> DEFINE h == "history"
  <2>1. h \in I
    BY <1>1 DEF PLN!Catalog
  <2>2. is \in Seq(I)
    OBVIOUS
  <2> HIDE DEF h, I
  <2>3. Append(is, h) \in Seq(I)
    BY <2>1, <2>2, AppendProperties
  <2> QED BY <1>2, <2>2, <2>3 DEF PLN!TurnIntents, h
<1>4. PLN!profile' = p /\ PLN!Rows' = PLN!Rows
      /\ PLN!Intents(PLN!profile)' = I
  BY <1>2 DEF PLN!profile, PLN!Rows, PLN!Intents, PLN!ToSet
<1> HIDE DEF p, I
<1>5. PLN!ToSet(suggestions') \subseteq DOMAIN p.questions
  BY <1>1, <1>2, SuggestedAreQuestions
<1>6. (PLN!ToSet(suggestions))' = PLN!ToSet(suggestions')
  BY DEF PLN!ToSet
<1>7. (PLN!buildPlan(PLN!profile, holds, intents))'
        = PLN!buildPlan(p, matching, intents')
  BY <1>2, <1>4
<1> QED BY <1>2, <1>3, <1>4, <1>5, <1>6, <1>7 DEF PlanInv, p

\* Every step keeps the invariant.
LEMMA PlanKeeps ==
    ASSUME PLN!PlannerAssumption, PlanInv, [PLN!Next]_(PLN!vars)
    PROVE  PlanInv'
<1> DEFINE p == PLN!profile
<1>1. PLN!Catalog(p)
  BY DEF PLN!PlannerAssumption, PLN!profile, PlanInv
<1>2. CASE PLN!Ask
  <2>1. PICK is \in PLN!Messages(2), matching \in PLN!Matchings : PLN!Turn(matching, is, TRUE)
    BY <1>2 DEF PLN!Ask
  <2> DEFINE I == PLN!Intents(p)
  <2>2. is \in Seq(I)
    <3>1. <<"general">> \in Seq(I)
      <4> DEFINE g == "general"
      <4>1. g \in I
        BY DEF PLN!Intents
      <4> HIDE DEF g, I
      <4>2. <<g>> \in Seq(I)
        BY <4>1
      <4> QED BY <4>2 DEF g
    <3>2. p.intents \in Seq(I)
      BY <1>1 DEF PLN!Catalog
    <3> HIDE DEF I
    <3>3. ASSUME NEW chosen
          PROVE  PLN!At({k \in DOMAIN p.intents : p.intents[k] \in chosen}, p.intents) \in Seq(I)
      <4> DEFINE S == {k \in DOMAIN p.intents : p.intents[k] \in chosen}
                 s == p.intents
      <4>1. S \subseteq DOMAIN s /\ s \in Seq(I)
        BY <3>2
      <4> HIDE DEF S, s
      <4>2. PLN!At(S, s) \in Seq(I)
        BY <4>1, AtIs
      <4> QED BY <4>2 DEF S, s
    <3>4. \/ is = <<"general">>
          \/ \E chosen : is = PLN!At({k \in DOMAIN p.intents : p.intents[k] \in chosen}, p.intents)
      BY <2>1, Zenon DEF PLN!Messages
    <3> QED BY <3>1, <3>3, <3>4
  <2>3. matching \subseteq PLN!Rows
    <3>1. Len(p.symptoms) \in PLN!Rows
      <4>1. p.symptoms \in Seq([key : STRING, checks : Seq(Seq(STRING))]) /\ p.symptoms # <<>>
        BY <1>1 DEF PLN!Catalog
      <4>2. Len(p.symptoms) # 0 /\ Len(p.symptoms) \in Nat /\ DOMAIN p.symptoms = 1..Len(p.symptoms)
        BY <4>1, EmptySeq
      <4> QED BY <4>2 DEF PLN!Rows
    <3> QED BY <2>1, <3>1 DEF PLN!Matchings
  <2> QED BY <2>1, <2>2, <2>3, PlanTurn DEF PlanInv
<1>3. CASE PLN!AskSuggested
  <2>1. PICK q \in PLN!ToSet(suggestions), fact \in BOOLEAN :
           PLN!Turn(holds, p.questions[q].classified, fact)
    BY <1>3 DEF PLN!AskSuggested
  <2>2. p.questions[q].classified \in Seq(PLN!Intents(p))
    BY <1>1, <2>1 DEF PLN!Catalog, PlanInv
  <2> QED BY <2>1, <2>2, PlanTurn DEF PlanInv
<1>4. CASE UNCHANGED PLN!vars
  BY <1>4 DEF PLN!vars, PlanInv, PLN!Rows, PLN!profile, PLN!ToSet, PLN!Intents
<1> QED BY <1>2, <1>3, <1>4 DEF PLN!Next

\* The plan has the first check of every symptom, and that of the question.
LEMMA PlannedFor ==
    ASSUME PLN!PlannerAssumption, PlanInv
    PROVE  PLN!FirstCheckIsPlanned /\ PLN!QuestionIsChecked
<1> DEFINE p == PLN!profile
           known == PLN!ToSet(intents) \cap DOMAIN p.checks
<1>1. PLN!Catalog(p) /\ MaxPlanSteps \in Nat
  BY DEF PLN!PlannerAssumption, PLN!profile, PlanInv
<1>2. CASE intents = <<>>
  <2>1. PLN!ToSet(intents) = {}
    BY <1>2 DEF PLN!ToSet
  <2> QED BY <1>2, <2>1 DEF PLN!FirstCheckIsPlanned, PLN!QuestionIsChecked
<1>3. CASE intents # <<>>
  <2>1. Planned(p, holds, intents, plan)
    <3>1. holds \subseteq DOMAIN p.symptoms /\ intents \in Seq(PLN!Intents(p))
          /\ plan = PLN!buildPlan(p, holds, intents)
      BY <1>3 DEF PlanInv, PLN!Rows
    <3> HIDE DEF p
    <3> QED BY <1>1, <3>1, PlanIsPlanned
  <2>2. /\ \A m \in PLN!Matched : PLN!ToSet(p.symptoms[m].checks[1]) \subseteq PLN!ToSet(plan)
        /\ Cardinality(PLN!Matched) + Cardinality(known) <= MaxPlanSteps =>
               \A i \in known : PLN!ToSet(p.checks[i][1]) \subseteq PLN!ToSet(plan)
    BY <2>1 DEF Planned, PLN!Matched
  <2>3. PLN!FirstCheckIsPlanned
    BY <2>2 DEF PLN!FirstCheckIsPlanned
  <2>4. PLN!QuestionIsChecked
    BY <2>2, SameCardinality, Zenon DEF PLN!QuestionIsChecked
  <2> QED BY <2>3, <2>4
<1> QED BY <1>2, <1>3
=============================================================================
