--------------------------- MODULE LiveDashboard ---------------------------
(***************************************************************************)
(* The live dashboard (internal/web/server.go): one report shared by the   *)
(* handlers that fix findings, a refresher goroutine (the analyze-mode     *)
(* ticker, or in watch mode the k8s plugin's collection loop and the       *)
(* goroutine that consumes its channel), and the cluster they all look at. *)
(* Under `exalm serve` a further goroutine stands between the two: it adds *)
(* the SLO findings, which stay the same and are left out here, and offers *)
(* the report to a channel of its own.                                     *)
(*                                                                         *)
(* A collection (plugins/k8s/collect.go) asks the cluster for one list     *)
(* after another, each a step of its own: the cluster changes in between,  *)
(* and some lists may fail without ending the collection.  Applying a fix  *)
(* and storing findings are steps, too, and nothing orders the steps of    *)
(* one handler against those of another: the report's mutex covers one     *)
(* read or one write.  A finding stands for the problem it reports, and    *)
(* the cluster is the set of problems it has.                              *)
(***************************************************************************)
EXTENDS Integers, Sequences, SequencesExt, FiniteSets

CONSTANTS Findings,     \* problems a collection can report
          Kind,         \* Findings -> remediation kind, or NoFix
          NoFix,        \* the finding carries no remediation
          NLists,       \* list calls of a collection, which are made in order
          ListOf,       \* Findings -> 1..NLists, the list that reports it
          BestEffort,   \* the lists whose errors are dropped
          Requests,     \* requests to /api/fix, /api/findings/{id}/fix, /api/fix-all
          Setups,       \* to explore: a mode, maxConcurrentFixes, the requests that come
          MaxChanges,   \* bound: changes of the cluster from outside
          None          \* nothing

ASSUME DashboardAssumption ==
    /\ IsFiniteSet(Findings)
    /\ NLists \in Nat \ {0} /\ ListOf \in [Findings -> 1..NLists]
    /\ MaxChanges \in Nat
    /\ Setups \subseteq [mode : {"analyze", "watch", "serve"}, gate : Nat \ {0},
                        requests : SUBSET Requests]

VARIABLES
    mode,      \* what ReportUpdates is wired to, if to anything
    gate,      \* capacity of fixSem
    cluster,   \* problems the cluster has
    changes,   \* how often it changed from outside
    report,    \* findings of the stored report
    loop,      \* the refresher's collection, as far as it is
    watchCh,   \* the watch channel: empty or one report
    merging,   \* what mergeLiveUpdates received and has not offered, or None
    mergedCh,  \* the channel it offers to: empty or one report
    pump,      \* what the consumer received and has not stored, or None
    pc,        \* where each request is
    items,     \* what the request still has to apply
    results,   \* outcome of each item applied so far
    snap       \* the request's re-collection, as far as it is

\* Kept for the properties only.
VARIABLES
    asked,     \* the remediations the request set out to apply
    past       \* the states the cluster went through, up to the present one

hop       == <<merging, mergedCh>>
refresher == <<loop, watchCh, merging, mergedCh, pump>>
requests  == <<pc, items, results, snap, asked>>
vars == <<mode, gate, cluster, changes, report, refresher, requests, past>>

Active == {"lookup", "one", "all", "collect"}
Held == {r \in Requests : pc[r] \in Active}     \* slots of fixSem taken

\* kindOrder: restarts before resumes before deletes, everything else last.
orderOf(kind) == CASE kind = "rollout-restart" -> 0
                   [] kind = "resume-cronjob"  -> 1
                   [] kind = "delete-pod"      -> 2
                   [] OTHER                    -> 99

Fixable(findings) == {f \in findings : Kind[f] # NoFix}

OfList(findings, l) == {f \in findings : ListOf[f] = l}

\* A collection: how many lists have been read, and what they reported.
Collections == [read : 0..NLists, found : SUBSET Findings]
NothingRead == [read |-> 0, found |-> {}]
Complete(c) == c.read = NLists

\* The next list, as the cluster has it now.
WithNext(c) == [read |-> c.read + 1, found |-> c.found \cup OfList(cluster, c.read + 1)]

\* Mutant of WithoutNext: the error of any list is dropped.
DropsAnyError(c) == [c EXCEPT !.read = @ + 1]

\* The next list fails: a best-effort one is left out, any other ends the collection.
WithoutNext(c) ==
    IF c.read + 1 \in BestEffort THEN [c EXCEPT !.read = @ + 1] ELSE NothingRead

\* Mutant of OrderForBatch: the batch is applied in whatever order it is found.
OrderAsFound(fs) == SetToSeqs(fs)

\* The batches of the given items that are sorted by kind.  (The stable sort keeps
\* the report's own order among equals; which that is does not matter here.)
OrderForBatch(fs) ==
    {s \in SetToSeqs(fs) :
        \A i, j \in DOMAIN s : i < j => orderOf(Kind[s[i]]) <= orderOf(Kind[s[j]])}

\* Mutant of Shown: an empty collection is taken for a failed one.
ShownUnlessEmpty(findings) == IF findings = {} THEN report ELSE findings

\* setFindings: the report then has exactly these findings.
Shown(findings) == findings

Init ==
    /\ \E s \in Setups :
           /\ mode = s.mode /\ gate = s.gate
           /\ pc = [r \in Requests |-> IF r \in s.requests THEN "idle" ELSE "done"]
    /\ cluster = Findings
    /\ changes = 0
    /\ report = cluster
    /\ loop = NothingRead /\ pump = None
    /\ watchCh = <<>> /\ merging = None /\ mergedCh = <<>>
    /\ items = [r \in Requests |-> <<>>]
    /\ results = [r \in Requests |-> <<>>]
    /\ snap = [r \in Requests |-> NothingRead]
    /\ asked = [r \in Requests |-> {}]
    /\ past = <<cluster>>

ClusterBecomes(state) ==
    /\ cluster' = state
    /\ past' = IF state = cluster THEN past ELSE Append(past, state)

---------------------------------------------------------------------------
(* The refresher.                                                          *)

LoopList ==
    /\ ~Complete(loop)
    /\ loop' = WithNext(loop)
    /\ UNCHANGED <<mode, gate, cluster, changes, report, watchCh, hop, pump, requests,
                   past>>

LoopListFails ==
    /\ ~Complete(loop)
    /\ loop' = WithoutNext(loop)
    /\ UNCHANGED <<mode, gate, cluster, changes, report, watchCh, hop, pump, requests,
                   past>>

\* Analyze mode: the ticker's refreshOnce stores what it collected.
TickerStore ==
    /\ mode = "analyze" /\ Complete(loop)
    /\ report' = Shown(loop.found)
    /\ loop' = NothingRead
    /\ UNCHANGED <<mode, gate, cluster, changes, watchCh, hop, pump, requests, past>>

\* Mutant of LoopPush: reports pile up in front of a slow consumer.
PushAlways ==
    /\ mode \in {"watch", "serve"} /\ Complete(loop)
    /\ watchCh' = Append(watchCh, loop.found)
    /\ loop' = NothingRead
    /\ UNCHANGED <<mode, gate, cluster, changes, report, hop, pump, requests, past>>

\* Watch mode: the plugin offers the report to a channel of capacity one and
\* drops it when the last one has not been taken.
LoopPush ==
    /\ mode \in {"watch", "serve"} /\ Complete(loop)
    /\ watchCh' = IF watchCh = <<>> THEN <<loop.found>> ELSE watchCh
    /\ loop' = NothingRead
    /\ UNCHANGED <<mode, gate, cluster, changes, report, hop, pump, requests, past>>

\* mergeLiveUpdates takes a report, and drops it when its own last one is still there.
MergeReceive ==
    /\ mode = "serve" /\ merging = None /\ watchCh # <<>>
    /\ merging' = Head(watchCh)
    /\ watchCh' = Tail(watchCh)
    /\ UNCHANGED <<mode, gate, cluster, changes, report, loop, mergedCh, pump, requests,
                   past>>

MergeOffer ==
    /\ merging # None
    /\ mergedCh' = IF mergedCh = <<>> THEN <<merging>> ELSE mergedCh
    /\ merging' = None
    /\ UNCHANGED <<mode, gate, cluster, changes, report, loop, watchCh, pump, requests,
                   past>>

PumpReceive ==
    /\ mode = "watch" /\ pump = None /\ watchCh # <<>>
    /\ pump' = Head(watchCh)
    /\ watchCh' = Tail(watchCh)
    /\ UNCHANGED <<mode, gate, cluster, changes, report, loop, hop, requests, past>>

PumpReceiveMerged ==
    /\ pump = None /\ mergedCh # <<>>
    /\ pump' = Head(mergedCh)
    /\ mergedCh' = Tail(mergedCh)
    /\ UNCHANGED <<mode, gate, cluster, changes, report, loop, watchCh, merging, requests,
                   past>>

PumpStore ==
    /\ pump # None
    /\ report' = Shown(pump)
    /\ pump' = None
    /\ UNCHANGED <<mode, gate, cluster, changes, loop, watchCh, hop, requests, past>>

---------------------------------------------------------------------------
(* Fix requests.                                                           *)

Goto(r, to) == pc' = [pc EXCEPT ![r] = to]

\* The handler returns.
Answer(r) ==
    /\ Goto(r, "done")
    /\ items' = [items EXCEPT ![r] = <<>>]
    /\ results' = [results EXCEPT ![r] = <<>>]
    /\ snap' = [snap EXCEPT ![r] = NothingRead]
    /\ asked' = [asked EXCEPT ![r] = {}]

Reject(r) ==
    /\ pc[r] = "idle" /\ Cardinality(Held) >= gate
    /\ Goto(r, "done")
    /\ UNCHANGED <<mode, gate, cluster, changes, report, refresher, items, results, snap,
                   asked, past>>

\* doFix, by id: the slot is taken first, the finding looked up after.
FixById(r, f) ==
    /\ pc[r] = "idle" /\ Cardinality(Held) < gate
    /\ Goto(r, "lookup")
    /\ asked' = [asked EXCEPT ![r] = {f}]
    /\ UNCHANGED <<mode, gate, cluster, changes, report, refresher, items, results, snap,
                   past>>

Lookup(r) ==
    /\ pc[r] = "lookup" /\ asked[r] \subseteq Fixable(report)
    /\ Goto(r, "one")
    /\ \E f \in asked[r] : items' = [items EXCEPT ![r] = <<f>>]
    /\ UNCHANGED <<mode, gate, cluster, changes, report, refresher, results, snap, asked,
                   past>>

\* "finding not found or has no remediation"
NotFound(r) ==
    /\ pc[r] = "lookup" /\ ~(asked[r] \subseteq Fixable(report))
    /\ Answer(r)
    /\ UNCHANGED <<mode, gate, cluster, changes, report, refresher, past>>

\* handleFix: the action itself is in the body, whatever the report says now.
FixByAction(r, f) ==
    /\ pc[r] = "idle" /\ Cardinality(Held) < gate
    /\ Kind[f] # NoFix
    /\ Goto(r, "one")
    /\ items' = [items EXCEPT ![r] = <<f>>]
    /\ asked' = [asked EXCEPT ![r] = {f}]
    /\ UNCHANGED <<mode, gate, cluster, changes, report, refresher, results, snap, past>>

\* handleFixAll: one slot for the batch, taken from the report as it is now.
FixAll(r) ==
    /\ pc[r] = "idle" /\ Cardinality(Held) < gate
    /\ Goto(r, "all")
    /\ \E s \in OrderForBatch(Fixable(report)) : items' = [items EXCEPT ![r] = s]
    /\ asked' = [asked EXCEPT ![r] = Fixable(report)]
    /\ UNCHANGED <<mode, gate, cluster, changes, report, refresher, results, snap, past>>

\* The cluster accepts the first item; the problem is gone, or is still there
\* (a rollout that does not help).
Applied(r) ==
    /\ \E state \in {cluster, cluster \ {Head(items[r])}} : ClusterBecomes(state)
    /\ items' = [items EXCEPT ![r] = Tail(@)]
    /\ results' = [results EXCEPT ![r] = Append(@, [of |-> Head(items[r]), OK |-> TRUE])]
    /\ UNCHANGED <<mode, gate, changes, report, refresher, snap, asked>>

ApplyOne(r) ==
    /\ pc[r] = "one"
    /\ Goto(r, "collect")
    /\ Applied(r)

\* The cluster refuses: a single fix answers 500 and does not re-collect.
ApplyOneFails(r) ==
    /\ pc[r] = "one"
    /\ Answer(r)
    /\ UNCHANGED <<mode, gate, cluster, changes, report, refresher, past>>

ApplyNext(r) ==
    /\ pc[r] = "all" /\ items[r] # <<>>
    /\ UNCHANGED pc
    /\ Applied(r)

\* Mutant of ApplyNextFails: the first failure ends the batch.
ApplyNextAborts(r) ==
    /\ pc[r] = "all" /\ items[r] # <<>>
    /\ items' = [items EXCEPT ![r] = <<>>]
    /\ results' = [results EXCEPT ![r] = Append(@, [of |-> Head(items[r]), OK |-> FALSE])]
    /\ UNCHANGED <<mode, gate, cluster, changes, report, refresher, pc, snap, asked,
                   past>>

\* A failure inside a batch is recorded and the batch goes on.
ApplyNextFails(r) ==
    /\ pc[r] = "all" /\ items[r] # <<>>
    /\ items' = [items EXCEPT ![r] = Tail(@)]
    /\ results' = [results EXCEPT ![r] = Append(@, [of |-> Head(items[r]), OK |-> FALSE])]
    /\ UNCHANGED <<mode, gate, cluster, changes, report, refresher, pc, snap, asked,
                   past>>

BatchApplied(r) ==
    /\ pc[r] = "all" /\ items[r] = <<>>
    /\ Goto(r, "collect")
    /\ UNCHANGED <<mode, gate, cluster, changes, report, refresher, items, results, snap,
                   asked, past>>

\* refreshOnce, in the request's own goroutine, if it has something to collect with:
\* `exalm serve` gives it nothing.
Recollecting(r) == pc[r] = "collect" /\ mode # "serve" /\ ~Complete(snap[r])

RefreshList(r) ==
    /\ Recollecting(r)
    /\ snap' = [snap EXCEPT ![r] = WithNext(@)]
    /\ UNCHANGED <<mode, gate, cluster, changes, report, refresher, pc, items, results,
                   asked, past>>

\* A list fails, or the client went away and with it every list that is left.
RefreshMisses(r) ==
    /\ Recollecting(r) /\ snap[r].read + 1 \in BestEffort
    /\ snap' = [snap EXCEPT ![r] = WithoutNext(@)]
    /\ UNCHANGED <<mode, gate, cluster, changes, report, refresher, pc, items, results,
                   asked, past>>

\* Mutant of RefreshFails: a failed collection blanks the report.
RefreshBlanks(r) ==
    /\ Recollecting(r) /\ snap[r].read + 1 \notin BestEffort
    /\ Answer(r)
    /\ report' = {}
    /\ UNCHANGED <<mode, gate, cluster, changes, refresher, past>>

\* The same of a list that ends the collection: the last findings stay.
RefreshFails(r) ==
    /\ Recollecting(r) /\ snap[r].read + 1 \notin BestEffort
    /\ Answer(r)
    /\ UNCHANGED <<mode, gate, cluster, changes, report, refresher, past>>

NoRefresh(r) ==
    /\ pc[r] = "collect" /\ mode = "serve"
    /\ Answer(r)
    /\ UNCHANGED <<mode, gate, cluster, changes, report, refresher, past>>

RefreshStore(r) ==
    /\ pc[r] = "collect" /\ Complete(snap[r])
    /\ Answer(r)
    /\ report' = Shown(snap[r].found)
    /\ UNCHANGED <<mode, gate, cluster, changes, refresher, past>>

---------------------------------------------------------------------------
\* The cluster breaks or heals by itself.
ClusterChanges ==
    /\ changes < MaxChanges
    /\ changes' = changes + 1
    /\ \E f \in Findings : \/ ClusterBecomes(cluster \cup {f})
                           \/ ClusterBecomes(cluster \ {f})
    /\ UNCHANGED <<mode, gate, report, refresher, requests>>

Refresher == LoopList \/ LoopListFails \/ TickerStore \/ LoopPush
Merger    == MergeReceive \/ MergeOffer
Consumer  == PumpReceive \/ PumpReceiveMerged \/ PumpStore

Request(r) ==
    \/ Reject(r) \/ FixAll(r) \/ Lookup(r) \/ NotFound(r)
    \/ \E f \in Findings : FixById(r, f) \/ FixByAction(r, f)
    \/ ApplyOne(r) \/ ApplyOneFails(r)
    \/ ApplyNext(r) \/ ApplyNextFails(r) \/ BatchApplied(r)
    \/ RefreshList(r) \/ RefreshMisses(r) \/ RefreshFails(r) \/ NoRefresh(r)
    \/ RefreshStore(r)

Next == Refresher \/ Merger \/ Consumer \/ (\E r \in Requests : Request(r)) \/ ClusterChanges

Spec == Init /\ [][Next]_vars

\* The ticker keeps ticking, a list call returns, if with an error, and the consumer
\* goroutine and the one before it get to run.  Nothing is assumed of requests.
FairSpec == Spec /\ WF_vars(Refresher) /\ WF_vars(Merger) /\ WF_vars(Consumer)

---------------------------------------------------------------------------
(* Properties.                                                             *)

TypeOK ==
    /\ mode \in {"analyze", "watch", "serve"} /\ gate \in Nat \ {0}
    /\ cluster \in SUBSET Findings /\ report \in SUBSET Findings
    /\ changes \in 0..MaxChanges
    /\ loop \in Collections /\ pump \in {None} \cup SUBSET Findings
    /\ watchCh \in Seq(SUBSET Findings) /\ Len(watchCh) <= 1
    /\ merging \in {None} \cup SUBSET Findings
    /\ mergedCh \in Seq(SUBSET Findings) /\ Len(mergedCh) <= 1
    /\ pc \in [Requests -> {"idle", "done"} \cup Active]
    /\ items \in [Requests -> Seq(Findings)]
    /\ results \in [Requests -> Seq([of : Findings, OK : BOOLEAN])]
    /\ snap \in [Requests -> Collections]
    /\ \A r \in Requests : pc[r] = "one" => items[r] # <<>>
    /\ asked \in [Requests -> SUBSET Findings]
    /\ past \in Seq(SUBSET Findings)

\* What the first n lists of one collection report: each list is as the cluster had it
\* at some moment, those moments in the order of the lists; one that may fail may be
\* missing as a whole.
IsReading(found, n) ==
    \E at \in [1..n -> DOMAIN past] :
        /\ \A k, l \in 1..n : k <= l => at[k] <= at[l]
        /\ \A l \in 1..n :
               \/ OfList(found, l) = OfList(past[at[l]], l)
               \/ l \in BestEffort /\ OfList(found, l) = {}

\* Whatever handlers and refreshers race, and whichever lists fail or are cut off, the
\* report is what one collection read: never put together from two, never older in a
\* list that was read later, and never without the problems of a list whose error ends
\* the collection.  (refreshOnce: "leaves the last good findings in place rather than
\* blanking"; collect.go:27: "a usable (possibly partial) Snapshot".)
ReportIsOneReading == IsReading(report, NLists)

\* When a batch is through, there is exactly one result for each remediation the
\* report listed when the batch was taken, failures included (ApplyAll).
BatchReportsAll ==
    \A r \in Requests : pc[r] \in {"all", "collect"} =>
        LET tried == [i \in DOMAIN results[r] |-> results[r][i].of]
        IN  /\ Len(tried \o items[r]) = Cardinality(asked[r])
            /\ ToSet(tried \o items[r]) = asked[r]

\* A batch never goes back to a gentler kind of remediation: no pod is deleted
\* before a restart of the same batch had its chance, whatever other requests do
\* meanwhile (kindOrder).
RestartsBeforeDeletes ==
    \A r \in Requests : \A i, j \in DOMAIN results[r] :
        i < j => orderOf(Kind[results[r][i].of]) <= orderOf(Kind[results[r][j].of])

\* Once the cluster stops changing and no list that has something to report fails any
\* more, the dashboard comes to show the cluster as it is and stays so, in every mode,
\* whatever stale or partial collections were under way.  (A step that leaves out a list
\* with nothing in it is also one that reads it.)
Converges == <>[][LoopListFails => LoopList]_vars => <>[](report = cluster)
=============================================================================
