---------------------------- MODULE ClusterFixes ----------------------------
(***************************************************************************)
(* From a sick cluster to a fix and back (plugins/k8s): a collection reads *)
(* the cluster, BuildFindings names what is wrong and proposes fixes, a    *)
(* click in the dashboard or a `y` at the prompt of `exalm k8s fix` has    *)
(* ApplyRemediation carry one out, and meanwhile the cluster's controllers *)
(* and other people change it.  Every deployment has one pod here, and of  *)
(* the detectors those are modelled that propose a fix.                    *)
(***************************************************************************)
EXTENDS Integers, FiniteSets, SequencesExt

CONSTANTS
    Clusters,    \* the clusters a behaviour may start with
    Scopes,      \* what --namespace may be: namespaces, or All
    All,
    LabelKeys, App, Absent,   \* App is the label `app`; Absent: no such label
    Labels,      \* label sets a deployment may be given
    Limits,      \* limits a deployment's containers may be given
    Healths,     \* what checkHealth may say of a pod; "ok": nothing
    MaxPods,     \* CollectOpts.MaxPods
    MaxDrift,    \* bound: changes other people make
    MaxFixes     \* bound: fixes that are tried

Containers == UNION {DOMAIN l : l \in Limits}

VARIABLES
    scope,       \* CollectOpts.Namespace
    cluster,     \* deployments, their pods, services and cronjobs, by <<ns, name>>
    findings,    \* liveServer's report, of the last collection
    page,        \* the findings the browser shows
    prompt,      \* the fixable findings `k8s fix` still asks about
    drifts, fixes

\* Kept for the properties only.
VARIABLES
    asOf,        \* the drifts up to the collection of findings, and of prompt
    applied,     \* the last fix: what was chosen, what was carried out
    cured        \* findings a fix of whose was carried out, unchanged since

vars == <<scope, cluster, findings, page, prompt, drifts, fixes, asOf, applied, cured>>

InScope(k) == scope \in {All, k[1]}

---------------------------------------------------------------------------
(* The cluster.                                                            *)

Carries(labels, selector) ==
    \A k \in LabelKeys : selector[k] # Absent => labels[k] = selector[k]
Empty(labels) == \A k \in LabelKeys : labels[k] = Absent

Ready(pod) == pod.health \in {"ok", "OOMKilled"}

\* A pod a controller makes; its name is never used again.
NewPod(d, serial, health) ==
    [serial |-> serial, labels |-> d.labels, limits |-> d.limits, health |-> health]

\* What a cluster is: every deployment has one pod, whose limits are those of its
\* template unless a rollout is to do.
IsCluster(c) ==
    /\ DOMAIN c = {"deployments", "pods", "services", "cronjobs", "order"}
    /\ DOMAIN c.pods = DOMAIN c.deployments
    /\ \A k \in DOMAIN c.deployments :
           /\ k = <<k[1], k[2]>>
           /\ DOMAIN c.deployments[k] = {"labels", "limits", "rollout"}
           /\ DOMAIN c.pods[k] = {"serial", "labels", "limits", "health"}
           /\ c.deployments[k].rollout \in BOOLEAN /\ c.pods[k].health \in Healths
           /\ ~c.deployments[k].rollout => c.pods[k].limits = c.deployments[k].limits
    /\ \A j \in DOMAIN c.cronjobs : c.cronjobs[j] \in BOOLEAN

\* What the constants are: clusters, and healths that are no other symptom's name.
ClusterFixesAssumption ==
    /\ \A c \in Clusters : IsCluster(c)
    /\ Healths \cap {"Deployment stalled", "Resource limits missing", "CronJob suspended"} = {}

\* No deployment has a rollout to do.
Settled(c) == \A k \in DOMAIN c.deployments : ~c.deployments[k].rollout

---------------------------------------------------------------------------
(* Collect.                                                                *)

Pods(c) == {k \in DOMAIN c.pods : InScope(k)}

\* checkHealth's score, without the restarts: up to 30 more.
Score == [OOMKilled |-> 90, CrashLoopBackOff |-> 100, ImagePullBackOff |-> 80,
          NotReady |-> 40]

\* The unhealthy pods a collection may keep: MaxPods of those that score highest.
UnhealthyPods(c) ==
    LET sick == {k \in Pods(c) : c.pods[k].health # "ok"}
    IN {kept \in SUBSET sick :
           /\ Cardinality(kept) = IF Cardinality(sick) > MaxPods THEN MaxPods
                                  ELSE Cardinality(sick)
           /\ \A k \in kept, l \in sick \ kept :
                  Score[c.pods[l].health] <= Score[c.pods[k].health] + 30}

collectDeployments(c) ==
    {k \in DOMAIN c.deployments : InScope(k) /\ ~Ready(c.pods[k])}

\* Names of services, wherever they are, that have a ready endpoint.
readyEP(c) ==
    {s[2] : s \in {t \in DOMAIN c.services : InScope(t) /\
        \E k \in DOMAIN c.pods :
            k[1] = t[1] /\ Ready(c.pods[k]) /\ Carries(c.pods[k].labels, c.services[t])}}

collectServiceIssues(c) ==
    {s \in DOMAIN c.services :
        InScope(s) /\ ~Empty(c.services[s]) /\ s[2] \notin readyEP(c)}

\* The keys of the selector that the pod template has, or else its app label.
newSelector(selector, labels) ==
    LET shared == [k \in LabelKeys |-> IF selector[k] = Absent THEN Absent ELSE labels[k]]
    IN IF ~Empty(shared) THEN shared
       ELSE [k \in LabelKeys |-> IF k = App THEN labels[App] ELSE Absent]

\* The first deployment of the list whose template differs from the selector and has
\* a label to suggest; 0: there is none.
Suggesting(c, s) ==
    LET Suggests(k) ==
            LET labels == c.deployments[k].labels
            IN /\ InScope(k) /\ ~Carries(labels, c.services[s])
               /\ ~Empty(newSelector(c.services[s], labels))
    IN SelectInSeq(c.order, LAMBDA k : k \in DOMAIN c.deployments /\ Suggests(k))

\* For every service without an endpoint, what such a deployment suggests.
collectSelectorMismatches(c) ==
    LET Patch(s) ==
            newSelector(c.services[s], c.deployments[c.order[Suggesting(c, s)]].labels)
    IN {[key |-> s,
         patch |-> {<<k, Patch(s)[k]>> : k \in {l \in LabelKeys : Patch(s)[l] # Absent}}] :
           s \in {t \in collectServiceIssues(c) : Suggesting(c, t) # 0}}

Gaps(pod) == {x \in DOMAIN pod.limits : pod.limits[x] # {"cpu", "memory"}}

\* Mutant of collectResourceGaps: it lists the pods of every namespace.
GapsEverywhere(c) == {k \in DOMAIN c.pods : Gaps(c.pods[k]) # {}}

collectResourceGaps(c) == {k \in Pods(c) : Gaps(c.pods[k]) # {}}

collectCronJobIssues(c) == {j \in DOMAIN c.cronjobs : InScope(j) /\ c.cronjobs[j]}

---------------------------------------------------------------------------
(* BuildFindings.  A title is a symptom and the ns/name it is about, from  *)
(* which attachEntity makes the entity.                                    *)

NoRemediation == [kind |-> "none"]
Remediation(kind, resource, key, patch) ==
    [kind |-> kind, resource |-> resource, key |-> key, patch |-> patch]
Finding(category, symptom, key, remediation) ==
    [category |-> category, symptom |-> symptom, key |-> key,
     remediation |-> remediation]

PodName(c, k) == <<k[1], <<k[2], c.pods[k].serial>>>>

\* The fix of an image that cannot be pulled restarts "deployment" <pod name>.
PodFinding(c, k) ==
    LET name == PodName(c, k)
        health == c.pods[k].health
    IN Finding("Pods", health, name,
           CASE health \in {"CrashLoopBackOff", "OOMKilled"} ->
                    Remediation("delete-pod", "pod", name, {})
             [] health = "ImagePullBackOff" ->
                    Remediation("rollout-restart", "deployment", name, {})
             [] OTHER -> NoRemediation)

StalledFinding(k) ==
    Finding("Pods", "Deployment stalled", k,
            Remediation("rollout-restart", "deployment", k, {}))

ServiceFinding(s) == Finding("Services", "Service no endpoints", s, NoRemediation)

SelectorFinding(m) ==
    Finding("Services", "Service selector mismatch", m.key,
            Remediation("patch-resource", "service", m.key, m.patch))

\* Mutant of gapPatch: the first container only.
FirstGapOnly(pod) == {CHOOSE x \in Gaps(pod) : TRUE}

\* The containers the add-limits patch names.
gapPatch(pod) == Gaps(pod)

GapFinding(c, k) ==
    Finding("Resources", "Resource limits missing", PodName(c, k),
            Remediation("add-limits", "deployment", k, gapPatch(c.pods[k])))

CronJobFinding(j) ==
    Finding("Workloads", "CronJob suspended", j,
            Remediation("resume-cronjob", "cronjob", j, {}))

BuildFindings(c, unhealthy) ==
    {PodFinding(c, k) : k \in unhealthy}
    \cup {StalledFinding(k) : k \in collectDeployments(c)}
    \cup {ServiceFinding(s) : s \in collectServiceIssues(c)}
    \cup {SelectorFinding(m) : m \in collectSelectorMismatches(c)}
    \cup {GapFinding(c, k) : k \in collectResourceGaps(c)}
    \cup {CronJobFinding(j) : j \in collectCronJobIssues(c)}

\* What a collection of the cluster c may report.
Reports(c) == {BuildFindings(c, kept) : kept \in UnhealthyPods(c)}

\* Mutant of ID: the name without its namespace.
IdByName(f) == <<f.category, f.symptom, f.key[2]>>

ID(f) == <<f.category, f.symptom, f.key>>

\* classifyKind's FixType.
FixType(kind) ==
    IF kind \in {"delete-pod", "rollout-restart"} THEN "temporary" ELSE "root-cause"

---------------------------------------------------------------------------
(* ApplyRemediation.                                                       *)

\* The object is there.  A pod that was replaced is not.
Exists(r, c) ==
    CASE r.resource = "pod"        -> \E k \in DOMAIN c.pods : PodName(c, k) = r.key
      [] r.resource = "deployment" -> r.key \in DOMAIN c.deployments
      [] r.resource = "service"    -> r.key \in DOMAIN c.services
      [] r.resource = "cronjob"    -> r.key \in DOMAIN c.cronjobs

rolloutRestart(r, c) == [c EXCEPT !.deployments[r.key].rollout = TRUE]

resumeCronJob(r, c) == [c EXCEPT !.cronjobs[r.key] = FALSE]

\* The deployment's controller replaces the pod; how that one does is left open.
deletePod(r, c) ==
    LET k == CHOOSE l \in DOMAIN c.pods : PodName(c, l) = r.key
    IN [c EXCEPT !.deployments[k].rollout = TRUE]

\* A merge patch: the keys it does not name stay.
patchResource(r, c) ==
    [c EXCEPT !.services[r.key] =
        [k \in LabelKeys |->
            IF \E p \in r.patch : p[1] = k THEN (CHOOSE p \in r.patch : p[1] = k)[2]
            ELSE @[k]]]

addResourceLimits(r, c) ==
    [c EXCEPT !.deployments[r.key].rollout = TRUE,
              !.deployments[r.key].limits =
                  [x \in DOMAIN @ |-> IF x \in r.patch THEN {"cpu", "memory"} ELSE @[x]]]

ApplyRemediation(r, c) ==
    CASE r.kind = "rollout-restart" -> rolloutRestart(r, c)
      [] r.kind = "resume-cronjob"  -> resumeCronJob(r, c)
      [] r.kind = "delete-pod"      -> deletePod(r, c)
      [] r.kind = "patch-resource"  -> patchResource(r, c)
      [] r.kind = "add-limits"      -> addResourceLimits(r, c)

---------------------------------------------------------------------------
(* Steps.                                                                  *)

Never == -1    \* a collection made while a rollout was under way
Now(c) == IF Settled(c) THEN drifts ELSE Never

Init ==
    /\ scope \in Scopes
    /\ cluster \in Clusters
    /\ findings = {} /\ page = {} /\ prompt = {}
    /\ drifts = 0 /\ fixes = 0
    /\ asOf = [findings |-> Never, prompt |-> Never]
    /\ applied = [chosen |-> NoRemediation, done |-> NoRemediation]
    /\ cured = {}

\* Start, the refresh ticker and the watch loop.  Of the dashboard and `k8s fix`
\* one is modelled at a time: to either the other is somebody changing the cluster.
Collect ==
    /\ prompt = {}
    /\ findings' \in Reports(cluster)
    /\ asOf' = [asOf EXCEPT !.findings = Now(cluster)]
    /\ UNCHANGED <<scope, cluster, page, prompt, drifts, fixes, applied, cured>>

Poll ==
    /\ page' = findings
    /\ UNCHANGED <<scope, cluster, findings, prompt, drifts, fixes, asOf, applied, cured>>

\* f was chosen and g is carried out: of a collection made at `at`.
CarryOut(f, g, at) ==
    /\ fixes < MaxFixes /\ fixes' = fixes + 1
    /\ Exists(g.remediation, cluster)
    /\ cluster' = ApplyRemediation(g.remediation, cluster)
    /\ applied' = [chosen |-> f.remediation, done |-> g.remediation]
    /\ cured' = IF at = drifts THEN cured \cup {g} ELSE cured

\* doFix: the finding is looked up by id in the report of now, and after the fix
\* the cluster is collected anew, unless that fails.
doFix(f) ==
    /\ f \in page
    /\ \E g \in findings :
           /\ ID(g) = ID(f) /\ g.remediation # NoRemediation
           /\ CarryOut(f, g, asOf.findings)
    /\ \/ findings' \in Reports(cluster') /\ asOf' = [asOf EXCEPT !.findings = Now(cluster')]
       \/ UNCHANGED <<findings, asOf>>
    /\ UNCHANGED <<scope, page, prompt, drifts>>

\* k8s fix --apply: one collection, then a question for every fixable finding;
\* any answer but yes, and a fix that fails, leave the cluster as it is.
StartFix ==
    /\ findings = {} /\ prompt = {}
    /\ \E report \in Reports(cluster) :
           prompt' = {f \in report : f.remediation # NoRemediation}
    /\ asOf' = [asOf EXCEPT !.prompt = Now(cluster)]
    /\ UNCHANGED <<scope, cluster, findings, page, drifts, fixes, applied, cured>>

AnswerYes(f) ==
    /\ f \in prompt
    /\ prompt' = prompt \ {f}
    /\ CarryOut(f, f, asOf.prompt)
    /\ UNCHANGED <<scope, findings, page, drifts, asOf>>

EndFix ==
    /\ prompt # {} /\ prompt' = {}
    /\ UNCHANGED <<scope, cluster, findings, page, drifts, fixes, asOf, applied, cured>>

---------------------------------------------------------------------------
(* The cluster's controllers and other people.                             *)

\* The deployment's pod is replaced by one of its template.
Rollout(k) ==
    /\ k \in DOMAIN cluster.deployments /\ cluster.deployments[k].rollout
    /\ \E health \in Healths :
           cluster' = [cluster EXCEPT
               !.deployments[k].rollout = FALSE,
               !.pods[k] = NewPod(cluster.deployments[k], @.serial + 1, health)]
    /\ cured' = IF cluster'.pods[k].health = "ok" THEN cured ELSE {}
    /\ UNCHANGED <<scope, findings, page, prompt, drifts, fixes, asOf, applied>>

Drift == /\ drifts < MaxDrift /\ drifts' = drifts + 1
         /\ cured' = {}
         /\ UNCHANGED <<scope, findings, page, prompt, fixes, asOf, applied>>

Turns(k) == Drift /\ \E health \in Healths \ {cluster.pods[k].health} :
                cluster' = [cluster EXCEPT !.pods[k].health = health]

Deploy(k) == Drift /\ \E labels \in Labels, limits \in Limits :
                 cluster' = [cluster EXCEPT !.deployments[k] =
                     [labels |-> labels, limits |-> limits, rollout |-> TRUE]]

Suspend(j) == Drift /\ cluster' = [cluster EXCEPT !.cronjobs[j] = TRUE]

Delete(k) == Drift /\ cluster' = [cluster EXCEPT
    !.deployments = [l \in DOMAIN @ \ {k} |-> @[l]],
    !.pods = [l \in DOMAIN @ \ {k} |-> @[l]]]

Next ==
    \/ Collect \/ Poll \/ StartFix \/ EndFix
    \/ \E f \in page : doFix(f)
    \/ \E f \in prompt : AnswerYes(f)
    \/ \E k \in DOMAIN cluster.deployments : Rollout(k) \/ Turns(k) \/ Deploy(k) \/ Delete(k)
    \/ \E j \in DOMAIN cluster.cronjobs : Suspend(j)

Spec == Init /\ [][Next]_vars

---------------------------------------------------------------------------

TypeOK ==
    /\ scope \in Scopes
    /\ DOMAIN cluster.pods = DOMAIN cluster.deployments
    /\ \A k \in DOMAIN cluster.pods :
           /\ cluster.deployments[k].labels \in Labels
           /\ DOMAIN cluster.deployments[k].limits \subseteq Containers
           /\ cluster.pods[k].health \in Healths
    /\ \A s \in DOMAIN cluster.services : DOMAIN cluster.services[s] = LabelKeys
    /\ \A f \in findings \cup page \cup prompt : f.category \in
           {"Pods", "Services", "Resources", "Workloads"}
    /\ drifts \in 0..MaxDrift /\ fixes \in 0..MaxFixes

\* What a click carries out is the kind of fix, and changes the object, that the
\* page showed beside the button, although the report was collected anew since:
\* no other finding has the same id (server.go:768, plugin.go:155).
FixIsTheOneChosen ==
    /\ applied.done.kind = applied.chosen.kind
    /\ applied.done # NoRemediation =>
           /\ applied.done.resource = applied.chosen.resource
           /\ applied.done.key = applied.chosen.key

\* With --namespace, no fix changes anything of another namespace: the list calls
\* take it, and a fix names what they returned.
ScopeKept ==
    fixes' # fixes =>
        \A field \in {"deployments", "services", "cronjobs"} :
            \A k \in DOMAIN cluster[field] :
                ~InScope(k) => cluster'[field][k] = cluster[field][k]

FixesStayInScope == [][ScopeKept]_vars

\* The finding f is there again: the same symptom, with the same object to fix.
Recurs(f, c) ==
    \E report \in Reports(c) : \E g \in report :
        /\ g.symptom = f.symptom
        /\ g.remediation # NoRemediation /\ g.remediation.key = f.remediation.key

Gone(kinds) ==
    Settled(cluster) =>
        \A f \in cured : f.remediation.kind \in kinds => ~Recurs(f, cluster)

\* After limits were added or a cronjob resumed, the finding does not come back
\* until somebody changes the cluster, given that nothing changed between the
\* collection and the fix: all the containers of the pod are in one patch
\* (findings.go:367-376), and the pod's deployment is the one patched.
SpecFixHolds == Gone({"add-limits", "resume-cronjob"})

\* The same of every fix that classify.go:57 calls a root-cause fix: "The
\* underlying spec is corrected, so the issue should not recur."
RootCauseDoesNotRecur ==
    Gone({"add-limits", "resume-cronjob", "patch-resource"})
=============================================================================
