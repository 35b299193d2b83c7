----------------------------- MODULE KubeDiagnosis ----------------------------
(***************************************************************************)
(* What a chat about a Kubernetes cluster rests on: a turn of the engine   *)
(* (internal/investigate) with the profile of plugins/k8s.                 *)
(*                                                                         *)
(* A turn mixes three sources of different age: the snapshot of the last   *)
(* collection, the cluster as it is now, and the ledger of changes.  The   *)
(* pod that the snapshot says is failing may have recovered or be gone.    *)
(*                                                                         *)
(* Each of two namespaces has a deployment with one pod, of the same name  *)
(* in both, and a service for it.  A name is the sequence of its parts     *)
(* between dashes, a text the set of what the patterns find in it.         *)
(***************************************************************************)
EXTENDS LogEngine

CONSTANTS Profiles,      \* the catalogs, by analyzer (module Catalogs)
          MaxPlanSteps,  \* cap of a plan
          MaxDrift       \* bound: changes of the cluster

VARIABLES
    live,      \* the cluster: what there is to know of each pod
    drift,     \* how often it has changed
    snapshot,  \* the last collection
    ledger,    \* the recorded changes
    reply      \* what the reply of the last chat turn rests on; {} before

vars == <<live, drift, snapshot, ledger, reply>>

PLN == INSTANCE Planner WITH
           Load <- 0, MaxTurns <- 0, analyzer <- "", turns <- 0, holds <- {},
           intents <- <<>>, plan <- <<>>, suggestions <- <<>>

catalog == Profiles["k8s"]

---------------------------------------------------------------------------
(* The cluster.                                                            *)

Namespaces == {"shop", "bank"}
PodName    == <<"web", "1">>
Place(ns, name) == [ns |-> ns, name |-> name]
Pods       == {Place(ns, PodName) : ns \in Namespaces}

\* How a service of the namespace stands to the pod.
Service(selects, slices, ready) == [selects |-> selects, slices |-> slices, ready |-> ready]

\* A pod that is well, and what is around it.  `log` is that of its container,
\* `previous` of the one before, {} if there was none; `delay` is the initial delay
\* of its probes, 0 if it has none.  Events name the reason and the message.
Calm == [phase |-> "Running", failure |-> "", waiting |-> "", terminated |-> "",
         ready |-> TRUE, log |-> {}, previous |-> {}, events |-> {},
         owned |-> TRUE, limits |-> TRUE, delay |-> 30, failing |-> {},
         refs |-> {"configmap", "secret"}, node |-> TRUE, pressed |-> FALSE,
         service |-> Service(TRUE, TRUE, 1), claims |-> {}, policies |-> {},
         quota |-> FALSE, hpa |-> FALSE, coredns |-> "well"]

Unready == [ready |-> FALSE, service |-> Service(TRUE, TRUE, 0), failing |-> {"Available"}]
Killed  == [terminated |-> "OOMKilled", previous |-> {"oom"}, limits |-> FALSE,
            hpa |-> TRUE] @@ Calm
Looping == [waiting |-> "CrashLoopBackOff", events |-> {{"BackOff"}}] @@ Unready

\* Bound: one of these troubles, or two that meet in one pod.
Situations == {
    Calm, Killed,
    [log |-> {}, previous |-> {"error"}, refs |-> {"configmap"}] @@ Looping @@ Calm,
    [waiting |-> "ImagePullBackOff", phase |-> "Pending", refs |-> {"secret"},
     events |-> {{"Failed to pull", "403"}, {"BackOff"}}] @@ Unready @@ Calm,
    [events |-> {{"Unhealthy", "probe"}}, log |-> {"connection refused"},
     delay |-> 5] @@ Unready @@ Calm,
    [events |-> {{"Unhealthy", "probe"}}, delay |-> 0,
     service |-> Service(TRUE, FALSE, 0)] @@ Unready @@ Calm,
    [phase |-> "Pending", node |-> FALSE, events |-> {{"FailedScheduling", "insufficient"}},
     claims |-> {{"unbound", "storageclass missing"}}, quota |-> TRUE] @@ Unready @@ Calm,
    [phase |-> "Failed", failure |-> "Evicted", pressed |-> TRUE, limits |-> FALSE,
     events |-> {{"Evicted"}}, owned |-> FALSE] @@ Calm,
    [previous |-> {"error", "no such host"}, coredns |-> "CrashLoopBackOff",
     policies |-> {{"default-deny"}}] @@ Looping @@ Calm,
    [log |-> {"5xx", "error"}, pressed |-> TRUE, refs |-> {},
     service |-> Service(FALSE, FALSE, 0)] @@ Unready @@ Calm,
    [log |-> {"connection refused", "no ready endpoints"}, limits |-> FALSE, hpa |-> TRUE,
     policies |-> {{"isolatesEgress=true"}, {}}, service |-> Service(TRUE, TRUE, 10)]
        @@ Unready @@ Calm}

\* The pod is gone and what it was behind has no endpoints.
Gone == [Calm EXCEPT !.phase = "Gone", !.service = Service(TRUE, TRUE, 0)]

---------------------------------------------------------------------------
(* The collection.                                                         *)

waitingScores == {"CrashLoopBackOff", "OOMKilled", "ImagePullBackOff", "ErrImagePull"}

\* checkHealth, of a pod that is old enough for it.
checkHealth(p) ==
    IF p.phase = "Gone" THEN ""
    ELSE IF p.phase = "Failed" THEN (IF p.failure = "" THEN "Failed" ELSE p.failure)
    ELSE IF p.waiting \in waitingScores THEN p.waiting
    ELSE IF p.terminated = "OOMKilled" THEN "OOMKilled"
    ELSE IF p.phase = "Pending" THEN "Pending"
    ELSE IF p.phase = "Running" /\ ~p.ready THEN "NotReady" ELSE ""

\* Of a container that is not ready, the log of the one before if there was one.
fetchLogs(p) == IF p.ready THEN {} ELSE IF p.previous # {} THEN p.previous ELSE p.log

\* Two of the categories, those that symptoms are made of.
scanLogPatterns(log) ==
    {a \in {"http-5xx", "db-error"} :
        (IF a = "http-5xx" THEN "5xx" ELSE "connection refused") \in log}

buildPodSummary(p) ==
    [phase |-> p.phase, reason |-> checkHealth(p), log |-> fetchLogs(p),
     anomalies |-> scanLogPatterns(fetchLogs(p))]

collectEvents == UNION {{[at |-> k, text |-> e] : e \in live[k].events} : k \in Pods}

\* The services are told apart by their names only: one that has endpoints in any
\* namespace has them in all.
ServiceIssues == IF \A k \in Pods : live[k].service.ready = 0 THEN Namespaces ELSE {}

\* Every pod has a node of its own.
NodeIssues == {k \in Pods : live[k].pressed}

collectDeployments ==
    {Place(k.ns, <<"web">>) : k \in {k \in Pods : live[k].owned /\ ~live[k].ready}}

NoSnapshot == [pods |-> <<>>, events |-> {}, nodes |-> {}, services |-> {},
               mismatches |-> {}, deployments |-> {}, coredns |-> "well"]

CollectSnapshot ==
    /\ snapshot' =
           [pods        |-> [k \in {k \in Pods : checkHealth(live[k]) # ""} |->
                                buildPodSummary(live[k])],
            events      |-> collectEvents,
            nodes       |-> NodeIssues,
            services    |-> ServiceIssues,
            mismatches  |-> {k.ns : k \in {k \in Pods : ~live[k].service.selects}},
            deployments |-> collectDeployments,
            coredns     |-> IF \E k \in Pods : live[k].coredns # "well"
                            THEN "CrashLoopBackOff" ELSE "well"]
    /\ reply = {} /\ snapshot' # snapshot
    /\ UNCHANGED <<live, drift, ledger, reply>>

---------------------------------------------------------------------------
(* The ledger of changes.                                                  *)

correlationKinds == {"Deployment", "ConfigMap"}

Day == 24 * 60

\* Ages in minutes; one is ahead of the clock, another too old.
Entry(ns, name, kind, age) == [ns |-> ns, name |-> name, kind |-> kind, age |-> age]

Ledgers == {
    {},
    {Entry("shop", <<"web">>, "Deployment", 5)},
    {Entry("shop", <<"web">>, "Deployment", 3 * Day),
     Entry("bank", <<"web">>, "Deployment", 5)},
    {Entry("shop", <<"web">>, "Deployment", 8 * Day),
     Entry("shop", <<"web">>, "HelmRelease", 5),
     Entry("shop", <<"web">>, "Deployment", -5),
     Entry("shop", <<"api">>, "ConfigMap", 5)}}

\* Mutant of RecentForResource: changes are recent for ever.
EverRecent(place, days) ==
    {c \in ledger : /\ c.ns = place.ns
                    /\ (c.name = place.name \/ IsStrictPrefix(c.name, place.name))
                    /\ c.kind \in correlationKinds}

\* RecentForResource, of a place with a name: changes of it, or of what its name begins
\* with, in a number of days.
RecentForResource(place, days) ==
    {c \in ledger : /\ c.ns = place.ns
                    /\ c.name = place.name \/ IsStrictPrefix(c.name, place.name)
                    /\ c.kind \in correlationKinds
                    /\ 0 <= c.age /\ c.age <= days * Day}

changeFrequency(place, days) ==
    IF place.name = <<>> THEN {} ELSE RecentForResource(place, days)

---------------------------------------------------------------------------
(* Symptoms (symptoms.go).                                                 *)

\* Evidence of any kind, or of one.
Says(p, weight)       == Matcher("any", p, weight)
ConfigSays(p, weight) == Matcher("config", p, weight)
LogSays(p, weight)    == Matcher("log", p, weight)
AnyChange(weight)     == Matcher("change", AnyText, weight)
NoChange              == {Matcher("change", {"no changes recorded"}, 20)}

\* What the reason of the pod, and its events, must name.
Reasons ==
       "oom-killed" :> {"OOMKilled"} @@ "image-pull" :> {"ImagePullBackOff", "ErrImagePull"}
    @@ "crashloop" :> {"CrashLoopBackOff"} @@ "evicted" :> {"Evicted"}
Words ==
       "oom-killed" :> {"OOMKill"}
    @@ "image-pull" :> {"Failed to pull", "ErrImagePull", "ImagePullBackOff"}
    @@ "crashloop" :> {"BackOff"} @@ "probe-failure" :> {"Unhealthy", "probe"}
    @@ "pending-unschedulable" :> {"FailedScheduling"} @@ "evicted" :> {"Evicted"}
    @@ "pvc-stuck" :> {"FailedMount", "FailedAttachVolume", "ProvisioningFailed"}

oomCauses == <<
    Unless(Cause("limit too low", 70, {ConfigSays({"memLimits=false"}, 15),
                                       Says({"oom"}, 10)}),
           {Matcher("event", {"memorypressure"}, 10)}),
    Unless(Cause("memory regression", 50, {AnyChange(25)}), NoChange),
    Unless(Cause("node memory pressure", 35, {Says({"memorypressure"}, 30)}),
           {Says({"oomkilled"}, 10)})>>
pullCauses == <<
    Unless(Cause("credentials", 55, {Says({"403", "authentication"}, 25),
                                     ConfigSays({"secret/"}, 5)}),
           {Says({"not found"}, 15)}),
    Unless(Cause("image reference", 45, {Says({"not found"}, 30)}), {Says({"403"}, 15)}),
    Cause("registry unreachable", 25, {Says({"timeout", "connection refused"}, 30)})>>
crashCauses == <<
    Cause("application crashes", 55, {LogSays({"error"}, 20)}),
    Unless(Cause("recent deployment", 45, {AnyChange(25)}), NoChange),
    Cause("missing reference", 35, {Says({"configmap not found"}, 35)})>>
probeCauses == <<
    Cause("thresholds", 50, {ConfigSays({"initialDelay short"}, 15)}),
    Cause("unready", 45, {LogSays({"connection refused", "timeout"}, 25)}),
    Cause("probe path", 30, {Says({"404"}, 25)})>>
pendingCauses == <<
    Cause("insufficient resources", 50, {Says({"insufficient"}, 25)}),
    Cause("quota exhausted", 40, {ConfigSays({"quota"}, 25)}),
    Cause("PVC unbound", 35, {Says({"unbound", "storageclass missing"}, 30)})>>
evictedCauses == <<
    Cause("node pressure", 60, {Says({"pressure"}, 25)}),
    Cause("missing requests", 35, {ConfigSays({"memLimits=false"}, 20)})>>
pvcCauses == <<
    Cause("storage class", 50, {Says({"storageclass missing", "provisioningfailed"}, 30)}),
    Cause("attach", 40, {Says({"failedmount", "failedattach"}, 25)})>>
dnsCauses == <<
    Cause("resolution", 45, {Says({"coredns unhealthy", "no such host"}, 25)}),
    Cause("network policy", 30, {ConfigSays({"isolatesEgress=true", "default-deny"}, 30)})>>
httpCauses == <<
    Cause("downstream", 45, {Says({"no ready endpoints", "selector mismatch",
                                  "connection refused"}, 25)}),
    Cause("recent deploy", 40, {AnyChange(25)})>>
dbCauses == <<
    Cause("database unreachable", 45, {Says({"connection refused", "no ready endpoints",
                                            "timeout"}, 25)}),
    Cause("database credentials", 35, {Says({"authentication"}, 30)})>>
unknownCauses == <<
    Cause("recent change", 40, {AnyChange(25)}),
    Cause("application fault", 35, {LogSays({"error"}, 20)})>>

\* The causes in the row of a symptom.
CausesFor(key) ==
    CASE key = "oom-killed"            -> oomCauses
      [] key = "image-pull"            -> pullCauses
      [] key = "crashloop"             -> crashCauses
      [] key = "probe-failure"         -> probeCauses
      [] key = "pending-unschedulable" -> pendingCauses
      [] key = "evicted"               -> evictedCauses
      [] key = "pvc-stuck"             -> pvcCauses
      [] key = "dns-failure"           -> dnsCauses
      [] key = "http-5xx"              -> httpCauses
      [] key = "db-error"              -> dbCauses
      [] key = "unknown-unhealthy"     -> unknownCauses

\* findPod: the snapshot's pod of that place, if it is one of the failing.
findPod(place) == {snapshot.pods[k] : k \in DOMAIN snapshot.pods \cap {place}}

\* Events of a place, of all if it is empty.
EventsOf(place) == {e \in snapshot.events : place.name = <<>> \/ e.at = place}

\* Mutant of podHasEventReason: an event of any pod.
AnyHasEventReason(place, words) == \E e \in snapshot.events : words \cap e.text # {}

podHasEventReason(place, words) == \E e \in EventsOf(place) : words \cap e.text # {}

\* Match of a symptom.
symptomMatches(key, place) ==
    \/ key \in DOMAIN Reasons /\ \E p \in findPod(place) : p.reason \in Reasons[key]
    \/ key \in DOMAIN Words /\ podHasEventReason(place, Words[key])
    \/ \E p \in findPod(place) :
           \/ key = "pending-unschedulable" /\ p.phase = "Pending"
           \/ key = "dns-failure" /\ "no such host" \in p.log
           \/ key \in p.anomalies
           \/ key = "unknown-unhealthy"

Rows(place) ==
    PLN!MatchSymptoms(catalog, {r \in DOMAIN catalog.symptoms :
                                   symptomMatches(catalog.symptoms[r].key, place)})

---------------------------------------------------------------------------
(* Collectors (profile.go).  A turn's surroundings: whether there is a     *)
(* connection to the cluster, the metrics provider, what the last chat     *)
(* about the focus concluded, and how the last incident of it was resolved *)
(* (a text each, or none).  Either text says whatever it says, also of     *)
(* endpoints.                                                              *)

Worlds == {
    [client |-> TRUE, metrics |-> "modeled", chats |-> {}, incidents |-> {}],
    [client |-> TRUE, metrics |-> "measured",
     chats |-> {{"concluded"}}, incidents |-> {{"resolution", "selector mismatch"}}],
    [client |-> FALSE, metrics |-> "none",
     chats |-> {{"concluded", "no ready endpoints"}}, incidents |-> {{}}]}

\* The pod of a place as the cluster has it now, if it can be asked for it.
Get(place, w) ==
    {live[k] : k \in {k \in Pods \cap {place} : w.client /\ live[k].phase # "Gone"}}

gatherPreviousLogs(p) == IF p.previous = {} THEN {} ELSE {Item("log", p.previous)}

\* "ago", in minutes if it was within the hour; of changes as old as each other, one.
gatherChangeHistory(place) ==
    {Item("change", IF c.age < 60 THEN {"ago", "m ago"} ELSE {"ago"}) :
        c \in changeFrequency(place, 7)}

\* What the pod refers to, of which only names, keys and ages are read, is evidence of a
\* change, though it says of none.
configMapsFor(p) == {{"keys"} : ref \in {"configmap"} \cap p.refs}
secretsFor(p)    == {{"secret/", "age"} : ref \in {"secret"} \cap p.refs}

gatherConfigMaps(p) == {Item("change", says) : says \in configMapsFor(p)}
gatherSecrets(p)    == {Item("change", says) : says \in secretsFor(p)}

\* Every condition of the node by its name, whether it holds or not.
nodeDetail == {"memorypressure", "pressure"}

\* If the pod has one; and what the snapshot says of the node.
gatherNodePressure(place, p) ==
    IF ~p.node THEN {}
    ELSE {Item("metric", nodeDetail)} \cup
         (IF place \in snapshot.nodes THEN {Item("event", {"memorypressure", "pressure"})}
          ELSE {})

gatherMetrics(w) ==
    IF w.metrics = "none" THEN {}
    ELSE {Item("metric", IF w.metrics = "modeled" THEN {"modeled"} ELSE {})}

\* The services of the namespace that had no endpoints, of all if there is no focus.
ServiceEvents(place, issues, says) ==
    {Item("event", says) : ns \in {ns \in issues : place.ns \in {"", ns}}}

\* Pods are told apart by their names only.
gatherDNSHeuristic(place) ==
    (IF snapshot.coredns = "well" THEN {}
     ELSE {Item("event", {"coredns unhealthy", "unhealthy"})})
    \cup ServiceEvents(place, snapshot.services, {"no ready endpoints"})
    \cup {Item("log", {"no such host"}) :
             k \in {k \in DOMAIN snapshot.pods : /\ place.name \in {<<>>, k.name}
                                               /\ "no such host" \in snapshot.pods[k].log}}

gatherRelatedResources(place) ==
    ServiceEvents(place, snapshot.services, {"no ready endpoints"})
    \cup ServiceEvents(place, snapshot.mismatches, {"selector mismatch"})

\* Of the workload its limits, and its probes, also if there are none.
detailFromPodSpec(p) ==
    {IF p.limits THEN {"memLimits=true"} ELSE {"memLimits=false"},
     {"probe"} \cup (IF p.delay \in 1..9 THEN {"initialDelay short"} ELSE {})}

\* The controllers of a pod, from one owner to the next.
ownerChainFor(p) == IF p.owned THEN <<"ReplicaSet", "Deployment">> ELSE <<>>

\* The conditions that a deployment does not meet.
deploymentDetail(p) == {{c} : c \in p.failing}

\* The chain, the workload with its rollout, and the conditions of it that fail.
gatherOwnerChain(p) ==
    IF ownerChainFor(p) = <<>> THEN {}
    ELSE {Item("topology", {}), Item("config", {"ready"})}
         \cup {Item("config", says) : says \in detailFromPodSpec(p)}
         \cup {Item("event", says) : says \in deploymentDetail(p)}

\* The number of ready endpoints is looked for by its last digit, and only if the service
\* has a slice.
gatherServiceChain(p) ==
    IF ~p.service.selects THEN {}
    ELSE {Item("topology", IF p.service.slices /\ p.service.ready % 10 = 0
                           THEN {"0 ready"} ELSE {})}

gatherStorageChain(p) == {Item("topology", c) : c \in p.claims}

gatherScaling(p) == IF p.hpa THEN {Item("config", {"AT MAX"})} ELSE {}

gatherNetpol(p) == {Item("config", c) : c \in p.policies}

gatherRBAC == {Item("config", {"binding"})}

gatherNamespaceDetail(place, w) ==
    IF w.client /\ \E k \in Pods : k.ns = place.ns /\ live[k].quota
    THEN {Item("config", {"quota"})} ELSE {}

\* GatherHistory: chats about the focus, incidents of it or of its namespace, and the
\* changes of thirty days.
History(place, w) ==
    {Item("history", says) : says \in IF place.name = <<>> THEN {} ELSE w.chats}
    \cup {Item("history", says) : says \in IF place.ns = "" THEN {} ELSE w.incidents}
    \cup (IF changeFrequency(place, 30) # {} THEN {Item("history", {"ago"})} ELSE {})

\* A collector that asks the cluster for the pod has nothing if it is gone.
k8sCollectors(c, place, w) ==
    CASE c = "change-history"   -> gatherChangeHistory(place)
      [] c = "metrics"          -> gatherMetrics(w)
      [] c = "dns-heuristic"    -> gatherDNSHeuristic(place)
      [] c = "related-services" -> gatherRelatedResources(place)
      [] c = "namespace-detail" -> gatherNamespaceDetail(place, w)
      [] c = "history"          -> History(place, w)
      [] c = "vpa"              -> {}
      [] OTHER -> UNION {
           CASE c = "previous-logs"     -> gatherPreviousLogs(p)
             [] c = "configmaps"        -> gatherConfigMaps(p)
             [] c = "secrets"           -> gatherSecrets(p)
             [] c = "node-detail"       -> gatherNodePressure(place, p)
             [] c = "owner-chain"       -> gatherOwnerChain(p)
             [] c = "service-endpoints" -> gatherServiceChain(p)
             [] c = "storage-chain"     -> gatherStorageChain(p)
             [] c = "scaling"           -> gatherScaling(p)
             [] c = "netpol"            -> gatherNetpol(p)
             [] c = "rbac"              -> gatherRBAC : p \in Get(place, w)}

\* The logs of the pod in the snapshot are evidence of every turn.
podEvidence(place) == {Item("log", p.log) : p \in {p \in findPod(place) : p.log # {}}}

\* executePlan, without the cache.
Gather(checks, place, w) ==
    podEvidence(place) \cup UNION {k8sCollectors(c, place, w) : c \in ToSet(checks)}

---------------------------------------------------------------------------
(* Confidence (confidence.go).                                             *)

terminalRsns == {"OOMKilled", "Evicted"}
endpointRe   == {"no ready endpoints", "selector mismatch", "0 ready"}

confidenceRules(place) == <<
    Rule(95, IF \E p \in findPod(place) : p.reason \in terminalRsns THEN {{}} ELSE {}),
    Rule(90, {{Saw("event", {"unhealthy", "probe"}),
               Saw("config", {"unhealthy", "probe"})}}),
    Rule(85, {{Saw("change", {"m ago"})}}),
    Rule(75, {{Saw("change", {"ago"})}}),
    Rule(70, {{Saw("any", endpointRe)}}),
    Rule(60, {{Saw("log", {"error", "oom"})}}),
    Rule(55, {{Saw("any", {"pressure"})}}),
    Rule(45, {{Saw("metric", AnyText)}}),
    Rule(30, {{Saw("any", AnyText)}})>>

---------------------------------------------------------------------------
(* A turn of a chat.                                                       *)

Nowhere == Place("", <<>>)

\* resolveFocus: a place that is written out; else the failing pod that is named, the
\* deployment that is, its name being part of the pod's; else that of the finding the
\* chat was opened from, if the snapshot still has it.
Focuses ==
    LET failing == DOMAIN snapshot.pods
        stalled == snapshot.deployments
    IN  Pods
        \cup (IF failing # {} THEN failing ELSE IF stalled # {} THEN stalled ELSE {Nowhere})
        \cup (IF stalled # {} THEN stalled ELSE {Nowhere})

\* buildTimeline: the changes of a week, the events, and the pod as it is now.
buildTimeline(place) ==
    [changes |-> changeFrequency(place, 7), events |-> EventsOf(place),
     state |-> findPod(place)]

\* Bound: what is asked.
Questions == {"general", "rca", "dns", "configmap", "related-services"}

Turn(intents, place, w) ==
    LET matched  == Rows(place)
        checks   == PLN!buildPlan(catalog, ToSet(matched), intents \o <<"history">>)
        evidence == Gather(checks, place, w)
        keys     == [r \in DOMAIN matched |-> catalog.symptoms[matched[r]].key]
        causes   == [r \in DOMAIN matched |-> [causes |-> CausesFor(keys[r])]]
    IN  reply' = {[focus |-> place, symptoms |-> ToSet(keys),
                   evidence |-> evidence,
                   hypotheses |-> RankHypotheses(causes, evidence),
                   timeline |-> buildTimeline(place),
                   tier |-> TierFor(ScoreConfidence(confidenceRules(place), evidence))]}

Converse ==
    /\ reply = {}
    /\ \E q \in Questions, place \in Focuses, w \in Worlds : Turn(<<q>>, place, w)
    /\ UNCHANGED <<live, drift, snapshot, ledger>>

\* The pod in `shop` recovers, is killed, or is gone.  Its events may be seen for a while.
\* (Bound: the turns that it takes.)
Outcomes == {Calm, Gone, Killed}

Drift ==
    /\ drift < MaxDrift /\ reply = {} /\ snapshot # NoSnapshot
    /\ drift' = drift + 1
    /\ \E s \in Outcomes, old \in BOOLEAN :
           LET k == Place("shop", PodName) IN
           live' = [live EXCEPT ![k] =
                       [s EXCEPT !.events = @ \cup IF old THEN live[k].events ELSE {}]]
    /\ UNCHANGED <<snapshot, ledger, reply>>

\* (Bound: the other namespace is well, or its DNS is down and nothing is recorded.)
Init ==
    /\ \E s \in Situations, t \in Situations :
           /\ ledger \in IF t = Calm THEN Ledgers ELSE {{}}
           /\ t = Calm \/ t.coredns # "well"
           /\ live = [k \in Pods |-> IF k.ns = "shop" THEN s ELSE t]
    /\ drift = 0 /\ snapshot = NoSnapshot /\ reply = {}

Next == CollectSnapshot \/ Drift \/ Converse

Spec == Init /\ [][Next]_vars

---------------------------------------------------------------------------

TypeOK ==
    /\ DOMAIN live = Pods /\ drift \in 0..MaxDrift /\ ledger \in Ledgers
    /\ DOMAIN snapshot.pods \subseteq Pods
    /\ Cardinality(reply) <= 1

\* A change of what the pod is named for, recorded for its namespace, no more than seven
\* days ago.
OwnChange(place) ==
    \E c \in ledger : /\ c.ns = place.ns /\ IsPrefix(c.name, place.name)
                      /\ c.kind \in correlationKinds
                      /\ c.age \in 0..(7 * Day)

\* Nothing is known against the pod: it is well now and was so at the last collection, as
\* were the services of its namespace and DNS, nothing of it was changed, and no chat or
\* incident of it was about endpoints.  (Being well includes one ready endpoint: ten are
\* read as none, see gatherServiceChain.)
Untroubled(t) ==
    /\ live[t.focus] = Calm /\ t.focus \notin DOMAIN snapshot.pods
    /\ t.focus.ns \notin snapshot.services \cup snapshot.mismatches
    /\ snapshot.coredns = "well"
    /\ ~OwnChange(t.focus)
    /\ ~Matches(Saw("history", endpointRe), t.evidence)

\* High confidence takes one of four things: the pod's own status (by the last
\* collection), CoreDNS being unwell, a change of what the pod is named for in the last
\* seven days, or some evidence, of whatever kind, that fits the pattern for endpoints.
\* Other logs, metrics, pressure and configuration, of however many kinds together, are
\* not enough.  And it is never had about a pod that is well, whatever its namesake in
\* the other namespace suffers.  (confidence.go:32, with converse.go:248 and 268.)
ConfidenceIsEarned ==
    \A t \in reply : t.tier = "high" =>
        /\ \/ \E p \in findPod(t.focus) : p.reason \in terminalRsns
           \/ snapshot.coredns # "well"
           \/ OwnChange(t.focus)
           \/ Matches(Saw("any", endpointRe), t.evidence)
        /\ t.focus \in Pods => ~Untroubled(t)

\* What a reply takes for the symptom can be seen in its timeline: the status of the pod
\* or an event that names it.  (converse.go:380 and symptoms.go:85.)
SymptomIsInTheTimeline ==
    \A t \in reply : \A key \in t.symptoms :
        \/ t.timeline.state # {}
        \/ \E e \in t.timeline.events : Words[key] \cap e.text # {}
=============================================================================
