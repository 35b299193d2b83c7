----------------------------- MODULE Deployments -----------------------------
(***************************************************************************)
(* What DORA counts as deployments (plugins/dora/store.go, sqlite_store.go *)
(* and dora.go) and who records them: `exalm dora log-deploy` commands and *)
(* the Terraform Cloud webhook (internal/webhook/webhook.go), which also   *)
(* keeps a log of its own.  A notification is sent again while it was not  *)
(* answered with success; its answer can be lost.                          *)
(***************************************************************************)
EXTENDS Integers, FiniteSets, SequencesExt

CONSTANTS Commands,      \* log-deploy commands, each a process of its own
          TfRuns,        \* Terraform runs that Terraform Cloud notifies of
          MaxSecond,     \* bound: seconds that pass
          MaxDeliveries  \* bound: times one notification is delivered

Deliveries == TfRuns \X (1..MaxDeliveries)

\* What the constants are: a command is no Terraform run, and no delivery of one.
DeploymentsAssumption ==
    /\ MaxSecond \in Nat \ {0} /\ MaxDeliveries \in Nat
    /\ Commands \cap TfRuns = {} /\ Commands \cap Deliveries = {}

\* DeploymentEvent.ID: newDeploymentID's second and counter, which is 1 in a
\* process that logs one deployment.  The webhook leaves the id empty.
NoId == <<0, 0>>
Ids  == ((1..MaxSecond) \X {1}) \cup {NoId}

\* A deployment: its id, its origin (which stands for service, version and
\* author), whether it succeeded, and when.
DeploymentEvents == [id : Ids, of : Commands \cup TfRuns, success : BOOLEAN,
                     at : 1..MaxSecond]
NoDeployment == [of |-> "none"]

VARIABLES
    backend,    \* "db" or "file": deployDB is set or nil
    lines,      \* deployments.jsonl
    rows,       \* the deployments table: id -> deployment or NoDeployment
    events,     \* tf-events.jsonl: how many lines each Terraform run has
    now,        \* the second
    pc,         \* where each command and each delivery of a notification is
    payload,    \* what a notification says of its run: success and time
    delivered   \* how often each notification was delivered

\* Kept for the properties only.
VARIABLES
    recorded,   \* deployments whose append returned no error
    accepted    \* how often each notification was answered "accepted"

store == <<backend, lines, rows>>
vars  == <<store, events, now, pc, payload, delivered, recorded, accepted>>

Init ==
    /\ backend \in {"db", "file"}
    /\ lines = <<>>
    /\ rows = [i \in Ids |-> NoDeployment]
    /\ events = [t \in TfRuns |-> 0]
    /\ now = 1
    /\ pc = [a \in Commands \cup Deliveries |-> "idle"]
    /\ payload \in [TfRuns -> [success : BOOLEAN, at : {1}]]
    /\ delivered = [t \in TfRuns |-> 0]
    /\ recorded = {}
    /\ accepted = [t \in TfRuns |-> 0]

Step(a, from, to) == pc[a] = from /\ pc' = [pc EXCEPT ![a] = to]

---------------------------------------------------------------------------
(* Recording and loading.                                                  *)

\* One line, or one INSERT OR IGNORE, which reports no error when the id is
\* there already.
appendDeployment(d) ==
    /\ lines' = IF backend = "file" THEN Append(lines, d) ELSE lines
    /\ rows' = [rows EXCEPT ![d.id] = IF backend = "db" /\ @ = NoDeployment THEN d ELSE @]
    /\ recorded' = recorded \cup {d}
    /\ UNCHANGED backend

loadDeployments == IF backend = "db" THEN Range(rows) \ {NoDeployment} ELSE ToSet(lines)

---------------------------------------------------------------------------
(* exalm dora log-deploy                                                   *)

newDeploymentID == <<now, 1>>

logDeploy(c) ==
    /\ Step(c, "idle", "done")
    /\ \E success \in BOOLEAN :
           appendDeployment([id |-> newDeploymentID, of |-> c, success |-> success,
                             at |-> now])
    /\ UNCHANGED <<events, now, payload, delivered, accepted>>

---------------------------------------------------------------------------
(* The webhook                                                             *)

\* The sender delivers again as long as no answer told it that it was accepted,
\* and does not wait for the handler of an earlier delivery to return.
Deliver(d) ==
    /\ d[2] = delivered[d[1]] + 1 /\ accepted[d[1]] = 0
    /\ Step(d, "idle", "received")
    /\ delivered' = [delivered EXCEPT ![d[1]] = @ + 1]
    /\ UNCHANGED <<store, events, now, payload, recorded, accepted>>

\* Not a POST, too large, not signed, no JSON, or nothing to act on; or the event
\* cannot be written (500).  Either way nothing is on record.
Refuse(d) ==
    /\ Step(d, "received", "gone")
    /\ UNCHANGED <<store, events, now, payload, delivered, recorded, accepted>>

appendEvent(d) ==
    /\ Step(d, "received", "event")
    /\ events' = [events EXCEPT ![d[1]] = @ + 1]
    /\ UNCHANGED <<store, now, payload, delivered, recorded, accepted>>

\* Mutant of appendDORA: the deployment is recorded first, and answered for alone.
DORAFirst(d) ==
    /\ Step(d, "received", "answer")
    /\ appendDeployment([id |-> NoId, of |-> d[1], success |-> payload[d[1]].success,
                         at |-> payload[d[1]].at])
    /\ UNCHANGED <<events, now, payload, delivered, accepted>>

\* No id is set.
appendDORA(d) ==
    /\ Step(d, "event", "answer")
    /\ appendDeployment([id |-> NoId, of |-> d[1], success |-> payload[d[1]].success,
                         at |-> payload[d[1]].at])
    /\ UNCHANGED <<events, now, payload, delivered, accepted>>

\* "DORA store failure should not reject the webhook delivery."
DORAFails(d) ==
    /\ Step(d, "event", "answer")
    /\ UNCHANGED <<store, events, now, payload, delivered, recorded, accepted>>

\* "accepted", and the sender hears of it.
Accept(d) ==
    /\ Step(d, "answer", "gone")
    /\ accepted' = [accepted EXCEPT ![d[1]] = @ + 1]
    /\ UNCHANGED <<store, events, now, payload, delivered, recorded>>

\* The answer is lost, or the process is killed before it.
Lost(d) ==
    /\ pc[d] \in {"received", "event", "answer"}
    /\ Step(d, pc[d], "gone")
    /\ UNCHANGED <<store, events, now, payload, delivered, recorded, accepted>>

Tick ==
    /\ now < MaxSecond
    /\ now' = now + 1
    /\ UNCHANGED <<store, events, pc, payload, delivered, recorded, accepted>>

Handle(d) ==
    \/ Deliver(d) \/ Refuse(d) \/ appendEvent(d) \/ appendDORA(d) \/ DORAFails(d)
    \/ Accept(d) \/ Lost(d)

Next ==
    \/ \E c \in Commands : logDeploy(c)
    \/ \E d \in Deliveries : Handle(d)
    \/ Tick

Spec == Init /\ [][Next]_vars

---------------------------------------------------------------------------

TypeOK ==
    /\ backend \in {"db", "file"}
    /\ ToSet(lines) \subseteq DeploymentEvents
    /\ rows \in [Ids -> DeploymentEvents \cup {NoDeployment}]
    /\ events \in [TfRuns -> 0..MaxDeliveries]
    /\ now \in 1..MaxSecond
    /\ pc \in [Commands \cup Deliveries ->
                  {"idle", "done", "received", "event", "answer", "gone"}]
    /\ payload \in [TfRuns -> [success : BOOLEAN, at : 1..MaxSecond]]
    /\ delivered \in [TfRuns -> 0..MaxDeliveries]
    /\ recorded \subseteq DeploymentEvents

\* A notification that was answered "accepted" is in the log, once for every
\* delivery that got so far and never more often, and the file never counts a
\* deployment of it that the log does not have: the event is written first, and
\* alone decides the answer (webhook.go:103-117).
AcceptedIsLogged ==
    \A t \in TfRuns :
        /\ accepted[t] <= events[t] /\ events[t] <= delivered[t]
        /\ Cardinality({k \in DOMAIN lines : lines[k].of = t}) <= events[t]

\* Every deployment whose append returned no error counts.  store.go:46 calls the
\* ids unique, and the webhook's header (webhook.go:6) says that Terraform
\* applies "count toward DORA Deployment Frequency automatically".
RecordedIsCounted == recorded \subseteq loadDeployments
=============================================================================
