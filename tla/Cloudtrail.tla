------------------------------ MODULE Cloudtrail ------------------------------
(***************************************************************************)
(* plugins/cloudtrail: events of AWS CloudTrail, one JSON document a line. *)
(***************************************************************************)
EXTENDS LogEngine

reRoot         == {"type: Root"}
reAccessDenied == {"errorCode: AccessDenied"}
reLoginFail    == {"ConsoleLogin failure"}
reDeletion     == {"eventName: Delete"}
rePrivEsc      == {"eventName: PutUserPolicy"}

\* An event: who called what, with which error, in which region, and whether the answer
\* speaks of a failure.
Call(type, name, error, region, failed) ==
    [kind |-> "call", type |-> type, name |-> name, error |-> error, region |-> region,
     failed |-> failed]
Malformed == [kind |-> "malformed"]

Lines == {
    Call("Root", "ConsoleLogin", "", "us-east-1", FALSE),
    Call("IAMUser", "ConsoleLogin", "", "us-east-1", TRUE),
    Call("IAMUser", "GetObject", "AccessDenied", "eu-west-1", FALSE),
    Call("IAMUser", "RunInstances", "ThrottlingException", "eu-west-1", FALSE),
    Call("IAMUser", "DeleteBucket", "", "eu-west-1", FALSE),
    Call("AssumedRole", "PutUserPolicy", "", "us-east-1", FALSE),
    Call("AssumedRole", "DescribeInstances", "", "us-east-1", FALSE),
    Malformed}

isRoot(l)   == l.type = "Root"
deletion(l) == l.name = "DeleteBucket"
privEsc(l)  == l.name = "PutUserPolicy"

severityFor(l) ==
    IF isRoot(l) THEN "crit"
    ELSE IF l.error # "" THEN "err"
    ELSE IF deletion(l) \/ privEsc(l) THEN "warn" ELSE "info"

Raw(l) ==
    (IF isRoot(l) THEN reRoot ELSE {})
    \cup (IF l.error # "" THEN {"errorCode"} ELSE {})
    \cup (IF l.error = "AccessDenied" THEN reAccessDenied ELSE {})
    \cup (IF l.name = "ConsoleLogin" /\ l.failed THEN reLoginFail ELSE {})
    \cup (IF deletion(l) THEN reDeletion ELSE {}) \cup (IF privEsc(l) THEN rePrivEsc ELSE {})

parseEvents(l) ==
    IF l.kind = "malformed" THEN NoEvent
    ELSE Event(TRUE, severityFor(l), l.region, <<l.name>>, l.error, {}, Raw(l), "")

\* Mutant of notable: a denial is a routine call.
NotableCall(l) == isRoot(l) \/ l.name = "ConsoleLogin" \/ deletion(l) \/ privEsc(l)

notable(l) ==
    isRoot(l) \/ l.error # "" \/ l.name = "ConsoleLogin" \/ deletion(l) \/ privEsc(l)

parseCloudTrail(l) == l.kind = "call" /\ notable(l)

symptoms == <<
    Symptom("root-account-usage", reRoot, {}, 1, <<
        Cause("root: direct use", 70, {Matcher("log", reRoot, 20)}),
        Cause("root: break-glass", 30, {})>>, FALSE),
    Symptom("access-denied-spike", reAccessDenied, {}, 3, <<
        Cause("denied: probing", 55, {Matcher("log", reAccessDenied, 20)}),
        Cause("denied: policy", 40, {})>>, FALSE),
    Symptom("console-login-failure", reLoginFail, {}, 1, <<
        Cause("login: brute force", 55, {Matcher("log", reLoginFail, 20)}),
        Cause("login: mistyped", 35, {})>>, FALSE),
    Symptom("resource-deletion", reDeletion, {}, 1, <<
        Cause("deletion: cleanup", 40, {}),
        Cause("deletion: accident", 45, {})>>, FALSE),    \* a matcher of weight 0
    Symptom("privilege-escalation", rePrivEsc, {}, 1, <<
        Cause("privilege: administration", 35, {}),
        Cause("privilege: escalation", 50, {Matcher("log", rePrivEsc, 20)})>>, FALSE),
    Symptom("unknown-activity", {}, {"crit", "err", "warn"}, 1, <<
        Cause("activity: normal", 25, {})>>, FALSE)>>

collectors == CommonCollectors
    @@ "corpus-root" :> Searches(reRoot) @@ "corpus-denied" :> Searches(reAccessDenied)
    @@ "corpus-login-fail" :> Searches(reLoginFail)
    @@ "corpus-deletion" :> Searches(reDeletion) @@ "corpus-privesc" :> Searches(rePrivEsc)

rules == <<
    Rule(95, {{Saw("log", reRoot)}}), Rule(85, {{Saw("log", {"errorCode"})}}),
    Rule(70, {{Saw("metric", AnyText)}}),
    Rule(60, {{Saw("log", AnyText)}}), Rule(30, {{Saw("any", AnyText)}})>>

\* Both parsers read every chunk; the session gets what the second makes of it.
analyze ==
    [lines |-> Lines, session |-> [l \in Lines |-> parseEvents(l)],
     read |-> [l \in Lines |-> IF parseCloudTrail(l) THEN {"events"} ELSE {}],
     caps |-> [events |-> Unlimited]]

buildStats(e) == e # NoEvent /\ e.dated

renderCloudTrailStats == Statistics({}, {"unit"})

severeRank == [crit |-> 3, err |-> 2, warn |-> 1]

buildCloudTrailTimeline == Choice(severeRank, 1, "worst")

cloudtrailBaseline == {"corpus"}

cloudtrailProfile ==
    analyze @@ [symptoms |-> symptoms, collectors |-> collectors, rules |-> rules,
              baseline |-> cloudtrailBaseline, stats |-> renderCloudTrailStats, timeline |-> buildCloudTrailTimeline,
              charted |-> [l \in Lines |-> buildStats(parseEvents(l))]]
=============================================================================
