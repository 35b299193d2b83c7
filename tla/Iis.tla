--------------------------------- MODULE Iis ---------------------------------
(***************************************************************************)
(* plugins/iis: W3C logs of IIS.                                           *)
(***************************************************************************)
EXTENDS LogEngine

slowEventRe == {"(dddd ms)"}
iis5xxRe    == {"5dd"}
iis503Re    == {"503"}

\* A request: whether its part of the input has a #Fields line, its site, the segments
\* of its path, its status and the milliseconds it took.
Request(headed, site, segments, code, ms) ==
    [headed |-> headed, site |-> site, segments |-> segments, status |-> code, ms |-> ms]

Lines == {
    Request(TRUE, "shop", <<"cart", "pay">>, "503", 20),
    Request(TRUE, "W3SVC2", <<"api">>, "503", 20),
    Request(TRUE, "shop", <<"cart">>, "500", 9000),
    Request(TRUE, "shop", <<"report">>, "200", 2000),
    Request(TRUE, "intranet", <<"hr">>, "401", 10),
    Request(TRUE, "", <<"">>, "200", 10),
    Request(FALSE, "shop", <<"cart">>, "503", 20)}

statusClass(code) ==
    CASE code \in {"500", "502", "503", "504"} -> "5xx"
      [] code \in {"400", "401", "403", "404"} -> "4xx"
      [] OTHER                                 -> "2xx"

firstPathSegment(segments) == <<"", segments[1]>>

\* poolCandidateFromCorpus: the site of a 503, if an application pool may be called so.
poolCandidate(l) ==
    IF l.status = "503" /\ l.site \notin {"", "W3SVC2"} THEN l.site ELSE ""

Message(l) ==
    (IF statusClass(l.status) = "5xx" THEN {"5dd"} ELSE {}) \cup {l.status}
        \cup (IF l.ms >= 1000 THEN {"(dddd ms)"} ELSE {})

\* The raw line has "503" and " 503 ", and its time without a unit.
Raw(l) == Message(l) \ {"(dddd ms)"}

\* Without a #Fields line the columns have no names, and the line is skipped.
parseEvents(l) ==
    IF l.headed THEN Event(TRUE, statusClass(l.status), l.site, firstPathSegment(l.segments),
                           l.status, Message(l), Raw(l), poolCandidate(l))
    ELSE NoEvent

slowMs  == 5000
maxSlow == 10
maxErr  == 15

\* parseW3C: samples of failed and of slow requests; the rest is only counted.
parseW3C(l) ==
    IF ~l.headed THEN {}
    ELSE (IF statusClass(l.status) = "5xx" THEN {"errorLines"} ELSE {})
             \cup (IF l.ms >= slowMs THEN {"slowReqs"} ELSE {})

symptoms == <<
    Symptom("pool-failure", {}, {"503"}, 3, <<
        Cause("pool: stopped", 55, {Matcher("any", iis503Re, 20)}),
        Cause("pool: identity", 40, {}),
        Cause("pool: memory", 30, {Matcher("any", {"memory", "9x%"}, 20)})>>, TRUE),
    Symptom("burst-5xx", {}, {"5xx"}, 3, <<
        Cause("5xx: site code", 50, {Matcher("any", {"500"}, 15)}),
        Cause("5xx: backend", 40, {}),
        Cause("5xx: deployment", 35, {Matcher("history", {"change"}, 20)})>>, FALSE),
    Symptom("slow-requests", slowEventRe, {}, 3, <<
        Cause("slow: downstream", 50, {}),
        Cause("slow: saturation", 35, {Matcher("any", {"9x%"}, 20)})>>, FALSE),
    Symptom("auth-4xx", {}, {"401", "403"}, 5, <<
        Cause("auth: misconfigured", 45, {Matcher("history", {"change"}, 20)}),
        Cause("auth: scanning", 40, {})>>, FALSE),
    Symptom("site-anomaly", {}, {}, 0, <<Cause("site: anomaly", 35, {})>>, FALSE)>>

collectors == CommonCollectors
    @@ "corpus-5xx" :> Searches(iis5xxRe) @@ "corpus-503" :> Searches(iis503Re)
    @@ "corpus-slow" :> Searches(slowEventRe)
    @@ "iis-apppools" :> Diag({"iis-apppools"}, {"503"})
    @@ "sys-memory" :> Diag({"memory"}, {"9x%"}) @@ "sys-disk" :> Diag({}, {"9x%"})
    @@ "svc-status" :> Diag({}, {})

rules == <<
    Rule(90, {{Saw("metric", {"iis-apppools"}), Saw("log", iis503Re)}}),
    Rule(75, {{Saw("history", {"change"})}}),
    Rule(60, {{Saw("log", AnyText)}}), Rule(30, {{Saw("any", AnyText)}})>>

\* Both parsers read every chunk; the session gets what the second makes of it.
analyze ==
    [lines |-> Lines, session |-> [l \in Lines |-> parseEvents(l)],
     read |-> [l \in Lines |-> parseW3C(l)],
     caps |-> [errorLines |-> maxErr, slowReqs |-> maxSlow]]

buildStats(e) == e # NoEvent /\ e.dated

renderIISStats == Statistics({}, {"code"})

\* Only 5xx among the severities that events of IIS have.
iisTimelineRank == [s \in {"5xx"} |-> 2]

iisTimeline == Choice(iisTimelineRank, 2, "worst")

iisBaseline == {"corpus"}

iisProfile ==
    analyze @@ [symptoms |-> symptoms, collectors |-> collectors, rules |-> rules,
              baseline |-> iisBaseline, stats |-> renderIISStats, timeline |-> iisTimeline,
              charted |-> [l \in Lines |-> buildStats(parseEvents(l))]]
=============================================================================
