------------------------------- MODULE Httplog -------------------------------
(***************************************************************************)
(* plugins/httplog: access and error logs of Apache and nginx.             *)
(***************************************************************************)
EXTENDS LogEngine

reUpstream   == {"upstream timed out", "connect() failed", "no live upstreams"}
reTLS        == {"ssl_do_handshake", "certificate"}
slowEventRe2 == {"(dddd ms)"}
re5xx        == {"5dd"}

\* A line of the access log: the segments of its path, status, milliseconds; or of an
\* error log: level and message.
Access(segments, code, ms) ==
    [log |-> "access", segments |-> segments, status |-> code, ms |-> ms]
Error(level, dated, text) ==
    [log |-> "error", level |-> level, dated |-> dated, text |-> text]
Unreadable == [log |-> "none"]

Lines == {
    Access(<<"api", "orders">>, "502", 900), Access(<<"api">>, "500", 6000),
    Access(<<"">>, "404", 20), Access(<<"shop">>, "200", 6000),
    Access(<<"shop">>, "200", 3000),
    Error("error", TRUE, {"upstream timed out", "timed out", "upstream"}),
    Error("error", TRUE, {"no live upstreams", "upstream"}),
    Error("warn", FALSE, {"ssl_do_handshake", "certificate"}),
    Error("crit", TRUE, {"worker"}), Unreadable}

statusClass(code) ==
    CASE code \in {"500", "502", "503", "504"} -> "5xx"
      [] code \in {"401", "403", "404"}        -> "4xx"
      [] OTHER                                 -> "2xx"

\* "/" and what is before the next slash.
firstPathSegment(segments) == <<"", segments[1]>>

Status(l)  == IF statusClass(l.status) = "5xx" THEN {"5dd", l.status} ELSE {}
Latency(l) == IF l.ms >= 1000 THEN {"(dddd ms)"} ELSE {}

\* The latency is in the message only: the raw line has seconds.
parseEvents(l) ==
    CASE l.log = "access" ->
           Event(TRUE, statusClass(l.status), "", firstPathSegment(l.segments), l.status,
                 Latency(l), Status(l), "")
      [] l.log = "error" -> Event(l.dated, l.level, "", <<>>, "", {}, l.text, "")
      [] OTHER -> NoEvent

\* parseHTTP: samples of error records and of failed requests in one list, slow
\* requests in another; the rest is only counted.
slowMs == 5000

parseHTTP(l) ==
    CASE l.log = "access" ->
           (IF statusClass(l.status) = "5xx" THEN {"samples"} ELSE {})
               \cup (IF l.ms >= slowMs THEN {"slow"} ELSE {})
      [] l.log = "error" -> {"samples"}
      [] OTHER -> {}

maxSamples == 12

symptoms == <<
    Symptom("burst-5xx", {}, {"5xx"}, 3, <<
        Cause("5xx: upstream", 55,
              {Matcher("log", {"upstream", "connect() failed", "502", "504"}, 25)}),
        Cause("5xx: deploy", 40, {Matcher("history", {"change"}, 20)}),
        Cause("5xx: resources", 30, {Matcher("any", {"worker", "memory"}, 15)})>>, FALSE),
    Symptom("latency-degradation", slowEventRe2, {}, 3, <<
        Cause("slow: backend", 50, {}),
        Cause("slow: host", 35, {Matcher("metric", {"9x%"}, 20)})>>, FALSE),
    Symptom("upstream-failure", reUpstream, {}, 1, <<
        Cause("upstream: down", 60, {Matcher("any", {"no live upstreams"}, 20)}),
        Cause("upstream: slow", 40, {Matcher("any", {"timed out"}, 20)})>>, FALSE),
    Symptom("tls-error", reTLS, {}, 1, <<
        Cause("tls: expired", 55, {Matcher("any", {"certificate"}, 20)}),
        Cause("tls: noise", 30, {})>>, FALSE),
    Symptom("client-4xx-spike", {}, {"4xx"}, 10, <<
        Cause("4xx: scanner", 50, {}),
        Cause("4xx: broken links", 35, {Matcher("history", {"change"}, 20)})>>, FALSE),
    Symptom("traffic-anomaly", {}, {}, 0, <<Cause("traffic: shifted", 35, {})>>, FALSE)>>

collectors == CommonCollectors
    @@ "corpus-5xx" :> Searches(re5xx) @@ "corpus-slow" :> Searches(slowEventRe2)
    @@ "corpus-tls" :> Searches(reTLS) @@ "corpus-upstream" :> Searches(reUpstream)
    @@ "http-error-log" :> Diag({}, {"timed out", "worker"}) @@ "svc-status" :> Diag({}, {})
    @@ "sys-memory" :> Diag({"memory"}, {"9x%"}) @@ "sys-disk" :> Diag({}, {"9x%"})
    @@ "cert-expiry" :> Diag({}, {"certificate"})

rules == <<
    Rule(90, {{Saw("log", {"upstream", "connect() failed"}), Saw("log", re5xx)}}),
    Rule(75, {{Saw("history", {"change"})}}),
    Rule(60, {{Saw("log", AnyText)}}),
    Rule(45, {{Saw("metric", AnyText)}}),    \* and no log line: the rule above is higher
    Rule(30, {{Saw("any", AnyText)}})>>

\* Both parsers read every chunk; the session gets what the second makes of it.
analyze ==
    [lines |-> Lines, session |-> [l \in Lines |-> parseEvents(l)],
     read |-> [l \in Lines |-> parseHTTP(l)],
     caps |-> [samples |-> maxSamples, slow |-> maxSamples]]

\* The chart counts requests: no records of the error log.
buildStats(e) == e # NoEvent /\ e.dated /\ e.code # ""

renderHTTPStats == Statistics({}, {"code"})

httplogTimelineRank == [s \in {"crit", "emerg", "alert"} |-> 3] @@ [s \in {"error", "5xx"} |-> 2]
                           @@ [s \in {"warn", "4xx"} |-> 1]

httplogTimeline == Choice(httplogTimelineRank, 1, "worst")

httplogBaseline == {"corpus"}

httplogProfile ==
    analyze @@ [symptoms |-> symptoms, collectors |-> collectors, rules |-> rules,
              baseline |-> httplogBaseline, stats |-> renderHTTPStats, timeline |-> httplogTimeline,
              charted |-> [l \in Lines |-> buildStats(parseEvents(l))]]
=============================================================================
