------------------------------- MODULE Syslog --------------------------------
(***************************************************************************)
(* plugins/syslog: what the analyzer keeps of a line for the investigation *)
(* and what it shows the model, and the tables of its profile.  The checks *)
(* of the symptoms are in Catalogs.                                        *)
(***************************************************************************)
EXTENDS LogEngine

reAuthFail   == {"failed password", "authentication failure", "invalid user"}
reOOM        == {"out of memory", "oom-killer", "killed process"}
reDiskErr    == {"no space left", "ext4-fs error", "i/o error"}
reKernelErr  == {"kernel: fault"}
reSvcFailure == {"failed to start", "entered failed state", "main process exited"}

\* A line: its format, PRI or PRIORITY, tag with or without "[pid]", host, message,
\* and the unit the message names.
Line(format, pri, tag, host, text, names) ==
    [format |-> format, pri |-> pri, tag |-> tag, host |-> host, text |-> text,
     names |-> names, dated |-> format # "rfc5424"]

\* journalctl -o json, RFC 5424 (here without a timestamp), RFC 3164 with and
\* without PRI, and a line of something else.
Lines == {
    Line("journald", 3, <<"init.scope">>, "web-01", {"failed to start"}, "nginx.service"),
    Line("journald", 6, <<"nginx.service">>, "web-01", {"main process exited"}, ""),
    Line("journald", 4, <<"nginx.service">>, "web-01", {}, ""),
    Line("rfc3164", 3, <<"kernel">>, "web-01", {"out of memory", "killed process"}, ""),
    Line("rfc3164", 0, <<"kernel">>, "db-01", {"kernel panic", "fault"}, ""),
    Line("rfc3164", 86, <<"sshd", "42">>, "db-01", {"failed password", "invalid user"}, ""),
    Line("rfc5424", 27, <<"postgres">>, "db-01", {"no space left"}, ""),
    Line("bsd", 6, <<"kernel">>, "db-01", {"i/o error"}, ""),
    Line("other", 0, <<>>, "", {}, "")}

\* parseLine and parseJournalctl: the low bits of PRI; without it, informational.
prioOf(l) == IF l.format = "bsd" THEN 6 ELSE l.pri % 8

sevName(p) == <<"emerg", "alert", "crit", "err", "warn", "notice", "info", "debug">>[p + 1]

unitFromTag(tag) == <<tag[1]>>

\* "kernel:" is in the raw line only where the tag stands before its colon.
Raw(l) ==
    IF l.format \in {"rfc3164", "bsd"} /\ l.tag[1] = "kernel" /\ "fault" \in l.text
    THEN l.text \cup {"kernel: fault"} ELSE l.text

\* failedUnitFromCorpus: the unit the line names, or else its own.
failedUnit(l) == IF l.names # "" THEN l.names ELSE l.tag[1]

parseEvents(l) ==
    IF l.format = "other" THEN NoEvent
    ELSE Event(l.dated, sevName(prioOf(l)), l.host, unitFromTag(l.tag), "", l.text,
               Raw(l), failedUnit(l))

\* parseSyslog: what the model reads has priority 4 (warning) at most.
parseSyslog(l) == l.format # "other" /\ prioOf(l) <= 4

symptoms == <<
    Symptom("oom-kill", reOOM, {}, 1, <<
        Cause("oom: leak or limit", 65, {Matcher("log", {"oom-killer", "killed process"}, 20)}),
        Cause("oom: spike", 40, {Matcher("metric", {"busiest"}, 10)}),
        Cause("oom: host too small", 30, {})>>, FALSE),
    Symptom("disk-full", reDiskErr, {}, 1, <<
        Cause("disk: full", 65, {Matcher("any", {"no space left"}, 25)}),
        Cause("disk: failing", 35, {Matcher("any", {"i/o error"}, 25)})>>, FALSE),
    Symptom("service-failure", reSvcFailure, {}, 1, <<
        Cause("service: crash or config", 55,
              {Matcher("log", {"failed to start", "main process exited"}, 20)}),
        Cause("service: dependency", 35, {}),
        Cause("service: resources", 30,
              {Matcher("any", {"oom", "oom-killer", "out of memory", "memory"}, 20)})>>, TRUE),
    Symptom("auth-failure", reAuthFail, {}, 3, <<
        Cause("auth: brute force", 55,
              {Matcher("any", {"invalid user", "failed password"}, 20)}),
        Cause("auth: stale credential", 40, {})>>, FALSE),
    Symptom("kernel-issue", reKernelErr, {}, 1, <<
        Cause("kernel: driver", 55, {}), Cause("kernel: hardware", 35, {})>>, FALSE),
    Symptom("unknown-degraded", {}, {"emerg", "alert", "crit", "err"}, 1, <<
        Cause("unknown: recent change", 40, {Matcher("history", {"change"}, 15)}),
        Cause("unknown: environment", 30, {})>>, FALSE)>>

collectors == CommonCollectors
    @@ "corpus-auth" :> Searches(reAuthFail) @@ "corpus-oom" :> Searches(reOOM)
    @@ "corpus-disk" :> Searches(reDiskErr) @@ "corpus-kernel" :> Searches(reKernelErr)
    @@ "sys-disk" :> Diag({}, {"9x%", "filesystem full"})
    @@ "sys-memory" :> Diag({"memory"}, {"9x%"})
    @@ "svc-failed" :> Diag({}, {}) @@ "svc-status" :> Diag({}, {"memory"})
    @@ "journal-unit" :> Diag({}, {"oom-killer"}) @@ "kernel-ring" :> Diag({}, {"i/o error"})
    @@ "auth-log" :> Diag({}, {"invalid user"}) @@ "login-history" :> Diag({}, {})

rules == <<
    Rule(95, {{Saw("log", {"oom-killer", "killed process", "kernel panic"})}}),
    Rule(85, {{Saw("log", {"failed to start", "entered failed state"}), Saw("metric", AnyText)}}),
    Rule(70, {{Saw("metric", {"9x%", "no space left", "filesystem full"})},
              {Saw("any", {"diag/"})}}),
    Rule(60, {{Saw("log", AnyText)}}), Rule(30, {{Saw("any", AnyText)}})>>

\* Both parsers read every chunk; the session gets what the second makes of it.
analyze ==
    [lines |-> Lines, session |-> [l \in Lines |-> parseEvents(l)],
     read |-> [l \in Lines |-> IF parseSyslog(l) THEN {"events"} ELSE {}],
     caps |-> [events |-> Unlimited]]

\* "OOM events: ..." is what a pattern would find in the statistics.
severeRank == [emerg |-> 5, alert |-> 4, crit |-> 3, err |-> 2, warn |-> 1]

\* Which events the chart of the session counts by the minute.
buildStats(e) == e # NoEvent /\ e.dated /\ e.severity \in DOMAIN severeRank

\* "OOM events: ..." is what a pattern would find in the statistics.
renderSyslogStats == Statistics({"oom"}, {"unit"})

\* From err on.
buildSyslogTimeline == Choice(severeRank, 2, "worst")

syslogBaseline == {"corpus"}

syslogProfile ==
    analyze @@ [symptoms |-> symptoms, collectors |-> collectors, rules |-> rules,
              baseline |-> syslogBaseline, stats |-> renderSyslogStats, timeline |-> buildSyslogTimeline,
              charted |-> [l \in Lines |-> buildStats(parseEvents(l))]]
=============================================================================
