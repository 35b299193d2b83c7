------------------------------- MODULE Eventlog -------------------------------
(***************************************************************************)
(* plugins/eventlog: exports of Windows event logs.                        *)
(***************************************************************************)
EXTENDS LogEngine

svcCrashRe   == {"service terminated", "the x service"}
authFailRe   == {"4625", "4740", "logon failure"}
updateRe     == {"update failed", "0x8"}
rebootRe     == {"unexpected shutdown", "6008", "kernel-power"}
explicitIDRe == {"7031", "7034", "6008", "4625", "bugcheck"}

crashIDs == {"7031", "7034", "7000", "7009"}

\* A record: Id, Level (0 in the Security log), LevelDisplayName, provider, host,
\* message, and the service of one word that the message names.  An export in another
\* language, or without messages, has only the rest.
Record(number, level, display, provider, host, text, service) ==
    [kind |-> "record", id |-> number, level |-> level, display |-> display,
     provider |-> provider, host |-> host, text |-> text, service |-> service]
Broken == [kind |-> "broken", level |-> 1]

SCM == <<"service control manager">>

Lines == {
    Record("7034", 2, "error", SCM, "dc01",
           {"service terminated", "the x service", "terminated"}, "Spooler"),
    Record("7036", 4, "information", SCM, "dc01", {"the x service"}, "Dnscache"),
    Record("7031", 2, "", SCM, "web01", {}, ""),
    Record("4625", 0, "information", <<"security-auditing">>, "dc01", {}, ""),
    Record("4740", 0, "", <<"security-auditing">>, "dc01", {"locked"}, ""),
    Record("20", 2, "error", <<"windowsupdateclient">>, "web01",
           {"update", "update failed", "0x8"}, ""),
    Record("6008", 2, "error", <<"eventlog">>, "web01", {"unexpected shutdown"}, ""),
    Record("41", 1, "critical", <<"kernel-power">>, "web01", {"kernel-power"}, ""),
    Record("55", 2, "error", <<"ntfs">>, "web01", {"corrupt"}, ""),
    Record("1000", 2, "error", <<"application error">>, "web01", {}, ""),
    Broken}

\* The name of the level, or else the level's; informational if neither says more.
severityOf(l) ==
    IF l.display # "" THEN l.display
    ELSE CASE l.level = 1 -> "critical" [] l.level = 2 -> "error" [] l.level = 3 -> "warning"
           [] OTHER -> "information"

\* "EventID=...", the provider and the first line of the message.
recordToEvent(l) ==
    IF l.kind = "broken" THEN NoEvent
    ELSE Event(TRUE, severityOf(l), l.host, l.provider, l.id, l.text,
               l.text \cup {l.id}, l.service)

\* parseEvents: the export is read by the model without what has a level above warning;
\* an export that cannot be decoded is read as it is.
parseEvents(l) == l.level <= 3

symptoms == <<
    Symptom("service-crash", svcCrashRe, crashIDs, 1, <<
        Cause("service: crash", 55, {Matcher("any", {"7031", "7034", "terminated"}, 20)}),
        Cause("service: update", 40, {Matcher("any", {"update", "install"}, 15)})>>, TRUE),
    Symptom("auth-failure", authFailRe, {}, 1, <<    \* or three of 4625, which is in it
        Cause("auth: brute force", 55, {Matcher("any", {"4625"}, 20)}),
        Cause("auth: expired", 40, {Matcher("any", {"4740", "locked"}, 20)})>>, FALSE),
    Symptom("update-failure", updateRe, {}, 1, <<
        Cause("update: disk", 50, {Matcher("any", {"0x8", "disk"}, 20)}),
        Cause("update: conflict", 35, {})>>, FALSE),
    Symptom("unexpected-reboot", rebootRe, {"6008", "41"}, 1, <<
        Cause("reboot: power", 45, {Matcher("any", {"kernel-power", "6008"}, 20)}),
        Cause("reboot: bugcheck", 40, {Matcher("any", {"1001", "bugcheck"}, 25)})>>, FALSE),
    Symptom("disk-error", {}, {"7", "51", "55", "98"}, 1, <<
        Cause("disk: failing", 55, {Matcher("any", {"7", "51", "55", "bad block"}, 20)}),
        Cause("disk: corrupt", 40, {Matcher("any", {"55", "corrupt"}, 20)})>>, FALSE),
    Symptom("unknown-events", {}, {"critical", "error"}, 1, <<
        Cause("unknown: change", 40, {}), Cause("unknown: transient", 30, {})>>, FALSE)>>

collectors == CommonCollectors
    @@ "corpus-svc" :> Searches(svcCrashRe) @@ "corpus-auth" :> Searches(authFailRe)
    @@ "corpus-update" :> Searches(updateRe) @@ "corpus-reboot" :> Searches(rebootRe)
    @@ "svc-failed" :> Diag({}, {"terminated"}) @@ "svc-status" :> Diag({}, {})
    @@ "sys-disk" :> Diag({"disk"}, {"disk"}) @@ "sys-memory" :> Diag({}, {})
    @@ "sys-uptime" :> Diag({}, {}) @@ "login-history" :> Diag({}, {"4625"})
    @@ "scheduled-tasks" :> Diag({}, {"update"}) @@ "firewall-state" :> Diag({}, {})

rules == <<
    Rule(90, {{Saw("log", explicitIDRe)}}), Rule(70, {{Saw("any", {"diag/"})}}),
    Rule(60, {{Saw("log", AnyText)}}), Rule(30, {{Saw("any", AnyText)}})>>

\* Both parsers read every chunk; the session gets what the second makes of it.
summarize ==
    [lines |-> Lines, session |-> [l \in Lines |-> recordToEvent(l)],
     read |-> [l \in Lines |-> IF parseEvents(l) THEN {"events"} ELSE {}],
     caps |-> [events |-> Unlimited]]

buildStats(e) == e # NoEvent /\ e.dated

renderEventLogStats == Statistics({}, {"code", "unit"})

\* Of the error class, the first ones; the rank decides nothing.
eventlogTimeline == Choice([s \in {"critical", "error"} |-> 1], 1, "first")

eventlogBaseline == {"corpus"}

eventlogProfile ==
    summarize @@ [symptoms |-> symptoms, collectors |-> collectors, rules |-> rules,
              baseline |-> eventlogBaseline, stats |-> renderEventLogStats, timeline |-> eventlogTimeline,
              charted |-> [l \in Lines |-> buildStats(recordToEvent(l))]]
=============================================================================
