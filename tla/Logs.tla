--------------------------------- MODULE Logs ---------------------------------
(***************************************************************************)
(* plugins/logs: logs of any application.  The model reads the whole input. *)
(***************************************************************************)
EXTENDS LogEngine

errorSearchRe   == {"error", "exception", "panic", "fatal", "fail"}
timeoutSearchRe == {"timeout", "deadline exceeded"}
exceptionRe     == {"exception", "panic"}

\* A line: the first severity it names, if it names one, its time and its text.
Line(token, dated, text) == [token |-> token, dated |-> dated, text |-> text]

Lines == {
    Line("ERROR", TRUE, {"error", "exception"}), Line("ERROR", TRUE, {"error", "timeout"}),
    Line("PANIC", TRUE, {"panic"}), Line("WARNING", TRUE, {"deadline exceeded"}),
    Line("", FALSE, {"exception"}), Line("INFO", TRUE, {}),
    Line("blank", FALSE, {})}

severityToken(l) ==
    CASE l.token = "ERROR"   -> "error"
      [] l.token = "PANIC"   -> "panic"
      [] l.token = "WARNING" -> "warn"
      [] OTHER               -> "info"

\* No unit, scope or code.
parseEvents(l) ==
    IF l.token = "blank" THEN NoEvent
    ELSE Event(l.dated, severityToken(l), "", <<>>, "", l.text, l.text, "")

\* isErrorClassSeverity: other than the shared isErrorClass, with panic.
isErrorClassSeverity == {"error", "fatal", "panic"}

symptoms == <<
    Symptom("error-burst", {}, isErrorClassSeverity, 5, <<
        Cause("burst: fault", 45, {Matcher("log", {"error", "exception"}, 15)}),
        Cause("burst: change", 40, {Matcher("history", {"change"}, 20)})>>, FALSE),
    Symptom("exception-cluster", exceptionRe, {}, 3, <<
        Cause("exception: unhandled", 50, {Matcher("log", {"exception", "panic"}, 20)})>>,
        FALSE),
    Symptom("timeout-cluster", timeoutSearchRe, {}, 3, <<
        Cause("timeout: dependency", 50,
              {Matcher("log", {"timeout", "deadline exceeded"}, 20)}),
        Cause("timeout: starvation", 35, {})>>, FALSE),
    Symptom("log-anomaly", {}, {}, 0, <<Cause("log: anomaly", 30, {})>>, FALSE)>>

collectors == CommonCollectors
    @@ "corpus-errors" :> Searches(errorSearchRe)
    @@ "corpus-timeouts" :> Searches(timeoutSearchRe)

rules == <<
    Rule(70, {{Saw("log", errorSearchRe), Saw("metric", AnyText)}}),
    Rule(60, {{Saw("log", AnyText)}}), Rule(30, {{Saw("any", AnyText)}})>>

\* The model reads the chunks as they are; the session has events of them.
summarize ==
    [lines |-> Lines, session |-> [l \in Lines |-> parseEvents(l)],
     read |-> [l \in Lines |-> {"input"}], caps |-> [input |-> Unlimited]]

errorRank == [panic |-> 3, fatal |-> 2, error |-> 1]

buildStats(e) == e # NoEvent /\ e.dated /\ e.severity \in DOMAIN errorRank

renderLogsStats == Statistics({}, {"severity"})

\* Of the error class, the last ones; the rank decides nothing.
logsTimeline == Choice(errorRank, 1, "last")

logsBaseline == {"corpus"}

logsProfile ==
    summarize @@ [symptoms |-> symptoms, collectors |-> collectors, rules |-> rules,
              baseline |-> logsBaseline, stats |-> renderLogsStats, timeline |-> logsTimeline,
              charted |-> [l \in Lines |-> buildStats(parseEvents(l))]]
=============================================================================
