----------------------------- MODULE LogDiagnosis -----------------------------
(***************************************************************************)
(* What a log analyzer makes of an input, and what the chat about it rests *)
(* on: analyze or summarize of a plugin, and a turn of investigate.Engine  *)
(* (engine.go) with the analyzer's profile.                                *)
(*                                                                         *)
(* An analysis parses its input twice, once for the model that writes the  *)
(* report and once for the session, which findings and chat turns are made *)
(* of.  An analysis that fails publishes nothing and is left out; Converse *)
(* has the turns' interleavings and cache, LogSession the session's limits. *)
(***************************************************************************)
EXTENDS LogEngine

CONSTANTS Analyzers,     \* the profiles, by analyzer (modules Syslog, Httplog, ...)
          Profiles,      \* the catalogs, by analyzer (module Catalogs)
          MaxPlanSteps,  \* cap of a plan
          Times,         \* bound: how often a line is repeated
          MaxBursts      \* bound: different bursts of lines

VARIABLES
    logPlugin,   \* the analyzer
    input,     \* the bursts of lines it is given
    analyzed,  \* whether it has published an analysis
    indexed,   \* the session: the events of those bursts that are parsed into some
    shown,     \* which bursts each list of the report's text has lines of
    promoted,  \* the findings
    reply      \* what the reply of the last chat turn rests on; {} before

vars == <<logPlugin, input, analyzed, indexed, shown, promoted, reply>>

PLN == INSTANCE Planner WITH
           Load <- 0, MaxTurns <- 0, analyzer <- "", turns <- 0, holds <- {},
           intents <- <<>>, plan <- <<>>, suggestions <- <<>>

profile == Analyzers[logPlugin]
catalog == Profiles[logPlugin]

Init ==
    /\ logPlugin \in DOMAIN Analyzers
    /\ input = <<>> /\ analyzed = FALSE /\ indexed = <<>>
    /\ shown = [list \in DOMAIN profile.caps |-> {}]
    /\ promoted = {} /\ reply = {}

---------------------------------------------------------------------------
(* The analysis.                                                           *)

\* The host writes another burst.  (Bound: a second one is long.)
AddLines ==
    /\ ~analyzed /\ Len(input) < MaxBursts
    /\ \E l \in profile.lines, t \in Times :
           /\ input # <<>> => \A u \in Times : t >= u
           /\ input' = Append(input, [line |-> l, times |-> t])
    /\ UNCHANGED <<logPlugin, analyzed, indexed, shown, promoted, reply>>

Indexed ==
    LET parsed == SelectSeq(input, LAMBDA b : profile.session[b.line] # NoEvent) IN
    [i \in DOMAIN parsed |-> profile.session[parsed[i].line] @@ [times |-> parsed[i].times]]

Shown(list) ==
    FirstLines(input, {i \in DOMAIN input : list \in profile.read[input[i].line]},
               profile.caps[list])

\* Profile.MatchSymptoms: rows of the catalog.
Rows(corpus) ==
    PLN!MatchSymptoms(catalog, {r \in DOMAIN profile.symptoms :
                                   Occurs(profile.symptoms[r], corpus)})

FindingsFrom(corpus) ==
    {findingFromSymptom(profile.symptoms[r], corpus) : r \in ToSet(Rows(corpus))}

Analyze ==
    /\ ~analyzed /\ input # <<>>
    /\ analyzed' = TRUE
    /\ indexed' = Indexed
    /\ shown' = [list \in DOMAIN profile.caps |-> Shown(list)]
    /\ promoted' = FindingsFrom(indexed')
    /\ UNCHANGED <<logPlugin, input, reply>>

---------------------------------------------------------------------------
(* A turn of a chat about it.                                              *)

\* What surrounds a turn: what diagnostics on the host answer, what the stores remember,
\* and whether the session is of this process or was restored in a hub.
Worlds == {
    [answer |-> "off", past |-> "none", typed |-> TRUE],
    [answer |-> "telling", past |-> "none", typed |-> FALSE],
    [answer |-> "plain", past |-> "changed", typed |-> FALSE],
    [answer |-> "fails", past |-> "concluded", typed |-> TRUE],
    [answer |-> "telling", past |-> "closed incident", typed |-> TRUE]}

\* What the message mentions: nothing of the corpus (the focus stays empty), a unit of
\* it, or a scope; and the focus that follows.
Nothing == [unit |-> <<>>, focus |-> <<>>]
Mentions ==
    {Nothing}
    \cup {[unit |-> u, focus |-> FocusOnUnit(indexed, u, s)] :
              u \in UnitsOf(indexed),
              s \in IF ScopesOf(indexed) = {} THEN {""} ELSE ScopesOf(indexed)}
    \cup {[unit |-> <<>>, focus |-> FocusOnScope(s)] : s \in ScopesOf(indexed)}

\* The baseline collector has an item for every corpus that is not empty.
Baseline == IF indexed = <<>> THEN {} ELSE {Item("metric", profile.baseline)}

\* executePlan, without the cache.
Gather(plan, focus, world) ==
    Baseline \cup UNION {Collect(profile.collectors[c], indexed, world @@ [focus |-> focus],
                                 Rendered(indexed, profile.stats)) : c \in ToSet(plan)}

\* The first turn also asks whether it happened before.  (Bound: what is asked is no
\* question that a catalog has a check for, or the lines around the failure.)
Turn(intents, m, world) ==
    LET rows     == Rows(indexed)
        plan     == PLN!buildPlan(catalog, ToSet(rows), intents \o <<"history">>)
        evidence == Gather(plan, m.focus, world)
        score    == ScoreConfidence(profile.rules, evidence)
    IN  reply' = {[unit |-> m.unit, focus |-> m.focus, past |-> world.past,
                   plan |-> plan, evidence |-> evidence,
                   hypotheses |-> RankHypotheses([r \in DOMAIN rows |->
                                      profile.symptoms[rows[r]]], evidence),
                   timeline |-> Timeline(indexed, ParseFocus(m.focus).name,
                                         profile.timeline),
                   tier |-> TierFor(score)]}

Converse ==
    /\ analyzed /\ reply = {}
    /\ \/ \E m \in Mentions, world \in Worlds : Turn(<<"general">>, m, world)
       \/ \E world \in Worlds : Turn(<<"previous-logs">>, Nothing, world)
    /\ UNCHANGED <<logPlugin, input, analyzed, indexed, shown, promoted>>

Next == AddLines \/ Analyze \/ Converse

Spec == Init /\ [][Next]_vars

---------------------------------------------------------------------------

TypeOK ==
    /\ logPlugin \in DOMAIN Analyzers
    /\ Len(input) <= MaxBursts
    /\ \A i \in DOMAIN input : input[i].line \in profile.lines /\ input[i].times \in Times
    /\ \A r \in DOMAIN profile.symptoms : profile.symptoms[r].key = catalog.symptoms[r].key
    /\ \A list \in DOMAIN profile.caps : shown[list] \subseteq DOMAIN input
    /\ Cardinality(reply) <= 1

\* The two parsers of an input agree on what matters: every line that the session has as
\* one of the error class is among what the model reads, unless the list that it belongs
\* to is full.  (plugins/*/parser.go and session.go.)
ErrorsAreRead ==
    analyzed =>
        \A i \in DOMAIN input :
            profile.session[input[i].line] # NoEvent
            /\ isErrorClass(profile.session[input[i].line].severity)
            => \E list \in profile.read[input[i].line] :
                   \/ i \in shown[list]
                   \/ LinesAt(input, shown[list]) >= profile.caps[list]

\* A reply that is not focused shows the user a line of every symptom it is about, if
\* the first check of the symptom searches for what the symptom matched: neither the cap
\* on plans nor the other symptoms' lines crowd it out.  (logsession_collectors.go:40.)
SymptomShowsItsLines ==
    \A t \in reply :
        t.focus = <<>> =>
        \A r \in ToSet(Rows(indexed)) :
            LET s    == profile.symptoms[r]
                how  == profile.collectors[catalog.symptoms[r].checks[1][1]]
                hits == Having(indexed, s.pattern)
            IN  how.by = "search" /\ how.pattern = s.pattern /\ hits # {} =>
                    \E i \in hits : Item("log", indexed[i].raw) \in t.evidence

\* With one or two findings, the root cause that each of them names is weighed in every
\* chat about the input, whatever else was found out meanwhile: causes with little of their
\* own that diagnostics or a recorded change lift above it leave it a place among the four.
\* (findings.go:112 and hypotheses.go:20.  With three findings all causes of one may go.)
FindingIsDiscussed ==
    \A t \in reply :
        Cardinality(promoted) <= 2 =>
            {f.rootCause : f \in promoted} \subseteq ToSet(t.hypotheses)

\* High confidence rests on lines of this corpus, or on a past that speaks of a change:
\* never on live diagnostics or statistics alone.  (confidence.go:38 and the rules.)
ConfidenceIsEarned ==
    \A t \in reply :
        t.tier = "high" =>
        \E r \in DOMAIN profile.rules :
            /\ profile.rules[r].score >= 75
            /\ \E conj \in profile.rules[r].alternatives :
                   \A m \in conj :
                       /\ m.kind = "log" => Having(indexed, m.pattern) # {}
                       /\ m.kind = "history" => t.past \in {"changed", "concluded"}

\* A question that names a unit is answered from that unit's events, if its name can be
\* told from a scope: all but paths in a corpus without scopes.  (logsession.go:319 and
\* profile.go:98.)
UnitIsSeen ==
    \A t \in reply :
        Len(t.unit) = 1 \/ (Len(t.unit) = 2 /\ ScopesOf(indexed) # {}) =>
            Of(indexed, ParseFocus(t.focus).name) = Of(indexed, t.unit)

\* The timeline of a turn is about the failure: no event of the unit that is worse than
\* one it lists is left out.  (buildSyslogTimeline and its like.  Those of eventlog and of
\* logs keep the first and the last twelve events instead.)
TimelineShowsTheWorst ==
    \A t \in reply :
        profile.timeline.keep = "worst" =>
        \A i \in DatedOf(indexed, ParseFocus(t.focus).name) :
            severityRank(indexed[i].severity) >= 3 =>
                \/ i \in t.timeline
                \/ \A j \in t.timeline :
                       severityRank(indexed[j].severity) >= severityRank(indexed[i].severity)

\* The service that a finding of the event log proposes to restart is one that a crash
\* event names.  (plugins/eventlog/profile.go:47.)
RemedyIsForACrash ==
    logPlugin = "eventlog" =>
        \A f \in promoted :
            f.remedy # "" => \E i \in DOMAIN indexed : /\ indexed[i].subject = f.remedy
                                                       /\ indexed[i].code \in profile.symptoms[1].classes
=============================================================================
