------------------------------ MODULE LogEngine ------------------------------
(***************************************************************************)
(* What the log analyzers share (internal/investigate): queries over a     *)
(* corpus, the collectors of evidence, the ranking of hypotheses, the      *)
(* score of confidence and the promotion of symptoms to findings.          *)
(*                                                                         *)
(* A text is the set of tokens that the patterns of the code find in it;   *)
(* every text has ".".  A corpus is a sequence of bursts, in the order of  *)
(* time: a burst is an event and how often its line is repeated.  A unit   *)
(* or a focus is the sequence of its parts between slashes, <<>> if empty. *)
(***************************************************************************)
EXTENDS Integers, FiniteSets, SequencesExt, TLC

---------------------------------------------------------------------------
(* Rows of the analyzers' tables.                                          *)

\* What Re(`.`) finds.
AnyText == {"."}

NoEvent == [severity |-> "none"]

\* LogEvent: patterns look into its message and its raw line, evidence quotes the raw
\* line.  `subject` is what a fix that is drawn from this line would act on.
Event(dated, severity, place, unit, code, message, raw, subject) ==
    [dated |-> dated, severity |-> severity, scope |-> place, unit |-> unit,
     code |-> code, text |-> message \cup raw \cup AnyText, raw |-> raw,
     subject |-> subject]

\* EvidenceMatcher; of any kind if the kind is "any".
Matcher(kind, pattern, weight) == [kind |-> kind, pattern |-> pattern, weight |-> weight]

\* CauseTemplate: only the catalog of Kubernetes has evidence against a cause.
Cause(title, base, for) == [title |-> title, base |-> base, for |-> for, against |-> {}]

Unless(cause, against) == [cause EXCEPT !.against = against]

\* Symptom: at least `min` lines match the pattern or have one of the codes or
\* severities.  `mends`: the symptom comes with a fix.
Symptom(key, pattern, classes, min, causes, mends) ==
    [key |-> key, pattern |-> pattern, classes |-> classes, min |-> min,
     causes |-> causes, mends |-> mends]

\* ConfidenceRule: one of some conjunctions of matchers holds.
Rule(score, alternatives) == [score |-> score, alternatives |-> alternatives]

Saw(kind, pattern) == Matcher(kind, pattern, 0)

\* No cap on what an analyzer lists for the model.
Unlimited == 1000

---------------------------------------------------------------------------
(* Severities.                                                             *)

ServerErrors == {"5xx", "500", "502", "503", "504"}
ClientErrors == {"4xx", "400", "401", "403", "404"}

isErrorClass(severity) ==
    severity \in {"emerg", "alert", "crit", "err", "error", "critical", "fatal"}
                     \cup ServerErrors

severityRank(severity) ==
    CASE severity \in {"emerg", "alert", "crit", "critical", "fatal"} -> 4
      [] severity \in {"err", "error"} \cup ServerErrors              -> 3
      [] severity \in {"warn", "warning"} \cup ClientErrors           -> 2
      [] severity \in {"notice", "info", "information"}               -> 1
      [] OTHER                                                        -> 0

---------------------------------------------------------------------------
(* Queries.                                                                *)

\* Positions of the events of a unit; of all if it is empty.  Events are queried
\* without any other condition here.
Of(corpus, unit) == {i \in DOMAIN corpus : unit = <<>> \/ corpus[i].unit = unit}

\* Lines at the positions of a set.
LinesAt(corpus, S) == FoldSet(LAMBDA i, n : n + corpus[i].times, 0, S)

Having(corpus, pattern) == {i \in DOMAIN corpus : pattern \cap corpus[i].text # {}}

Before(S, i) == {j \in S : j < i}

\* The first n lines of the positions of a set.
FirstLines(corpus, S, n) == {i \in S : LinesAt(corpus, Before(S, i)) < n}

\* ResolveFocusFromVocabulary: a message mentions some units and scopes of the
\* corpus (of each, the first in the alphabet counts).  A unit is given the first
\* scope of the corpus, whichever its own is.
ScopesOf(corpus) == {corpus[i].scope : i \in DOMAIN corpus} \ {""}
UnitsOf(corpus)  == {corpus[i].unit : i \in DOMAIN corpus} \ {<<>>}

FocusOnUnit(corpus, unit, place) ==
    IF ScopesOf(corpus) = {} THEN unit ELSE <<place>> \o unit

FocusOnScope(place) == <<place>>

\* Mutant of ParseFocus: a focus with a slash is a name too.
ParseName(focus) == [scope |-> "", name |-> focus]

\* ParseFocus: what is before the first slash is the scope.
ParseFocus(focus) ==
    IF Len(focus) < 2 THEN [scope |-> "", name |-> focus]
    ELSE [scope |-> Head(focus),
          name |-> IF Tail(focus) = <<"">> THEN <<>> ELSE Tail(focus)]

---------------------------------------------------------------------------
(* Collectors.                                                             *)

maxSearchHits == 5
windowLines   == 40
excerptLines  == 12    \* bound: lines of 100 bytes in an excerpt of 2 * 600 bytes

Item(kind, text) == [kind |-> kind, text |-> text \cup AnyText]

\* Mutant of Search: the focus is not optional.
SearchInFocus(corpus, unit, pattern) ==
    {Item("log", corpus[i].raw) :
        i \in FirstLines(corpus, {j \in Having(corpus, pattern) : corpus[j].unit = unit},
                         maxSearchHits)}

\* CorpusSearchCollector.
Search(corpus, unit, pattern) ==
    {Item("log", corpus[i].raw) :
        i \in FirstLines(corpus, Of(corpus, unit) \cap Having(corpus, pattern),
                         maxSearchHits)}

DatedOf(corpus, unit) == {i \in Of(corpus, unit) : corpus[i].dated}

\* CorpusWindowCollector, if the unit has a dated event: the first lines, of any
\* unit, of the minutes around its worst one, as far as they fit into the excerpt.
\* (Bound: a corpus is that long.)
Window(corpus, unit) ==
    LET all == {i \in DOMAIN corpus : corpus[i].dated}
        fit == FirstLines(corpus, FirstLines(corpus, all, windowLines), excerptLines)
    IN  IF DatedOf(corpus, unit) = {} THEN {}
        ELSE {Item("log", UNION {corpus[i].raw : i \in fit})}

\* CorpusFrequencyCollector.
Frequency(corpus, unit) ==
    IF \E i \in DatedOf(corpus, unit) : isErrorClass(corpus[i].severity)
    THEN {Item("metric", {"corpus-frequency", "error-class", "busiest"})} ELSE {}

\* What an analyzer renders of its statistics: what it says of any corpus, and the most
\* frequent codes, units or severities.  (Bound: there are no more than ten of each.)
Statistics(says, counts) == [says |-> says, counts |-> counts]

Quoted(e, field) == IF field = "unit" THEN ToSet(e.unit) ELSE {e[field]}

Rendered(corpus, stats) ==
    stats.says \cup UNION {Quoted(corpus[i], f) : i \in DOMAIN corpus, f \in stats.counts}

\* StatsSummaryCollector: the renderer knows the statistics of its analyzer only,
\* not the JSON text that a hub has of them.
StatsSummary(text, typed) == IF typed THEN {Item("metric", text)} ELSE {}

\* DiagCollector.  An answer is "off" (no host or no tier), "fails", "plain", or one
\* that tells what the patterns look for in it; its source is named for it.
Diagnostic(answer, source, tells) ==
    CASE answer \in {"off", "fails"} -> {}
      [] answer = "plain"            -> {Item("metric", {"diag/"} \cup source)}
      [] answer = "telling"          -> {Item("metric", {"diag/"} \cup source \cup tells)}

\* GatherHistory: incidents of the service and conversations about the focus, whose
\* conclusion is quoted and may speak of a change; changes of the unit, which are
\* asked for by its name.
GatherHistory(past, focus) ==
    IF past = "none" \/ focus = <<>> THEN {}
    ELSE CASE past = "changed"   -> IF ParseFocus(focus).name = <<>> THEN {}
                                    ELSE {Item("history", {"change"})}
           [] past = "concluded" -> {Item("history", {"concluded", "change"})}
           [] OTHER              -> {Item("history", {past})}

\* How a collector collects.
Searches(pattern)    == [by |-> "search", pattern |-> pattern]
Diag(source, tells)  == [by |-> "diag", source |-> source, tells |-> tells]
By(how)              == [by |-> how]

CommonCollectors ==
       "corpus-window" :> By("window") @@ "corpus-frequency" :> By("frequency")
    @@ "stats-summary" :> By("stats") @@ "history" :> By("history")

\* A turn's surroundings: [focus, answer, past, typed], and the text of the statistics.
Collect(how, corpus, turn, stats) ==
    LET unit == ParseFocus(turn.focus).name IN
    CASE how.by = "search"    -> Search(corpus, unit, how.pattern)
      [] how.by = "window"    -> Window(corpus, unit)
      [] how.by = "frequency" -> Frequency(corpus, unit)
      [] how.by = "stats"     -> StatsSummary(stats, turn.typed)
      [] how.by = "diag"      -> Diagnostic(turn.answer, how.source, how.tells)
      [] how.by = "history"   -> GatherHistory(turn.past, turn.focus)

---------------------------------------------------------------------------
(* Timelines.                                                              *)

maxTimelineEvents == 12

\* How an analyzer chooses events for the timeline of a turn: it ranks severities, the
\* worst one highest, lists those of a rank of at least `least`, and keeps the "worst",
\* the "first" or the "last" of them.
Choice(rank, least, keep) == [rank |-> rank, least |-> least, keep |-> keep]

Rank(choice, e) == IF e.severity \in DOMAIN choice.rank THEN choice.rank[e.severity] ELSE 0

Candidates(corpus, unit, choice) ==
    {i \in DatedOf(corpus, unit) : Rank(choice, corpus[i]) >= choice.least}

\* Mutant of Ahead: the later event first, whatever its severity.
LaterAhead(corpus, choice, j, i) == IF choice.keep = "first" THEN j < i ELSE j > i

\* Which of two candidates is kept rather than the other.
Ahead(corpus, choice, j, i) ==
    LET rj == Rank(choice, corpus[j])
        ri == Rank(choice, corpus[i])
    IN  CASE choice.keep = "worst" -> rj > ri \/ (rj = ri /\ j > i)
          [] choice.keep = "first" -> j < i
          [] choice.keep = "last"  -> j > i

Timeline(corpus, unit, choice) ==
    LET all == Candidates(corpus, unit, choice) IN
    {i \in all :
        LinesAt(corpus, {j \in all : Ahead(corpus, choice, j, i)}) < maxTimelineEvents}

---------------------------------------------------------------------------
(* Reasoning over the evidence.                                            *)

\* Mutant of Matches: the kind of the evidence is not looked at.
MatchesAnyKind(m, ev) == \E e \in ev : m.pattern \cap e.text # {}

\* matchLabels and EvidenceMatching.
Matches(m, ev) ==
    \E e \in ev : m.kind \in {"any", e.kind} /\ m.pattern \cap e.text # {}

\* The causes of some symptoms, each title once.
CausesOf(symptoms) ==
    LET all    == FlattenSeq([r \in DOMAIN symptoms |-> symptoms[r].causes])
        new(i) == \A j \in 1..(i - 1) : all[j].title # all[i].title
        first  == SelectSeq([i \in DOMAIN all |-> i], new)
    IN  [k \in DOMAIN first |-> all[first[k]]]

Weight(matchers, ev) ==
    FoldSet(LAMBDA m, n : n + m.weight, 0, {m \in matchers : Matches(m, ev)})

Score(c, ev) ==
    LET sum == c.base + Weight(c.for, ev) - Weight(c.against, ev)
    IN  IF sum < 0 THEN 0 ELSE IF sum > 98 THEN 98 ELSE sum

\* Mutant of MaxHypotheses: one less.
ThreeHypotheses == 3

MaxHypotheses == 4

FirstOf(s, n) == SubSeq(s, 1, IF Len(s) < n THEN Len(s) ELSE n)

\* Highest first, in catalog order if they are equal.
ByScore(causes, ev) ==
    LET scored == [k \in DOMAIN causes |-> <<k, Score(causes[k], ev)>>]
        order  == SortSeq(scored, LAMBDA p, q : p[2] > q[2] \/ (p[2] = q[2] /\ p[1] < q[1]))
    IN  [k \in DOMAIN causes |-> causes[order[k][1]].title]

RankHypotheses(symptoms, ev) == FirstOf(ByScore(CausesOf(symptoms), ev), MaxHypotheses)

Holds(rule, ev) == \E conj \in rule.alternatives : \A m \in conj : Matches(m, ev)

\* ScoreConfidence: the best rule, less if it is that of metrics and these are modeled,
\* and two points for each further kind of evidence.
ScoreConfidence(rules, ev) ==
    LET scores  == {rules[r].score : r \in {q \in DOMAIN rules : Holds(rules[q], ev)}}
        best    == CHOOSE s \in scores : \A t \in scores : s >= t
        modeled == best = 45 /\ Matches(Saw("metric", {"modeled"}), ev)
        kinds   == Cardinality({e.kind : e \in ev})
        sum     == best - (IF modeled THEN 15 ELSE 0)
                        + 2 * (IF kinds > 1 THEN kinds - 1 ELSE 0)
    IN  IF scores = {} THEN 10 ELSE IF sum > 98 THEN 98 ELSE sum

TierFor(score) ==
    IF score >= 75 THEN "high" ELSE IF score >= 45 THEN "medium" ELSE "low"

\* A finding for a matched symptom: its first cause with the highest base, and a
\* bucket of confidence from that.
topCause(causes) ==
    causes[CHOOSE k \in DOMAIN causes :
              /\ \A l \in DOMAIN causes : causes[k].base >= causes[l].base
              /\ \A l \in 1..(k - 1) : causes[l].base < causes[k].base]

confidenceBucket(base) ==
    IF base >= 70 THEN "high" ELSE IF base >= 40 THEN "medium" ELSE "low"

\* The lines a symptom is about, and whether there are enough of them.
LinesOf(s, corpus) ==
    {i \in DOMAIN corpus : \/ s.pattern \cap corpus[i].text # {}
                           \/ s.classes \cap {corpus[i].severity, corpus[i].code} # {}}

Occurs(s, corpus) == LinesAt(corpus, LinesOf(s, corpus)) >= s.min

\* The first one of them that names something to act on.
Remedy(s, corpus) ==
    LET named == {i \in LinesOf(s, corpus) : corpus[i].subject # ""} IN
    IF s.mends /\ named # {} THEN corpus[CHOOSE i \in named : \A j \in named : i <= j].subject
    ELSE ""

findingFromSymptom(s, corpus) ==
    [key |-> s.key, rootCause |-> topCause(s.causes).title,
     confidence |-> confidenceBucket(topCause(s.causes).base),
     remedy |-> Remedy(s, corpus)]
=============================================================================
