------------------------------- MODULE Planner -------------------------------
(***************************************************************************)
(* Which checks a chat turn plans (internal/investigate/planner.go,        *)
(* profile.go, intents.go) from the analyzers' catalogs, and what the reply *)
(* suggests to ask next.                                                   *)
(*                                                                         *)
(* The plan is what a reply rests on: there is one pass of checks and one  *)
(* call of the model, and a check that the cap cuts off is not made up for.*)
(* A turn is one step here; Converse has its interleavings and its cache.  *)
(***************************************************************************)
EXTENDS Integers, FiniteSets, SequencesExt

CONSTANTS Profiles,      \* the catalogs, by analyzer (module Catalogs)
          MaxPlanSteps,  \* cap of a plan
          Load,          \* bound: symptoms + 3 * intents, if there are intents
          MaxTurns       \* bound: turns of a conversation

\* Every symptom's row, and every intent with checks, has exactly one check that comes
\* first; a plan has room for those of all rows of a catalog.
FirstOf(levels) == levels[1][1]
FirstChecks(p)  == {FirstOf(p.symptoms[r].checks) : r \in DOMAIN p.symptoms}

\* What ClassifyIntent finds in a message.
Intents(p) == ToSet(p.intents) \cup {"general"}

Catalog(p) ==
    /\ p.symptoms \in Seq([key : STRING, checks : Seq(Seq(STRING))]) /\ p.symptoms # <<>>
    /\ p.checks \in [DOMAIN p.checks -> Seq(Seq(STRING))]
    /\ \A levels \in {p.symptoms[r].checks : r \in DOMAIN p.symptoms}
                       \cup {p.checks[i] : i \in DOMAIN p.checks} :
           levels # <<>> /\ Len(levels[1]) = 1
    /\ Cardinality(FirstChecks(p)) <= MaxPlanSteps
    /\ p.intents \in Seq(Intents(p)) /\ "history" \in Intents(p)
    /\ DOMAIN p.questions = 1..Len(p.questions) /\ Len(p.questions) \in Nat
    /\ \A q \in DOMAIN p.questions : p.questions[q].classified \in Seq(Intents(p))

PlannerAssumption ==
    /\ MaxPlanSteps \in Nat
    /\ \A a \in DOMAIN Profiles : Catalog(Profiles[a])

VARIABLES
    analyzer,     \* the profile of this conversation
    turns,        \* turns of the conversation so far
    holds,        \* rows of the symptom catalog whose Match is true
    intents,      \* the intents of the turn
    plan,         \* its plan: checks in order
    suggestions   \* questions its reply suggests

vars == <<analyzer, turns, holds, intents, plan, suggestions>>

profile == Profiles[analyzer]
Rows    == DOMAIN profile.symptoms

Init ==
    /\ analyzer \in DOMAIN Profiles
    /\ turns \in {0, 1}    \* a new conversation, or a stored one
    /\ holds = {} /\ intents = <<>> /\ plan = <<>> /\ suggestions = <<>>

---------------------------------------------------------------------------
(* The plan.                                                               *)

\* The members of a set of positions, in order.
InOrder(S, n) ==
    LET upTo[k \in 0..n] == IF k = 0 THEN <<>>
                            ELSE IF k \in S THEN Append(upTo[k - 1], k) ELSE upTo[k - 1]
    IN  upTo[n]

\* What a sequence has at those positions.
At(S, s) ==
    LET positions == InOrder(S, Len(s)) IN [k \in DOMAIN positions |-> s[positions[k]]]

\* Every row that matches, in catalog order; the fallback, the last one, only if
\* no other does.
MatchSymptoms(p, matching) ==
    LET fallback == Len(p.symptoms) IN
    InOrder(IF matching \subseteq {fallback} THEN matching ELSE matching \ {fallback},
            fallback)

\* The checks that symptoms and intents ask for: a sequence of requests, each a
\* sequence of levels.
Requests(p, matching, is) ==
    LET rows == MatchSymptoms(p, matching)
        known == At({k \in DOMAIN is : is[k] \in DOMAIN p.checks}, is)
    IN
    [r \in DOMAIN rows |-> p.symptoms[rows[r]].checks]
        \o [k \in DOMAIN known |-> p.checks[known[k]]]

\* Stable order by priority: all first levels in the order of the requests, then
\* all second ones.
ByPriority(requests) ==
    LET level(n) == FlattenSeq([r \in DOMAIN requests |->
                        IF n \in DOMAIN requests[r] THEN requests[r][n] ELSE <<>>])
    IN  FlattenSeq([n \in 1..5 |-> level(n)])

\* A sequence without what it has had before.
Once(s) == At({i \in DOMAIN s : \A j \in 1..(i - 1) : s[j] # s[i]}, s)

Capped(s) == SubSeq(s, 1, IF Len(s) < MaxPlanSteps THEN Len(s) ELSE MaxPlanSteps)

\* Mutant of buildPlan: request after request, whatever the priorities.
PlanInOrder(p, matching, is) ==
    Capped(Once(FlattenSeq([r \in DOMAIN Requests(p, matching, is) |->
                               FlattenSeq(Requests(p, matching, is)[r])])))

\* Mutant of buildPlan: the cap is applied before duplicates are dropped.
PlanCappedFirst(p, matching, is) ==
    Once(Capped(ByPriority(Requests(p, matching, is))))

\* Mutant of buildPlan: questions are only planned for when no symptom is.
PlanWithoutQuestion(p, matching, is) ==
    Capped(Once(ByPriority(Requests(p, matching,
                                    IF matching = {} THEN is ELSE <<>>))))

buildPlan(p, matching, is) == Capped(Once(ByPriority(Requests(p, matching, is))))

---------------------------------------------------------------------------
(* Turns.                                                                  *)

\* At most five questions, without those that stand for an intent of this turn.
\* The first one of some profiles also needs a fact: `fact` says whether it holds.
SuggestFollowUps(p, is, fact) ==
    LET open == {q \in DOMAIN p.questions :
                    p.questions[q].unless \cap ToSet(is) = {} /\ (q = 1 => fact)}
        all  == InOrder(open, Len(p.questions))
    IN  SubSeq(all, 1, IF Len(all) < 5 THEN Len(all) ELSE 5)

\* The first turn of an investigation also asks whether it happened before.
TurnIntents(is) ==
    IF turns = 0 /\ "history" \notin ToSet(is) THEN Append(is, "history") ELSE is

Turn(matching, is, fact) ==
    /\ turns' = turns + 1
    /\ holds' = matching
    /\ intents' = TurnIntents(is)
    /\ plan' = buildPlan(profile, matching, intents')
    /\ suggestions' = SuggestFollowUps(profile, intents', fact)
    /\ UNCHANGED analyzer

\* ClassifyIntent of a message: intents in the order of the patterns, or "general".
Messages(n) ==
    {At({k \in DOMAIN profile.intents : profile.intents[k] \in chosen}, profile.intents) :
        chosen \in UNION {kSubset(k, ToSet(profile.intents)) : k \in 1..n}}
    \cup {<<"general">>}

\* Rows that match together: any, or the fallback alone.
Matchings ==
    LET fallback == Len(profile.symptoms) IN
    (SUBSET (Rows \ {fallback})) \cup {{fallback}}

\* The user asks in words of their own.
Ask ==
    /\ intents = <<>>
    /\ \E is \in Messages(2), matching \in Matchings :
           /\ is = <<"general">> \/ Cardinality(matching) + 3 * Len(is) <= Load
           /\ Turn(matching, is, TRUE)

\* The user asks a question the last reply suggested.
AskSuggested ==
    /\ turns < MaxTurns
    /\ \E q \in ToSet(suggestions), fact \in BOOLEAN :
           Turn(holds, profile.questions[q].classified, fact)

Next == Ask \/ AskSuggested

Spec == Init /\ [][Next]_vars

---------------------------------------------------------------------------

TypeOK ==
    /\ analyzer \in DOMAIN Profiles
    /\ turns \in 0..MaxTurns
    /\ holds \subseteq Rows
    /\ plan \in Seq(STRING) /\ Len(plan) <= MaxPlanSteps
    /\ ToSet(suggestions) \subseteq DOMAIN profile.questions

Matched == ToSet(MatchSymptoms(profile, holds))

\* The check an experienced operator makes first for a symptom is in the plan,
\* whatever else matches and is asked: neither another symptom's checks nor the
\* question's push it behind the cap (planner.go:59-71).
FirstCheckIsPlanned ==
    intents # <<>> =>
        \A r \in Matched : ToSet(profile.symptoms[r].checks[1]) \subseteq ToSet(plan)

\* A question gets the check that answers it, next to all those that the symptoms
\* call for, as long as symptoms and intents together are no more than a plan has
\* steps.  (A Kubernetes pod can show ten symptoms; beyond eight requests the
\* symptoms win, and the question asked may go without its check.)
QuestionIsChecked ==
    LET known == ToSet(intents) \cap DOMAIN profile.checks IN
    Cardinality(Matched) + Cardinality(known) <= MaxPlanSteps =>
        \A i \in known : ToSet(profile.checks[i][1]) \subseteq ToSet(plan)
=============================================================================
