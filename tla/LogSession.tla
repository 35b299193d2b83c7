----------------------------- MODULE LogSession -----------------------------
(***************************************************************************)
(* The corpus of an analysis run (internal/investigate/logsession.go): the *)
(* parser appends events under two caps, the run hands its session to a    *)
(* hub (snapshot.go), and the hub's log explorer pages through it.  A      *)
(* later run of the same analyzer replaces the session in the hub.         *)
(*                                                                         *)
(* An event is the number of its line, its size, and whether it matches    *)
(* the filter of the explorer and of the corpus checks.                    *)
(***************************************************************************)
EXTENDS Integers, SequencesExt

CONSTANTS MaxEvents,   \* MaxSessionEvents
          MaxBytes,    \* MaxSessionBytes
          PageSize,    \* LogQuery.Limit
          Sizes,       \* sizes of an event
          MaxLines,    \* bound: lines of the run and of the one before it
          MaxRuns      \* bound: runs

\* What the constants are: caps, and pages that have a line at least.
LogSessionAssumption ==
    MaxEvents \in Nat /\ MaxBytes \in Nat /\ PageSize \in Nat \ {0}

VARIABLES
    session,   \* the run's LogSession: [events, bytes, truncated, stats]
    hub,       \* the session the hub restored from a run's snapshot, or NoSnapshot
    explorer,  \* the pages a user went through: [of, offset, shown, total]
    run        \* number of the run

\* Kept for the properties only.
VARIABLES
    parsed,    \* every event this run appended
    origin     \* the session the hub's one was restored from, and what its run
               \* had parsed

vars == <<session, hub, explorer, run, parsed, origin>>

NoSnapshot == [stats |-> "none"]

NewLogSession == [events |-> <<>>, bytes |-> 0, truncated |-> 0, stats |-> "none"]
Closed == [of |-> 0, offset |-> 0, shown |-> <<>>, total |-> 0]

Init ==
    /\ session = NewLogSession /\ hub = NoSnapshot /\ explorer = Closed
    /\ run = 1 /\ parsed = <<>>
    /\ origin = [session |-> NewLogSession, parsed |-> <<>>]

Bytes(events) == FoldLeft(LAMBDA sum, e : sum + e.size, 0, events)

---------------------------------------------------------------------------
(* Append, Snapshot and RestoreLogSession.                                 *)

\* How many of the oldest events must go: the fewest that bring both caps back.
Excess(events) ==
    CHOOSE k \in 0..Len(events) :
        LET fits(j) == /\ Len(events) - j <= MaxEvents
                       /\ Bytes(SubSeq(events, j + 1, Len(events))) <= MaxBytes
        IN  fits(k) /\ \A j \in 0..(k - 1) : ~fits(j)

Retain(s, events) ==
    LET k == Excess(events) IN
    [s EXCEPT !.events = SubSeq(events, k + 1, Len(events)),
              !.bytes = Bytes(SubSeq(events, k + 1, Len(events))),
              !.truncated = @ + k]

\* Mutant of AppendTo: beyond the cap on events the new one is refused instead.
RefuseNewest(s, events) ==
    IF Len(s.events) = MaxEvents THEN [s EXCEPT !.truncated = @ + Len(events)]
    ELSE Retain(s, s.events \o events)

AppendTo(s, events) == Retain(s, s.events \o events)

\* Mutant of Restore: what the run had dropped before is forgotten.
RestoreCountsAnew(s) ==
    [AppendTo(NewLogSession, s.events) EXCEPT
        !.stats = IF s.stats = "none" THEN "none" ELSE "json"]

\* Snapshot, the wire and RestoreLogSession: the events go through the caps again,
\* the count of dropped ones is added, and the typed statistics arrive as JSON text.
Restore(s) ==
    [AppendTo(NewLogSession, s.events) EXCEPT
        !.truncated = @ + s.truncated,
        !.stats = IF s.stats = "none" THEN "none" ELSE "json"]

---------------------------------------------------------------------------
(* A run.                                                                  *)

Lines(n) == [1..n -> [size : Sizes, matches : BOOLEAN]]

\* The parser appends a line, or the lines of a file at once.
Parse ==
    /\ session.stats = "none"
    /\ \E n \in 1..(MaxLines - Len(parsed) - Len(origin.parsed)) : \E lines \in Lines(n) :
           LET events == [i \in 1..n |-> [line |-> Len(parsed) + i, size |-> lines[i].size,
                                          matches |-> lines[i].matches]]
           IN  /\ session' = AppendTo(session, events)
               /\ parsed' = parsed \o events
    /\ UNCHANGED <<hub, explorer, run, origin>>

\* The statistics of the run, typed by its analyzer.
ComputeStats ==
    /\ session.stats = "none"
    /\ session' = [session EXCEPT !.stats = "typed"]
    /\ UNCHANGED <<hub, explorer, run, parsed, origin>>

\* attachToHub and handleIngestSession: the run hands its session over and ends.
Attach ==
    /\ session.stats = "typed"
    /\ hub' = Restore(session)
    /\ origin' = [session |-> session, parsed |-> parsed]
    /\ run' = run + 1
    /\ session' = NewLogSession /\ parsed' = <<>>
    /\ UNCHANGED explorer

---------------------------------------------------------------------------
(* Reading.                                                                *)

\* The events of s that match, in order.
Matching(s) ==
    LET upTo[n \in 0..Len(s.events)] ==
            IF n = 0 THEN <<>>
            ELSE IF s.events[n].matches THEN Append(upTo[n - 1], s.events[n])
            ELSE upTo[n - 1]
    IN  upTo[Len(s.events)]

\* Mutant of Query: a page carries one line more than the next one skips.
QueryOneMore(s, offset) ==
    LET all == Matching(s) IN
    SubSeq(all, offset + 1, IF offset + PageSize < Len(all) THEN offset + PageSize + 1
                            ELSE Len(all))

\* The page at an offset.  (The total is that of all matches.)
Query(s, offset) ==
    LET all == Matching(s) IN
    SubSeq(all, offset + 1,
           IF offset + PageSize < Len(all) THEN offset + PageSize ELSE Len(all))

\* The explorer opens, or loads its next page, from whatever session the hub has.
Page ==
    /\ hub # NoSnapshot
    /\ LET from == IF explorer = Closed THEN [Closed EXCEPT !.of = run] ELSE explorer IN
           /\ from.offset < from.total \/ explorer = Closed
           /\ explorer' = [from EXCEPT !.offset = @ + PageSize,
                                       !.shown = @ \o Query(hub, from.offset),
                                       !.total = Len(Matching(hub))]
    /\ UNCHANGED <<session, hub, run, parsed, origin>>

\* The user leaves the explorer.
Leave ==
    /\ explorer # Closed /\ explorer' = Closed
    /\ UNCHANGED <<session, hub, run, parsed, origin>>

Next == run <= MaxRuns /\ (Parse \/ ComputeStats \/ Attach \/ Page \/ Leave)

Spec == Init /\ [][Next]_vars

---------------------------------------------------------------------------

TypeOK ==
    /\ session.stats \in {"none", "typed"} /\ session.truncated \in 0..MaxLines
    /\ hub = NoSnapshot \/ (hub.stats = "json" /\ hub.truncated \in 0..MaxLines)
    /\ explorer.of \in 0..(MaxRuns + 1)
    /\ run \in 1..(MaxRuns + 1)

\* "Bounded coverage is never mistaken for full coverage" (logsession.go:22-24), in
\* the run and in the hub: what a session does not have, it counts, also when a
\* session that was cut down already is cut down or handed over again.
BoundedCoverageIsVisible ==
    /\ session.events = SubSeq(parsed, session.truncated + 1, Len(parsed))
    /\ session.bytes = Bytes(session.events)
    /\ session.bytes <= MaxBytes /\ Len(session.events) <= MaxEvents
    /\ hub # NoSnapshot => /\ hub.events = SubSeq(origin.parsed, hub.truncated + 1,
                                            Len(origin.parsed))
                     /\ hub.bytes <= MaxBytes /\ Len(hub.events) <= MaxEvents

\* A user who pages to the end has seen every match once and in order, unless a
\* later run replaced the session in between.
PagesAreWhole ==
    explorer # Closed /\ explorer.of = run /\ explorer.offset >= explorer.total =>
        explorer.shown = Matching(hub)
=============================================================================
