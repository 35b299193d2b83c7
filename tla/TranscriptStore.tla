-------------------------- MODULE TranscriptStore --------------------------
(***************************************************************************)
(* What the conversation layer promises about stored transcripts, whatever *)
(* engine, cache and backend are behind it: the only thing that ever       *)
(* happens to a stored conversation is that one whole turn, the user's     *)
(* question and then the reply to it, is put at the end of a transcript    *)
(* the turn had read (or of an empty one), in one step.  Half a turn, two  *)
(* turns mixed, or a turn stored twice would not be such a step.           *)
(***************************************************************************)
EXTENDS Sequences

CONSTANT Turns     \* the turns a client ever asks for

VARIABLES stored,   \* the conversations on record: id |-> messages
          snap      \* the transcript each turn works from: one, or none

Question(t) == [role |-> "user", turn |-> t]
Reply(t)    == [role |-> "assistant", turn |-> t]

Init == /\ stored = [c \in {} |-> <<>>]
        /\ snap = [t \in Turns |-> {}]

\* Turn t starts from an empty transcript or from one on record.
Begin(t) ==
    /\ snap[t] = {}
    /\ \E s \in {<<>>} \cup {stored[c] : c \in DOMAIN stored} :
           snap' = [snap EXCEPT ![t] = {s}]
    /\ UNCHANGED stored

\* Turn t is stored, whole, at the end of what it had read, under some id.
Commit(t) ==
    /\ \E c \in DOMAIN stored', s \in snap[t] :
           stored' = [d \in DOMAIN stored \cup {c} |->
                         IF d = c THEN s \o <<Question(t), Reply(t)>> ELSE stored[d]]
    /\ snap' = [snap EXCEPT ![t] = {}]

\* Any set of running turns ends without a trace (an error, a crash).
Abandon(gone) ==
    /\ gone # {}
    /\ \A t \in gone : snap[t] # {}
    /\ snap' = [t \in Turns |-> IF t \in gone THEN {} ELSE snap[t]]
    /\ UNCHANGED stored

Next == \/ \E t \in Turns : Begin(t)
        \/ \E t \in Turns : Commit(t)
        \/ \E gone \in SUBSET Turns : Abandon(gone)

Spec == Init /\ [][Next]_<<stored, snap>>
=============================================================================
