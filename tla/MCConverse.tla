----------------------------- MODULE MCConverse -----------------------------
(***************************************************************************)
(* Small instances of Converse.  For the cache: two collectors, caps of    *)
(* one conversation and one entry, so that every put beyond the first      *)
(* evicts.  For transcripts: empty plans, so that what the store goes      *)
(* through is explored with more turns.                                    *)
(***************************************************************************)
EXTENDS Converse, TLC

CONSTANTS hist, logs

MCCollectors == {hist, logs}
MCTTLs == [c \in MCCollectors |-> IF c = logs THEN 0 ELSE 1]
MCPlans == {<<hist, logs>>}
MCNoPlans == {<<>>}
TurnSymmetry == Permutations(Turns)
=============================================================================
