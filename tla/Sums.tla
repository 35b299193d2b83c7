---------------------------------- MODULE Sums ---------------------------------
(***************************************************************************)
(* What the components that measure add up: the samples of an SLO, the     *)
(* deployments and incidents of a window.                                  *)
(***************************************************************************)
EXTENDS Integers, Sequences

\* f[1] + f[2] + ...
SumOf(f) ==
    LET upTo[n \in 0..Len(f)] == IF n = 0 THEN 0 ELSE upTo[n - 1] + f[n]
    IN  upTo[Len(f)]
=============================================================================
