---------------------------- MODULE MCDashboard ----------------------------
(***************************************************************************)
(* A small instance of LiveDashboard: a stateful set to restart and a pod  *)
(* to delete; two requests at a time, two that wait for one slot, and one  *)
(* under `exalm serve`, that re-collects for no request.                   *)
(***************************************************************************)
EXTENDS LiveDashboard

CONSTANTS web, pod

MCFindings == {web, pod}
MCKind == [f \in MCFindings |-> IF f = web THEN "rollout-restart" ELSE "delete-pod"]
\* Pods are listed first; the list of stateful sets comes later and is best effort.
MCListOf == [f \in MCFindings |-> IF f = web THEN 2 ELSE 1]
MCSetups == {[mode |-> "analyze", gate |-> 2, requests |-> Requests],
             [mode |-> "watch", gate |-> 1, requests |-> Requests],
             [mode |-> "serve", gate |-> 1,
              requests |-> {CHOOSE r \in Requests : TRUE}]}
=============================================================================
