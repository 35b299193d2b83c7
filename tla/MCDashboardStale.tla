-------------------------- MODULE MCDashboardStale --------------------------
(***************************************************************************)
(* The instance of MCDashboard with a history of what was fixed: what a    *)
(* handler's comment says the dashboard shows once it has answered.        *)
(***************************************************************************)
EXTENDS MCDashboard

\* Kept for the property only: problems an answered fix removed, and that have not
\* come back.
VARIABLE fixed

\* The handlers that answer in this step, having stored what they collected.
Stored == {r \in Requests : /\ pc[r] = "collect" /\ Complete(snap[r])
                            /\ pc'[r] = "done"}

StaleInit == Init /\ fixed = {}
StaleNext ==
    /\ Next
    /\ fixed' = (fixed \cup UNION {asked[r] \ snap[r].found : r \in Stored}) \ cluster'

StaleSpec == StaleInit /\ [][StaleNext]_<<vars, fixed>>

\* The handlers' comments: "Re-collect so the next dashboard poll reflects the
\* post-fix state".  So a problem that an answered fix removed, and that has not
\* come back, is not on the dashboard.
PollShowsPostFix == fixed \cap report = {}
=============================================================================
