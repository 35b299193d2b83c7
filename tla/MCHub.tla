------------------------------- MODULE MCHub -------------------------------
(***************************************************************************)
(* A small instance of HubDiscovery: hubs on two ports, and runs of one    *)
(* analyzer, so that a run can replace the session of another.             *)
(***************************************************************************)
EXTENDS HubDiscovery, TLC

MCAnalyzerOf == [r \in Runs |-> CHOOSE id \in Ids : TRUE]
=============================================================================
