------------------------------ MODULE MCPipeline ------------------------------
(* Three ontologies in two places, with a run that hangs; or with loads that fail and *)
(* runs that stop short.                                                               *)
EXTENDS Pipeline
MCScenarios == {[faults |-> {"hang"}, resets |-> 2], [faults |-> {"load", "short"}, resets |-> 2]}
=============================================================================
