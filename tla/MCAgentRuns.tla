---------------------------- MODULE MCAgentRuns ----------------------------
(***************************************************************************)
(* An instance of AgentRuns for TLC.  A terminal is an outcome and the     *)
(* number of times the model had been asked, so that a second run's        *)
(* terminal differs from the first one's.                                  *)
(***************************************************************************)
EXTENDS AgentRuns

RunTerminals == {"sent", "failed"} \X (0..MaxDispatch)
=============================================================================
