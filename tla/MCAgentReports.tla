--------------------------- MODULE MCAgentReports ----------------------------
(* Small instances of AgentReports for TLC.                                *)
EXTENDS AgentReports

\* As many workers as there may be.
WholePool == {Workers}
=============================================================================
