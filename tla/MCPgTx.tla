------------------------------- MODULE MCPgTx --------------------------------
(* A small instance of PgTx for TLC.                                        *)
EXTENDS PgTx

CONSTANTS One, Other   \* two names

\* Batches of one and of two rows, and reads of one and of all.
MCCalls ==
  {[op |-> "update", batch |-> [n \in Names |-> 1]],
   [op |-> "update", batch |-> [n \in Names |-> IF n = One THEN 1 ELSE Absent]],
   [op |-> "get", name |-> Other], [op |-> "getall"]}
=============================================================================
