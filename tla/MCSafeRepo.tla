----------------------------- MODULE MCSafeRepo ------------------------------
(* Small instances of SafeRepo for TLC.                                    *)
EXTENDS SafeRepo

\* The calls of the goroutines: an update of all metrics or of one of them, a
\* read of that one, and a read of all.  Calls that differ from these in the name
\* only, and updates of nothing, are left out.
AName == CHOOSE n \in Names : TRUE
Chosen ==
  {r \in Store!UpdateReq : Keys(r.batch) \in {Names, {AName}}}
    \cup {r \in Store!GetReq : r.name = AName} \cup Store!GetAllReq

MCNext == Next /\ \A p \in Procs : req'[p] \in Chosen \cup {Store!NoReq}

MCSpec == Init /\ [][MCNext]_vars /\ Fairness
=============================================================================
