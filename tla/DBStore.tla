------------------------------ MODULE DBStore --------------------------------
(***************************************************************************)
(* What a repository in a database promises to its callers: an update, of  *)
(* one metric or of a batch, is applied as a whole, and a read shows the   *)
(* table at one instant, between the call and its answer.  A call that is  *)
(* answered with success has taken effect.  But an effect whose            *)
(* confirmation is lost may be repeated, a call that fails may have had    *)
(* one, and one that is given up may yet have it after its answer.         *)
(***************************************************************************)
EXTENDS Metrics

CONSTANTS Procs,      \* the handlers that call the repository
          UpdateOp,   \* what its updates do: "set" (gauges), "accum" (counters)
          Calls       \* the calls they make, of these kinds

Updates == [op : {"update"}, batch : Map]
Gets == [op : {"get"}, name : Names]
GetAlls == [op : {"getall"}]

VARIABLES store,   \* the table
          req,     \* the call of each handler, NoReq when it has none
          state,   \* "idle", "open" (it has not taken effect), "applied",
                   \* "failed", or "adrift" (answered, but not over)
          seen     \* what a read has found

vars == <<store, req, state, seen>>

NoReq == [op |-> "none"]

\* The names a read asks for, and the part of table m that it shows.
Asked(r) == IF r.op = "get" THEN {r.name} ELSE Names
View(m, ns) == [n \in Names |-> IF n \in ns THEN m[n] ELSE Absent]

Init ==
  /\ store = EmptyMap
  /\ req = [p \in Procs |-> NoReq]
  /\ state = [p \in Procs |-> "idle"]
  /\ seen = [p \in Procs |-> EmptyMap]

Goto(p, s) == state' = [state EXCEPT ![p] = s]

Call(p, r) ==
  /\ state[p] = "idle"
  /\ req' = [req EXCEPT ![p] = r]
  /\ Goto(p, "open")
  /\ UNCHANGED <<store, seen>>

Update(p) ==
  /\ state[p] = "open" /\ req[p].op = "update"
  /\ store' = ApplyBatch(UpdateOp, store, req[p].batch)
  /\ Goto(p, "applied")
  /\ UNCHANGED <<req, seen>>

Read(p) ==
  /\ state[p] = "open" /\ req[p].op \in {"get", "getall"}
  /\ seen' = [seen EXCEPT ![p] = View(store, Asked(req[p]))]
  /\ Goto(p, "applied")
  /\ UNCHANGED <<store, req>>

\* The effect was not confirmed: it is had again.
Repeat(p) ==
  /\ state[p] = "applied"
  /\ seen' = [seen EXCEPT ![p] = EmptyMap]
  /\ Goto(p, "open")
  /\ UNCHANGED <<store, req>>

Fail(p) ==
  /\ state[p] \in {"open", "applied"}
  /\ seen' = [seen EXCEPT ![p] = EmptyMap]
  /\ Goto(p, "failed")
  /\ UNCHANGED <<store, req>>

\* Success if the call is applied, an error if it has failed.
Answer(p) ==
  /\ state[p] \in {"applied", "failed"}
  /\ req' = [req EXCEPT ![p] = NoReq]
  /\ seen' = [seen EXCEPT ![p] = EmptyMap]
  /\ Goto(p, "idle")
  /\ UNCHANGED store

\* The caller is told of an error while nobody knows what becomes of the call.
GiveUp(p) ==
  /\ state[p] = "open" /\ req[p].op = "update"
  /\ Goto(p, "adrift")
  /\ UNCHANGED <<store, req, seen>>

LateEnd(p) ==
  /\ state[p] = "adrift"
  /\ store' \in {store, ApplyBatch(UpdateOp, store, req[p].batch)}
  /\ req' = [req EXCEPT ![p] = NoReq]
  /\ Goto(p, "idle")
  /\ UNCHANGED seen

Next ==
  \E p \in Procs :
    \/ \E r \in Calls : Call(p, r)
    \/ Update(p) \/ Read(p) \/ Repeat(p) \/ Fail(p) \/ Answer(p)
    \/ GiveUp(p) \/ LateEnd(p)

Spec == Init /\ [][Next]_vars
=============================================================================
