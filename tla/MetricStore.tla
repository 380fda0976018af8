----------------------------- MODULE MetricStore -----------------------------
(***************************************************************************)
(* What a repository of metrics of one kind promises to concurrent callers *)
(* (the interfaces MetricsGetters and MetricsSetters of package repo): each *)
(* update, of one metric or of a batch of them, and each read of one       *)
(* metric takes effect at one instant between its call and its return.     *)
(* Reading all metrics hands out the live map itself and promises nothing  *)
(* about what the caller then finds in it.                                 *)
(***************************************************************************)
EXTENDS Metrics

CONSTANTS Procs,      \* the goroutines that call the repository
          UpdateOp,   \* what its updates do: "set" (gauges), "accum" (counters)
          Inputs      \* the values callers pass in updates

VARIABLES store,   \* the metrics, as callers may know them
          req,     \* the call of each process, NoReq when it has none
          done,    \* whether that call has taken effect
          res      \* what a read of one metric has found

vars == <<store, req, done, res>>

NoReq == [op |-> "none"]
UpdateReq == [op : {UpdateOp}, batch : [Names -> Inputs \cup {Absent}]]
GetReq == [op : {"get"}, name : Names]
GetAllReq == [op : {"getall"}]
Requests == UpdateReq \cup GetReq \cup GetAllReq

Init ==
  /\ store = EmptyMap
  /\ req = [p \in Procs |-> NoReq]
  /\ done = [p \in Procs |-> FALSE]
  /\ res = [p \in Procs |-> Absent]

Call(p, r) ==
  /\ req[p] = NoReq
  /\ req' = [req EXCEPT ![p] = r]
  /\ UNCHANGED <<store, done, res>>

Update(p) ==
  /\ req[p] \in UpdateReq /\ ~done[p]
  /\ store' = ApplyBatch(req[p].op, store, req[p].batch)
  /\ done' = [done EXCEPT ![p] = TRUE]
  /\ UNCHANGED <<req, res>>

Get(p) ==
  /\ req[p] \in GetReq /\ ~done[p]
  /\ res' = [res EXCEPT ![p] = store[req[p].name]]
  /\ done' = [done EXCEPT ![p] = TRUE]
  /\ UNCHANGED <<store, req>>

GetAll(p) ==
  /\ req[p] \in GetAllReq /\ ~done[p]
  /\ done' = [done EXCEPT ![p] = TRUE]
  /\ UNCHANGED <<store, req, res>>

Return(p) ==
  /\ done[p]
  /\ req' = [req EXCEPT ![p] = NoReq]
  /\ done' = [done EXCEPT ![p] = FALSE]
  /\ res' = [res EXCEPT ![p] = Absent]
  /\ UNCHANGED store

Next ==
  \E p \in Procs :
    \/ \E r \in Requests : Call(p, r)
    \/ Update(p)
    \/ Get(p)
    \/ GetAll(p)
    \/ Return(p)

Spec == Init /\ [][Next]_vars
=============================================================================
