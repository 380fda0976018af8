-------------------------------- MODULE PgTx ---------------------------------
(***************************************************************************)
(* The repository in PostgreSQL: PgSQL.ExecuteTx and the calls made of it, *)
(* on one table.  A call takes a connection from the pool, begins a        *)
(* transaction, executes its statements one by one, commits, and starts    *)
(* over if the error it met is one that IsRetryable knows.                 *)
(*                                                                         *)
(* Of PostgreSQL the model has what those statements rely on: an upsert    *)
(* locks its row until the transaction ends and computes on its last       *)
(* committed value; a SELECT sees the rows committed when it starts; of    *)
(* transactions that wait for one another in a circle one is refused.  A   *)
(* batch upserts its rows in the order of a Go map, which is any order.    *)
(*                                                                         *)
(* A connection may break at any point.  Before the COMMIT that is an      *)
(* error and a rollback; after it, nobody but the database knows.          *)
(***************************************************************************)
EXTENDS Metrics, FiniteSets

CONSTANTS Procs, UpdateOp, Calls,   \* as in DBStore
          NoProc,                   \* a row that is not locked
          PoolSizes,                \* MaxConns of the pool: {15} in Init
          MaxRetries                \* maxRetryes: 3

VARIABLES store,     \* the table: what has been committed
          owner,     \* who has locked each row, or NoProc
          maxConns,  \* the size of the pool
          closed,    \* the pool is closed
          pc,        \* where each call is
          req,       \* the call each handler makes
          want,      \* the row it waits for
          writes,    \* the rows its transaction has written
          attempt,   \* how often it has been retried
          res,       \* what it has read
          commits,   \* history: how often its batch was committed
          lost       \* history: commits it has not been told of

table == <<store, owner, writes, want>>
pool == <<maxConns, closed>>
history == <<commits, lost>>
vars == <<table, pool, pc, req, attempt, res, history>>

IsUpdate(p) == req[p].op = "update"

\* Where a call has a transaction open, and a connection of the pool with it.
InTx == {"run", "wait", "commit", "done", "broken"}
InUse == {p \in Procs : pc[p] \in InTx}

Owned(p) == {n \in Names : owner[n] = p}

\* The rows its loop over the batch has not come to yet.
ToLock(p) == Keys(req[p].batch) \ Owned(p)

(***************************************************************************)
(* The repository as its callers may know it.                              *)
(***************************************************************************)
AbsState ==
  [p \in Procs |->
     CASE pc[p] \in {"idle", "adrift"} -> pc[p]
       [] pc[p] \in {"done", "ok"} \/ (pc[p] = "commit" /\ ~IsUpdate(p))
            -> "applied"
       [] pc[p] = "error" -> "failed"
       [] OTHER -> "open"]

AbsSeen ==
  [p \in Procs |-> IF AbsState[p] = "applied" THEN res[p] ELSE EmptyMap]

DB == INSTANCE DBStore WITH state <- AbsState, seen <- AbsSeen

ASSUME PgTxAssumption ==
  /\ UpdateOp \in {"set", "accum"}
  /\ Calls \subseteq DB!Updates \cup DB!Gets \cup DB!GetAlls
  /\ IsFiniteSet(Procs) /\ NoProc \notin Procs
  /\ PoolSizes \subseteq Nat \ {0} /\ MaxRetries \in Nat

Init ==
  /\ store = EmptyMap
  /\ owner = [n \in Names |-> NoProc]
  /\ maxConns \in PoolSizes /\ closed = FALSE
  /\ pc = [p \in Procs |-> "idle"]
  /\ req = [p \in Procs |-> DB!NoReq]
  /\ want = [p \in Procs |-> Absent]
  /\ writes = [p \in Procs |-> EmptyMap]
  /\ attempt = [p \in Procs |-> 0]
  /\ res = [p \in Procs |-> EmptyMap]
  /\ commits = [p \in Procs |-> 0]
  /\ lost = [p \in Procs |-> 0]

Goto(p, l) == pc' = [pc EXCEPT ![p] = l]

\* The transaction of p ends: its locks are gone and so is what it wrote.
EndTx(p) ==
  /\ owner' = [n \in Names |-> IF owner[n] = p THEN NoProc ELSE owner[n]]
  /\ writes' = [writes EXCEPT ![p] = EmptyMap]
  /\ want' = [want EXCEPT ![p] = Absent]

\* Mutant of Retryable: a call is retried as long as it takes.
RetryableForEver(p) ==
  Goto(p, "delay") /\ attempt' = [attempt EXCEPT ![p] = @ + 1]

\* IsRetryable: a serialization failure, a deadlock, or class 08, with which
\* the server or a pooler before it reports on its connections.
Retryable(p) ==
  IF attempt[p] < MaxRetries
    THEN Goto(p, "delay") /\ attempt' = [attempt EXCEPT ![p] = @ + 1]
    ELSE Goto(p, "error") /\ UNCHANGED attempt

\* Any other error, a broken connection and a done context among them: by the
\* time IsRetryable compares it with the context's errors it is wrapped.
Final(p) == Goto(p, "error") /\ UNCHANGED attempt

Fails(p) == Retryable(p) \/ Final(p)

-----------------------------------------------------------------------------
(* ExecuteTx up to its statements. *)

Call(p, r) ==
  /\ pc[p] = "idle"
  /\ req' = [req EXCEPT ![p] = r]
  /\ Goto(p, "begin")
  /\ UNCHANGED <<table, pool, attempt, res, history>>

\* BeginTx waits for a connection of the pool.
Begin(p) ==
  /\ pc[p] = "begin" /\ ~closed
  /\ Cardinality(InUse) < maxConns
  /\ Goto(p, "run")
  /\ UNCHANGED <<table, pool, req, attempt, res, history>>

BeginFails(p) ==
  /\ pc[p] = "begin"
  /\ Fails(p)
  /\ UNCHANGED <<table, pool, req, res, history>>

\* After Close the pool hands out no connection.
PoolClosed(p) ==
  /\ pc[p] = "begin" /\ closed
  /\ Final(p)
  /\ UNCHANGED <<table, pool, req, res, history>>

\* The delay before the next attempt is over ...
Retry(p) ==
  /\ pc[p] = "delay"
  /\ Goto(p, "begin")
  /\ UNCHANGED <<table, pool, req, attempt, res, history>>

\* ... or the client has gone, and its request's context is done.
Cancelled(p) ==
  /\ pc[p] = "delay"
  /\ Final(p)
  /\ UNCHANGED <<table, pool, req, res, history>>

-----------------------------------------------------------------------------
(* The statements. *)

\* BIGINT does not wrap around: the upsert of a sum out of range is an error.
Overflows(p, n) ==
  UpdateOp = "accum" /\ store[n] # Absent /\ store[n] + req[p].batch[n] >= W

\* The upsert of row n, which no other transaction has locked.
Upsert(p, n) ==
  IF Overflows(p, n)
    THEN Final(p) /\ EndTx(p)
    ELSE /\ owner' = [owner EXCEPT ![n] = p]
         /\ writes' = [writes EXCEPT ![p][n] =
                         Merge(UpdateOp, store[n], req[p].batch[n])]
         /\ want' = [want EXCEPT ![p] = Absent]
         /\ Goto(p, "run")
         /\ UNCHANGED attempt

\* Mutant of Exec: the sum is computed without the row's lock.
ExecUnlocked(p) ==
  /\ pc[p] = "run" /\ IsUpdate(p)
  /\ \E n \in ToLock(p) : Upsert(p, n)
  /\ UNCHANGED <<store, pool, req, res, history>>

Exec(p) ==
  /\ pc[p] = "run" /\ IsUpdate(p)
  /\ \E n \in ToLock(p) : owner[n] = NoProc /\ Upsert(p, n)
  /\ UNCHANGED <<store, pool, req, res, history>>

\* Another transaction has locked the row, or is about to create it.
Block(p) ==
  /\ pc[p] = "run" /\ IsUpdate(p)
  /\ \E n \in ToLock(p) :
       owner[n] # NoProc /\ want' = [want EXCEPT ![p] = n]
  /\ Goto(p, "wait")
  /\ UNCHANGED <<store, owner, writes, pool, req, attempt, res, history>>

Granted(p) ==
  /\ pc[p] = "wait" /\ owner[want[p]] = NoProc
  /\ Upsert(p, want[p])
  /\ UNCHANGED <<store, pool, req, res, history>>

\* Transactions that wait for one another's rows in a circle.
Circle(D) ==
  /\ \A q \in D : pc[q] = "wait"
  /\ {owner[want[q]] : q \in D} = D

\* Mutant of Deadlock: only one that waits for itself is looked for.
DeadlockAlone(p) ==
  /\ pc[p] = "wait" /\ owner[want[p]] = p
  /\ Retryable(p) /\ EndTx(p)
  /\ UNCHANGED <<store, pool, req, res, history>>

\* PostgreSQL finds them after deadlock_timeout and refuses one of them.
Deadlock(p) ==
  /\ \E D \in SUBSET Procs : p \in D /\ Circle(D)
  /\ Retryable(p) /\ EndTx(p)
  /\ UNCHANGED <<store, pool, req, res, history>>

\* GetGauge, GetCounter: a row that does not exist is an error, which the
\* deferred Rollback follows, and which the caller makes "found nothing" of.
\* GetGaugeAll, GetCounterAll put the rows into one map over all attempts.
Read(p) ==
  /\ pc[p] = "run" /\ ~IsUpdate(p)
  /\ LET found == DB!View(store, DB!Asked(req[p]))
     IN  /\ res' = [res EXCEPT ![p] =
                      [n \in Names |-> IF found[n] # Absent THEN found[n]
                                       ELSE res[p][n]]]
         /\ Goto(p, IF req[p].op = "get" /\ found = EmptyMap
                      THEN "ok" ELSE "commit")
  /\ UNCHANGED <<table, pool, req, attempt, history>>

\* Mutant of ReadCut: the transaction is not committed, so nobody notices.
ReadCutUnseen(p) ==
  /\ pc[p] = "run" /\ req[p].op = "getall"
  /\ \E ns \in SUBSET Names :
       res' = [res EXCEPT ![p] = DB!View(store, ns)]
  /\ Goto(p, "ok")
  /\ UNCHANGED <<table, pool, req, attempt, history>>

\* The rows break off.  rows.Next says that there are no more, and nobody asks
\* rows.Err: it is the Commit that fails then.
ReadCut(p) ==
  /\ pc[p] = "run" /\ req[p].op = "getall"
  /\ \E ns \in SUBSET Names :
       res' = [res EXCEPT ![p] =
                 [n \in Names |-> IF n \in ns /\ store[n] # Absent
                                  THEN store[n] ELSE res[p][n]]]
  /\ Goto(p, "broken")
  /\ UNCHANGED <<table, pool, req, attempt, history>>

\* Mutant of StatementFails: there is no Rollback.
StatementFailsHeld(p) ==
  /\ pc[p] \in {"run", "wait", "broken"}
  /\ Fails(p) /\ want' = [want EXCEPT ![p] = Absent]
  /\ UNCHANGED <<store, owner, writes, pool, req, res, history>>

\* A statement fails, or the commit of a transaction that has failed.
StatementFails(p) ==
  /\ pc[p] \in {"run", "wait", "broken"}
  /\ Fails(p) /\ EndTx(p)
  /\ UNCHANGED <<store, pool, req, res, history>>

-----------------------------------------------------------------------------
(* The commit. *)

SendCommit(p) ==
  /\ pc[p] = "run" /\ IsUpdate(p) /\ ToLock(p) = {}
  /\ Goto(p, "commit")
  /\ UNCHANGED <<table, pool, req, attempt, res, history>>

\* What p has written becomes the value of its rows.
Publish(p) ==
  store' = [n \in Names |-> IF owner[n] = p THEN writes[p][n] ELSE store[n]]

\* Mutant of Commit: rows are published one by one, in the end or not.
CommitPart(p) ==
  /\ pc[p] = "commit"
  /\ IF IsUpdate(p)
       THEN /\ \E n \in Owned(p) :
                 store' = [store EXCEPT ![n] = writes[p][n]]
            /\ commits' = [commits EXCEPT ![p] = @ + 1]
       ELSE UNCHANGED <<store, commits>>
  /\ EndTx(p) /\ Goto(p, "done")
  /\ UNCHANGED <<pool, req, attempt, res, lost>>

\* The database commits ...
Commit(p) ==
  /\ pc[p] = "commit"
  /\ IF IsUpdate(p)
       THEN Publish(p) /\ commits' = [commits EXCEPT ![p] = @ + 1]
       ELSE UNCHANGED <<store, commits>>
  /\ EndTx(p) /\ Goto(p, "done")
  /\ UNCHANGED <<pool, req, attempt, res, lost>>

\* Mutant of CommitFails: the error of Commit is dropped.
CommitFailsUnseen(p) ==
  /\ pc[p] = "commit"
  /\ Goto(p, "ok") /\ EndTx(p)
  /\ UNCHANGED <<store, pool, req, attempt, res, history>>

CommitFails(p) ==
  /\ pc[p] = "commit"
  /\ Fails(p) /\ EndTx(p)
  /\ UNCHANGED <<store, pool, req, res, history>>

\* ... and says so,
Committed(p) ==
  /\ pc[p] = "done"
  /\ Goto(p, "ok")
  /\ UNCHANGED <<table, pool, req, attempt, res, history>>

\* but the answer does not arrive: a pooler reports class 08 in its place, upon
\* which the call is retried, or the connection breaks.
CommitLost(p) ==
  /\ pc[p] = "done"
  /\ lost' = [lost EXCEPT ![p] = @ + (IF IsUpdate(p) THEN 1 ELSE 0)]
  /\ Fails(p)
  /\ UNCHANGED <<table, pool, req, res, commits>>

\* The call gives up while COMMIT is on its way.  The connection is closed and
\* the handler answers 500; the database has the transaction still.
GiveUp(p) ==
  /\ pc[p] = "commit" /\ IsUpdate(p)
  /\ Goto(p, "adrift")
  /\ UNCHANGED <<table, pool, req, attempt, res, history>>

Reset(p) ==
  /\ Goto(p, "idle")
  /\ req' = [req EXCEPT ![p] = DB!NoReq]
  /\ res' = [res EXCEPT ![p] = EmptyMap]
  /\ attempt' = [attempt EXCEPT ![p] = 0]
  /\ commits' = [commits EXCEPT ![p] = 0]
  /\ lost' = [lost EXCEPT ![p] = 0]

LateEnd(p) ==
  /\ pc[p] = "adrift"
  /\ UNCHANGED store \/ Publish(p)
  /\ EndTx(p) /\ Reset(p)
  /\ UNCHANGED pool

Return(p) ==
  /\ pc[p] \in {"ok", "error"}
  /\ Reset(p)
  /\ UNCHANGED <<table, pool>>

\* Close of the pool, on a signal: it returns when no connection is in use.
Close ==
  /\ ~closed
  /\ closed' = TRUE
  /\ UNCHANGED <<table, maxConns, pc, req, attempt, res, history>>

-----------------------------------------------------------------------------
\* What goes on without an error from outside.
Step(p) ==
  \/ PoolClosed(p) \/ Retry(p) \/ Exec(p) \/ Block(p) \/ Read(p)
  \/ StatementFails(p) /\ pc[p] = "broken"
  \/ SendCommit(p) \/ Commit(p) \/ Committed(p) \/ LateEnd(p) \/ Return(p)

Error(p) ==
  \/ BeginFails(p) \/ Cancelled(p) \/ StatementFails(p) \/ ReadCut(p)
  \/ CommitFails(p) \/ CommitLost(p) \/ GiveUp(p)

Next ==
  \/ \E p \in Procs :
       \/ \E r \in Calls : Call(p, r)
       \/ Begin(p) \/ Granted(p) \/ Deadlock(p)
       \/ Step(p) \/ Error(p)
  \/ Close

Spec == Init /\ [][Next]_vars

(***************************************************************************)
(* The database answers, and its clients go on: each does what it can do.  *)
(* A connection given back goes to whoever has waited longest, and so does *)
(* the lock of a row: hence strong fairness.  Deadlocks are looked for.    *)
(***************************************************************************)
Fairness ==
  /\ \A p \in Procs : /\ WF_vars(Step(p))
                      /\ SF_vars(Begin(p)) /\ SF_vars(Granted(p))
  /\ WF_vars(\E p \in Procs : Deadlock(p))

FairSpec == Spec /\ Fairness

-----------------------------------------------------------------------------
(* Properties. *)

\* Every variable has its type, and the pool keeps to its limit.
TypeOK ==
  /\ store \in Map
  /\ owner \in [Names -> Procs \cup {NoProc}]
  /\ maxConns \in PoolSizes /\ closed \in BOOLEAN
  /\ pc \in [Procs -> {"idle", "begin", "delay", "ok", "error", "adrift"}
                        \cup InTx]
  /\ req \in [Procs -> Calls \cup {DB!NoReq}]
  /\ want \in [Procs -> Names \cup {Absent}]
  /\ writes \in [Procs -> Map]
  /\ attempt \in [Procs -> 0 .. MaxRetries]
  /\ res \in [Procs -> Map]
  /\ commits \in [Procs -> Nat] /\ lost \in [Procs -> Nat]
  /\ Cardinality(InUse) <= maxConns

\* What ExecuteTx reports is what happened, but for commits whose answer was
\* lost: a batch is committed once for each of them, and once more if the call
\* succeeds.  So without one, an error means no effect and success means one;
\* and however often it is retried, no batch is committed more than
\* MaxRetries + 1 times.
ToldTruly ==
  \A p \in Procs :
    /\ pc[p] = "ok" /\ IsUpdate(p) => commits[p] = lost[p] + 1
    /\ pc[p] = "error" => commits[p] = lost[p]
    /\ commits[p] <= MaxRetries + 1

\* What is locked is locked by an update in progress, and what that has written
\* there is due on top of what is committed now: nobody replaces it meanwhile.
RowsHeld ==
  \A p \in Procs : \A n \in Owned(p) :
    /\ IsUpdate(p) /\ pc[p] \in {"run", "wait", "commit", "adrift"}
    /\ n \in Keys(req[p].batch)
    /\ writes[p][n] = Merge(UpdateOp, store[n], req[p].batch[n])

\* A call is where its kind of call may be, and one that commits has locked all
\* rows of its batch.
CallsMatch ==
  \A p \in Procs :
    /\ (pc[p] = "idle") <=> (req[p] = DB!NoReq)
    /\ pc[p] \in {"wait", "adrift"} => IsUpdate(p)
    /\ pc[p] = "broken" => ~IsUpdate(p)
    /\ pc[p] = "wait" => want[p] \in ToLock(p)
    /\ pc[p] \in {"commit", "adrift"} /\ IsUpdate(p) => ToLock(p) = {}

\* What reads keep from one attempt to the next is in the table still, with
\* whatever value: the next attempt replaces it.
ReadsSound ==
  \A p \in Procs, n \in Names :
    res[p][n] # Absent =>
      /\ req[p].op \in {"get", "getall"} /\ n \in DB!Asked(req[p])
      /\ store[n] # Absent

\* The bookkeeping of ToldTruly; no answer is lost twice in one attempt.
Counted ==
  \A p \in Procs :
    /\ commits[p] =
         lost[p] + (IF IsUpdate(p) /\ pc[p] \in {"done", "ok"} THEN 1 ELSE 0)
    /\ lost[p] <= attempt[p] + (IF pc[p] = "error" THEN 1 ELSE 0)
    /\ pc[p] = "idle" => attempt[p] = 0 /\ lost[p] = 0

\* The inductive invariant behind ToldTruly and Implements.
IInv == TypeOK /\ RowsHeld /\ CallsMatch /\ ReadsSound /\ Counted

\* The repository in PostgreSQL keeps the promise of DBStore: transactions take
\* effect as a whole and one after the other, no update is computed on a value
\* that another has replaced, and a read that succeeds has seen all its rows.
Implements == DB!Spec

\* Every call returns, whatever rows the others hold: a circle is broken, and
\* retries come to an end.
CallsReturn == \A p \in Procs : pc[p] = "begin" ~> pc[p] = "idle"

\* After a signal the pool's Close returns: all connections come back.
CloseReturns == closed ~> InUse = {}
=============================================================================
