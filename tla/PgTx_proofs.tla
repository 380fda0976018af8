----------------------------- MODULE PgTx_proofs -----------------------------
(***************************************************************************)
(* Proofs about PgTx, for any number of handlers, rows, connections and    *)
(* retries: what ExecuteTx reports is true but for lost answers, and the   *)
(* repository implements DBStore.                                          *)
(***************************************************************************)
EXTENDS PgTx, FiniteSetTheorems, TLAPS

\* The kinds of call are told apart by their op.
LEMMA CallKinds ==
  ASSUME NEW r \in Calls \cup {DB!NoReq}
  PROVE  /\ r.op \in {"none", "update", "get", "getall"}
         /\ r.op = "update" => r.batch \in Map
         /\ r.op = "get" => r.name \in Names
         /\ (r.op = "none") <=> (r = DB!NoReq)
         /\ r \in Calls => r # DB!NoReq
<1>1. r = DB!NoReq \/ r \in DB!Updates \/ r \in DB!Gets \/ r \in DB!GetAlls
  BY PgTxAssumption
<1>2. \A x \in DB!Updates : x.op = "update" /\ x.batch \in Map
  BY DEF DB!Updates, DB!Map, DB!Val, Map, Val
<1>3. \A x \in DB!Gets : x.op = "get" /\ x.name \in Names
  BY DEF DB!Gets
<1>4. \A x \in DB!GetAlls : x.op = "getall"
  BY DEF DB!GetAlls
<1>5. DB!NoReq.op = "none"
  BY DEF DB!NoReq
<1>6. r \in Calls => r \in DB!Updates \cup DB!Gets \cup DB!GetAlls
  BY PgTxAssumption
<1> QED
  BY <1>1, <1>2, <1>3, <1>4, <1>5, <1>6

\* What an upsert writes is a value.
LEMMA MergeType ==
  ASSUME NEW old0 \in Val \cup {Absent}, NEW v \in Val
  PROVE  Merge(UpdateOp, old0, v) \in Val
<1>1. W \in Nat \ {0} /\ Absent \notin Val
  BY MetricsAssumption
<1>2. CASE UpdateOp = "accum" /\ old0 # Absent
  <2>1. old0 + v \in Int
    BY <1>2 DEF Val
  <2>2. (old0 + v) % W \in 0 .. W - 1
    BY <1>1, <2>1
  <2> QED
    BY <1>2, <2>2 DEF Merge, Val
<1>3. CASE ~(UpdateOp = "accum" /\ old0 # Absent)
  BY <1>3 DEF Merge
<1> QED
  BY <1>2, <1>3

\* Connections that are given back leave the pool within its limit.
LEMMA PoolKept ==
  ASSUME NEW S, NEW T, NEW k \in Nat, IsFiniteSet(S), T \subseteq S,
         Cardinality(S) <= k
  PROVE  Cardinality(T) <= k
<1>1. /\ IsFiniteSet(T) /\ Cardinality(T) <= Cardinality(S)
  BY FS_Subset
<1>2. Cardinality(T) \in Nat /\ Cardinality(S) \in Nat
  BY <1>1, FS_CardinalityType
<1> QED
  BY <1>1, <1>2

LEMMA InUseFinite == IsFiniteSet(InUse)
BY PgTxAssumption, FS_Subset DEF InUse

\* A call whose pc moves to l keeps the pool within its limit unless it takes a
\* connection.
LEMMA PoolAfter ==
  ASSUME TypeOK, NEW p \in Procs, NEW l, pc' = [pc EXCEPT ![p] = l],
         pc[p] \in InTx \/ l \notin InTx, maxConns' = maxConns
  PROVE  Cardinality(InUse') <= maxConns'
<1>1. InUse' \subseteq InUse
  BY DEF InUse, TypeOK, InTx
<1>2. maxConns \in Nat
  BY PgTxAssumption DEF TypeOK
<1> QED
  BY <1>1, <1>2, InUseFinite, PoolKept DEF TypeOK

\* An attempt that fails is followed by another or by an error.
LEMMA FailsTo ==
  ASSUME TypeOK, NEW p \in Procs, Fails(p)
  PROVE  \E l \in {"delay", "error"} :
           /\ pc' = [pc EXCEPT ![p] = l]
           /\ attempt' \in [Procs -> 0 .. MaxRetries]
           /\ \A q \in Procs \ {p} : attempt'[q] = attempt[q]
           /\ l = "delay" => attempt'[p] = attempt[p] + 1
           /\ l = "error" => attempt'[p] = attempt[p]
<1>1. MaxRetries \in Nat
  BY PgTxAssumption
<1> QED
  BY <1>1 DEF Fails, Retryable, Final, Goto, TypeOK

LEMMA InitIInv == Init => IInv
<1> SUFFICES ASSUME Init
             PROVE  IInv
  OBVIOUS
<1>1. InUse = {}
  BY DEF Init, InUse, InTx
<1>2. Cardinality(InUse) = 0
  BY <1>1, FS_EmptySet
<1>8. Cardinality(InUse) <= maxConns
  BY <1>2, PgTxAssumption DEF Init
<1>9. EmptyMap \in Map
  BY DEF EmptyMap, Map
<1>10. 0 \in 0 .. MaxRetries /\ "idle" \notin InTx
  BY PgTxAssumption DEF InTx
<1>3. TypeOK
  BY <1>8, <1>9, <1>10 DEF Init, TypeOK
<1>4. DB!NoReq.op = "none"
  BY DEF DB!NoReq
<1>5. RowsHeld
  BY PgTxAssumption DEF Init, RowsHeld, Owned
<1>6. CallsMatch
  BY <1>4 DEF Init, CallsMatch, IsUpdate
<1>7. ReadsSound /\ Counted
  BY <1>4 DEF Init, ReadsSound, Counted, EmptyMap, IsUpdate
<1> QED
  BY <1>3, <1>5, <1>6, <1>7 DEF IInv

-----------------------------------------------------------------------------
(* The steps that several actions have in common. *)

\* An attempt fails before it has a transaction.
LEMMA NotBegun ==
  ASSUME IInv, NEW p \in Procs, pc[p] \in {"begin", "delay"}, Fails(p),
         UNCHANGED <<table, pool, req, res, history>>
  PROVE  IInv'
<1>1. PICK l \in {"delay", "error"} :
        /\ pc' = [pc EXCEPT ![p] = l]
        /\ attempt' \in [Procs -> 0 .. MaxRetries]
        /\ \A q \in Procs \ {p} : attempt'[q] = attempt[q]
        /\ l = "delay" => attempt'[p] = attempt[p] + 1
        /\ l = "error" => attempt'[p] = attempt[p]
  BY FailsTo DEF IInv
<1>2. Cardinality(InUse') <= maxConns'
  BY <1>1, PoolAfter DEF IInv, InTx, pool
<1> USE DEF table, pool, history, Owned, IsUpdate, ToLock
<1>3. TypeOK'
  BY <1>1, <1>2 DEF IInv, TypeOK
<1>4. RowsHeld'
  BY <1>1 DEF IInv, TypeOK, RowsHeld
<1>5. CallsMatch'
  BY <1>1 DEF IInv, TypeOK, CallsMatch
<1>6. ReadsSound'
  BY <1>1 DEF IInv, ReadsSound
<1>7. Counted'
  BY <1>1 DEF IInv, TypeOK, Counted
<1> QED
  BY <1>3, <1>4, <1>5, <1>6, <1>7 DEF IInv

\* An attempt fails inside its transaction, which is rolled back.
LEMMA RolledBack ==
  ASSUME IInv, NEW p \in Procs, pc[p] \in {"run", "wait", "broken", "commit"},
         Fails(p), EndTx(p), UNCHANGED <<store, pool, req, res, history>>
  PROVE  IInv'
<1>1. PICK l \in {"delay", "error"} :
        /\ pc' = [pc EXCEPT ![p] = l]
        /\ attempt' \in [Procs -> 0 .. MaxRetries]
        /\ \A q \in Procs \ {p} : attempt'[q] = attempt[q]
        /\ l = "delay" => attempt'[p] = attempt[p] + 1
        /\ l = "error" => attempt'[p] = attempt[p]
  BY FailsTo DEF IInv
<1>2. Cardinality(InUse') <= maxConns'
  BY <1>1, PoolAfter DEF IInv, InTx, pool
<1> USE DEF pool, history, Owned, IsUpdate, ToLock, EndTx
<1>3. TypeOK'
  BY <1>1, <1>2 DEF IInv, TypeOK, EmptyMap, Map
<1>4. RowsHeld'
  BY <1>1, PgTxAssumption DEF IInv, TypeOK, RowsHeld
<1>5. CallsMatch'
  BY <1>1, PgTxAssumption DEF IInv, TypeOK, CallsMatch
<1>6. ReadsSound'
  BY <1>1 DEF IInv, ReadsSound
<1>7. Counted'
  BY <1>1 DEF IInv, TypeOK, Counted
<1> QED
  BY <1>3, <1>4, <1>5, <1>6, <1>7 DEF IInv

\* A commit publishes values, in the rows of its transaction only.
LEMMA PublishType ==
  ASSUME IInv, NEW p \in Procs, Publish(p)
  PROVE  /\ store' \in Map
         /\ \A n \in Names : owner[n] # p => store'[n] = store[n]
         /\ \A n \in Names : store[n] # Absent => store'[n] # Absent
<1>1. \A n \in Names : owner[n] = p => writes[p][n] \in Val
  <2> SUFFICES ASSUME NEW n \in Names, owner[n] = p
               PROVE  writes[p][n] \in Val
    OBVIOUS
  <2>1. /\ n \in Owned(p) /\ IsUpdate(p) /\ req[p].batch[n] # Absent
        /\ writes[p][n] = Merge(UpdateOp, store[n], req[p].batch[n])
    BY DEF IInv, RowsHeld, Owned, Keys
  <2>2. req[p].batch[n] \in Val
    BY <2>1, CallKinds DEF IInv, TypeOK, IsUpdate, Map
  <2> QED
    BY <2>1, <2>2, MergeType DEF IInv, TypeOK, Map
<1>2. Absent \notin Val
  BY MetricsAssumption
<1> QED
  BY <1>1, <1>2 DEF Publish, IInv, TypeOK, Map

\* A row that nobody has locked is written.
LEMMA Upserted ==
  ASSUME IInv, NEW p \in Procs, IsUpdate(p), pc[p] \in {"run", "wait"},
         NEW n \in ToLock(p), owner[n] = NoProc, Upsert(p, n),
         UNCHANGED <<store, pool, req, res, history>>
  PROVE  IInv'
<1>1. CASE Overflows(p, n)
  BY <1>1, RolledBack DEF Upsert, Fails
<1>2. CASE ~Overflows(p, n)
  <2>1. /\ owner' = [owner EXCEPT ![n] = p]
        /\ writes' = [writes EXCEPT ![p][n] =
                        Merge(UpdateOp, store[n], req[p].batch[n])]
        /\ want' = [want EXCEPT ![p] = Absent]
        /\ pc' = [pc EXCEPT ![p] = "run"]
        /\ UNCHANGED attempt
    BY <1>2 DEF Upsert, Goto
  <2>2. n \in Names /\ req[p].batch \in Map /\ req[p].batch[n] \in Val
    BY CallKinds DEF ToLock, Keys, IInv, TypeOK, IsUpdate, Map
  <2>3. Merge(UpdateOp, store[n], req[p].batch[n]) \in Val
    BY <2>2, MergeType DEF IInv, TypeOK, Map
  <2>4. Cardinality(InUse') <= maxConns'
    BY <2>1, PoolAfter DEF IInv, InTx, pool
  <2> USE DEF pool, history, Owned, IsUpdate, ToLock
  <2>5. TypeOK'
    BY <2>1, <2>2, <2>3, <2>4 DEF IInv, TypeOK, Map, InTx
  <2>6. RowsHeld'
    <3> SUFFICES ASSUME NEW q \in Procs, NEW m \in Owned(q)'
                 PROVE  /\ IsUpdate(q)'
                        /\ pc'[q] \in {"run", "wait", "commit", "adrift"}
                        /\ m \in Keys(req'[q].batch)
                        /\ writes'[q][m] =
                             Merge(UpdateOp, store'[m], req'[q].batch[m])
      BY DEF RowsHeld
    <3>1. CASE m = n
      <4>1. q = p
        BY <3>1, <2>1, <2>2 DEF IInv, TypeOK
      <4> QED
        BY <3>1, <4>1, <2>1, <2>2 DEF IInv, TypeOK, Map
    <3>2. CASE m # n
      <4>1. m \in Owned(q)
        BY <3>2, <2>1 DEF IInv, TypeOK
      <4>2. writes'[q][m] = writes[q][m]
        BY <3>2, <2>1, <2>2 DEF IInv, TypeOK, Map
      <4> QED
        BY <4>1, <4>2, <2>1 DEF IInv, TypeOK, RowsHeld
    <3> QED
      BY <3>1, <3>2
  <2>7. CallsMatch'
    BY <2>1, <2>2, PgTxAssumption DEF IInv, TypeOK, CallsMatch
  <2>8. ReadsSound'
    BY <2>1 DEF IInv, ReadsSound
  <2>9. Counted'
    BY <2>1 DEF IInv, TypeOK, Counted
  <2> QED
    BY <2>5, <2>6, <2>7, <2>8, <2>9 DEF IInv
<1> QED
  BY <1>1, <1>2

-----------------------------------------------------------------------------
(* Every step preserves the invariant. *)

LEMMA StepIInv == IInv /\ [Next]_vars => IInv'
<1> SUFFICES ASSUME IInv, [Next]_vars
             PROVE  IInv'
  OBVIOUS
<1> USE DEF table, pool, history, Goto, Owned, IsUpdate, ToLock
<1>1. ASSUME NEW p \in Procs, NEW r \in Calls, Call(p, r)
      PROVE  IInv'
  <2>1. r # DB!NoReq /\ pc' = [pc EXCEPT ![p] = "begin"]
    BY <1>1, CallKinds DEF Call
  <2>2. Cardinality(InUse') <= maxConns'
    BY <1>1, <2>1, PoolAfter DEF IInv, InTx, Call
  <2>3. TypeOK'
    BY <1>1, <2>2 DEF IInv, TypeOK, Call
  <2>4. RowsHeld'
    BY <1>1 DEF IInv, TypeOK, RowsHeld, Call
  <2>5. CallsMatch'
    BY <1>1, <2>1 DEF IInv, TypeOK, CallsMatch, Call
  <2>6. req[p].op = "none"
    BY <1>1 DEF IInv, CallsMatch, Call, DB!NoReq
  <2>7. ReadsSound'
    BY <1>1, <2>6 DEF IInv, TypeOK, ReadsSound, Call
  <2>8. Counted'
    BY <1>1 DEF IInv, TypeOK, Counted, Call
  <2> QED
    BY <2>3, <2>4, <2>5, <2>7, <2>8 DEF IInv
<1>2. ASSUME NEW p \in Procs, Begin(p)
      PROVE  IInv'
  <2>1. InUse' = InUse \cup {p} /\ p \notin InUse
    BY <1>2 DEF IInv, TypeOK, InUse, InTx, Begin
  <2>2. Cardinality(InUse') = Cardinality(InUse) + 1
    BY <2>1, InUseFinite, FS_AddElement
  <2>3. Cardinality(InUse) \in Nat /\ maxConns \in Nat
    BY InUseFinite, FS_CardinalityType, PgTxAssumption DEF IInv, TypeOK
  <2>4. Cardinality(InUse') <= maxConns'
    BY <1>2, <2>2, <2>3 DEF Begin
  <2>5. TypeOK'
    BY <1>2, <2>4 DEF IInv, TypeOK, Begin, InTx
  <2>6. RowsHeld'
    BY <1>2 DEF IInv, TypeOK, RowsHeld, Begin
  <2>7. CallsMatch'
    BY <1>2 DEF IInv, TypeOK, CallsMatch, Begin
  <2>8. ReadsSound' /\ Counted'
    BY <1>2 DEF IInv, TypeOK, ReadsSound, Counted, Begin
  <2> QED
    BY <2>5, <2>6, <2>7, <2>8 DEF IInv
<1>3. ASSUME NEW p \in Procs, BeginFails(p) \/ PoolClosed(p) \/ Cancelled(p)
      PROVE  IInv'
  BY <1>3, NotBegun DEF BeginFails, PoolClosed, Cancelled, Fails
<1>4. ASSUME NEW p \in Procs, Retry(p)
      PROVE  IInv'
  <2>1. Cardinality(InUse') <= maxConns'
    BY <1>4, PoolAfter DEF IInv, InTx, Retry
  <2>2. TypeOK'
    BY <1>4, <2>1 DEF IInv, TypeOK, Retry
  <2>3. RowsHeld' /\ CallsMatch'
    BY <1>4 DEF IInv, TypeOK, RowsHeld, CallsMatch, Retry
  <2>4. ReadsSound' /\ Counted'
    BY <1>4 DEF IInv, TypeOK, ReadsSound, Counted, Retry
  <2> QED
    BY <2>2, <2>3, <2>4 DEF IInv
<1>5. ASSUME NEW p \in Procs, Exec(p) \/ Granted(p)
      PROVE  IInv'
  <2>1. PICK n \in ToLock(p) : owner[n] = NoProc /\ Upsert(p, n)
    BY <1>5 DEF Exec, Granted, IInv, CallsMatch
  <2>2. IsUpdate(p) /\ pc[p] \in {"run", "wait"}
    BY <1>5 DEF Exec, Granted, IInv, CallsMatch
  <2>3. UNCHANGED <<store, pool, req, res, history>>
    BY <1>5 DEF Exec, Granted
  <2> QED
    BY <2>1, <2>2, <2>3, Upserted
<1>6. ASSUME NEW p \in Procs, Block(p)
      PROVE  IInv'
  <2>1. PICK n \in ToLock(p) : want' = [want EXCEPT ![p] = n]
    BY <1>6 DEF Block
  <2>2. Cardinality(InUse') <= maxConns'
    BY <1>6, PoolAfter DEF IInv, InTx, Block
  <2>3. TypeOK'
    BY <1>6, <2>1, <2>2 DEF IInv, TypeOK, Block, Keys, InTx
  <2>4. RowsHeld'
    BY <1>6 DEF IInv, TypeOK, RowsHeld, Block
  <2>5. CallsMatch'
    BY <1>6, <2>1 DEF IInv, TypeOK, CallsMatch, Block
  <2>6. ReadsSound' /\ Counted'
    BY <1>6 DEF IInv, TypeOK, ReadsSound, Counted, Block
  <2> QED
    BY <2>3, <2>4, <2>5, <2>6 DEF IInv
<1>7. ASSUME NEW p \in Procs, Deadlock(p) \/ StatementFails(p) \/ CommitFails(p)
      PROVE  IInv'
  <2>1. pc[p] \in {"run", "wait", "broken", "commit"}
    BY <1>7 DEF Deadlock, Circle, StatementFails, CommitFails
  <2>2. Fails(p) /\ EndTx(p) /\ UNCHANGED <<store, pool, req, res, history>>
    BY <1>7 DEF Deadlock, StatementFails, CommitFails, Fails
  <2> QED
    BY <2>1, <2>2, RolledBack
<1>8. ASSUME NEW p \in Procs, Read(p) \/ ReadCut(p)
      PROVE  IInv'
  <2>1. /\ pc[p] = "run" /\ req[p].op \in {"get", "getall"}
        /\ UNCHANGED <<table, pool, req, attempt, history>>
    BY <1>8, CallKinds DEF Read, ReadCut, IInv, TypeOK, CallsMatch
  <2>2. PICK l \in {"ok", "commit", "broken"} : pc' = [pc EXCEPT ![p] = l]
    BY <1>8 DEF Read, ReadCut
  <2>3. PICK new \in [Names -> Val \cup {Absent}] :
          /\ res' = [res EXCEPT ![p] = new]
          /\ \A n \in Names :
               new[n] # Absent =>
                 \/ new[n] = res[p][n]
                 \/ n \in DB!Asked(req[p]) /\ store[n] # Absent
    <3>1. CASE Read(p)
      <4> DEFINE found == DB!View(store, DB!Asked(req[p]))
                 new == [n \in Names |-> IF found[n] # Absent THEN found[n]
                                         ELSE res[p][n]]
      <4>1. \A n \in Names :
              /\ found[n] \in Val \cup {Absent}
              /\ found[n] # Absent =>
                   n \in DB!Asked(req[p]) /\ store[n] # Absent
        BY DEF DB!View, IInv, TypeOK, Map
      <4>2. new \in [Names -> Val \cup {Absent}]
        BY <4>1 DEF IInv, TypeOK, Map
      <4>3. res' = [res EXCEPT ![p] = new]
        BY <3>1 DEF Read
      <4>4. \A n \in Names :
              new[n] # Absent =>
                \/ new[n] = res[p][n]
                \/ n \in DB!Asked(req[p]) /\ store[n] # Absent
        BY <4>1
      <4> QED
        BY <4>2, <4>3, <4>4
    <3>2. CASE ReadCut(p)
      <4>1. PICK ns \in SUBSET Names :
              res' = [res EXCEPT ![p] =
                        [n \in Names |-> IF n \in ns /\ store[n] # Absent
                                         THEN store[n] ELSE res[p][n]]]
        BY <3>2 DEF ReadCut
      <4>2. DB!Asked(req[p]) = Names
        BY <3>2 DEF ReadCut, DB!Asked
      <4> DEFINE new == [n \in Names |-> IF n \in ns /\ store[n] # Absent
                                         THEN store[n] ELSE res[p][n]]
      <4>3. new \in [Names -> Val \cup {Absent}]
        BY DEF IInv, TypeOK, Map
      <4> QED
        BY <4>1, <4>2, <4>3
    <3> QED
      BY <1>8, <3>1, <3>2
  <2>4. Cardinality(InUse') <= maxConns'
    BY <2>1, <2>2, PoolAfter DEF IInv, InTx
  <2>5. TypeOK'
    BY <2>1, <2>2, <2>3, <2>4 DEF IInv, TypeOK, Map, InTx
  <2>6. RowsHeld'
    BY <2>1, <2>2 DEF IInv, TypeOK, RowsHeld
  <2>7. CallsMatch'
    BY <2>1, <2>2 DEF IInv, TypeOK, CallsMatch
  <2>8. ReadsSound'
    BY <2>1, <2>3 DEF IInv, TypeOK, ReadsSound
  <2>9. Counted'
    BY <2>1, <2>2 DEF IInv, TypeOK, Counted
  <2> QED
    BY <2>5, <2>6, <2>7, <2>8, <2>9 DEF IInv
<1>9. ASSUME NEW p \in Procs, SendCommit(p)
      PROVE  IInv'
  <2>1. Cardinality(InUse') <= maxConns'
    BY <1>9, PoolAfter DEF IInv, InTx, SendCommit
  <2>2. TypeOK'
    BY <1>9, <2>1 DEF IInv, TypeOK, InTx, SendCommit
  <2>3. RowsHeld' /\ CallsMatch'
    BY <1>9 DEF IInv, TypeOK, RowsHeld, CallsMatch, SendCommit
  <2>4. ReadsSound' /\ Counted'
    BY <1>9 DEF IInv, TypeOK, ReadsSound, Counted, SendCommit
  <2> QED
    BY <2>2, <2>3, <2>4 DEF IInv
<1>10. ASSUME NEW p \in Procs, Commit(p)
       PROVE  IInv'
  <2>1. /\ pc[p] = "commit" /\ pc' = [pc EXCEPT ![p] = "done"]
        /\ EndTx(p) /\ UNCHANGED <<pool, req, attempt, res, lost>>
    BY <1>10 DEF Commit
  <2>2. Cardinality(InUse') <= maxConns'
    BY <2>1, PoolAfter DEF IInv, InTx
  <2>3. /\ store' \in Map
        /\ \A n \in Names : owner[n] # p => store'[n] = store[n]
        /\ \A n \in Names : store[n] # Absent => store'[n] # Absent
    BY <1>10, PublishType DEF Commit, IInv, TypeOK, Map
  <2>4. commits' = [commits EXCEPT ![p] = @ + (IF IsUpdate(p) THEN 1 ELSE 0)]
    BY <1>10 DEF Commit, IInv, TypeOK
  <2>5. TypeOK'
    BY <2>1, <2>2, <2>3, <2>4 DEF IInv, TypeOK, InTx, EndTx, EmptyMap, Map
  <2>6. RowsHeld'
    BY <2>1, <2>3, PgTxAssumption DEF IInv, TypeOK, RowsHeld, EndTx
  <2>7. CallsMatch'
    BY <2>1, PgTxAssumption DEF IInv, TypeOK, CallsMatch, EndTx
  <2>8. ReadsSound'
    BY <2>1, <2>3 DEF IInv, TypeOK, ReadsSound
  <2>9. Counted'
    BY <2>1, <2>4 DEF IInv, TypeOK, Counted
  <2> QED
    BY <2>5, <2>6, <2>7, <2>8, <2>9 DEF IInv
<1>11. ASSUME NEW p \in Procs, Committed(p)
       PROVE  IInv'
  <2>1. Cardinality(InUse') <= maxConns'
    BY <1>11, PoolAfter DEF IInv, InTx, Committed
  <2>2. TypeOK'
    BY <1>11, <2>1 DEF IInv, TypeOK, Committed
  <2>3. RowsHeld' /\ CallsMatch'
    BY <1>11 DEF IInv, TypeOK, RowsHeld, CallsMatch, Committed
  <2>4. ReadsSound' /\ Counted'
    BY <1>11 DEF IInv, TypeOK, ReadsSound, Counted, Committed
  <2> QED
    BY <2>2, <2>3, <2>4 DEF IInv
<1>12. ASSUME NEW p \in Procs, CommitLost(p)
       PROVE  IInv'
  <2>1. PICK l \in {"delay", "error"} :
          /\ pc' = [pc EXCEPT ![p] = l]
          /\ attempt' \in [Procs -> 0 .. MaxRetries]
          /\ \A q \in Procs \ {p} : attempt'[q] = attempt[q]
          /\ l = "delay" => attempt'[p] = attempt[p] + 1
          /\ l = "error" => attempt'[p] = attempt[p]
    BY <1>12, FailsTo DEF IInv, CommitLost
  <2>2. Cardinality(InUse') <= maxConns'
    BY <1>12, <2>1, PoolAfter DEF IInv, InTx, CommitLost
  <2>3. TypeOK'
    BY <1>12, <2>1, <2>2 DEF IInv, TypeOK, CommitLost
  <2>4. RowsHeld' /\ CallsMatch'
    BY <1>12, <2>1 DEF IInv, TypeOK, RowsHeld, CallsMatch, CommitLost
  <2>5. ReadsSound'
    BY <1>12 DEF IInv, ReadsSound, CommitLost
  <2>6. Counted'
    BY <1>12, <2>1 DEF IInv, TypeOK, Counted, CommitLost
  <2> QED
    BY <2>3, <2>4, <2>5, <2>6 DEF IInv
<1>13. ASSUME NEW p \in Procs, GiveUp(p)
       PROVE  IInv'
  <2>1. Cardinality(InUse') <= maxConns'
    BY <1>13, PoolAfter DEF IInv, InTx, GiveUp
  <2>2. TypeOK'
    BY <1>13, <2>1 DEF IInv, TypeOK, GiveUp
  <2>3. RowsHeld' /\ CallsMatch'
    BY <1>13 DEF IInv, TypeOK, RowsHeld, CallsMatch, GiveUp
  <2>4. ReadsSound' /\ Counted'
    BY <1>13 DEF IInv, TypeOK, ReadsSound, Counted, GiveUp
  <2> QED
    BY <2>2, <2>3, <2>4 DEF IInv
<1>14. ASSUME NEW p \in Procs, LateEnd(p) \/ Return(p)
       PROVE  IInv'
  <2>1. /\ Reset(p) /\ UNCHANGED pool
        /\ pc[p] \in {"adrift", "ok", "error"}
        /\ \/ EndTx(p)
           \/ Owned(p) = {} /\ UNCHANGED <<owner, writes, want>>
    <3>1. CASE LateEnd(p)
      BY <3>1 DEF LateEnd
    <3>2. CASE Return(p)
      <4>1. Owned(p) = {}
        BY <3>2 DEF Return, IInv, RowsHeld
      <4> QED
        BY <3>2, <4>1 DEF Return
    <3> QED
      BY <1>14, <3>1, <3>2
  <2>2. Cardinality(InUse') <= maxConns'
    BY <2>1, PoolAfter DEF IInv, InTx, Reset
  <2>3. /\ store' \in Map
        /\ \A n \in Names : owner[n] # p => store'[n] = store[n]
        /\ \A n \in Names : store[n] # Absent => store'[n] # Absent
    BY <1>14, PublishType DEF LateEnd, Return, IInv, TypeOK, Map
  <2>9. EmptyMap \in Map /\ 0 \in 0 .. MaxRetries
    BY PgTxAssumption DEF EmptyMap, Map
  <2>10. /\ owner' \in [Names -> Procs \cup {NoProc}]
         /\ writes' \in [Procs -> Map]
         /\ want' \in [Procs -> Names \cup {Absent}]
    BY <2>1, <2>9 DEF IInv, TypeOK, EndTx
  <2>4. TypeOK'
    BY <2>1, <2>2, <2>3, <2>9, <2>10 DEF IInv, TypeOK, Reset
  <2>5. RowsHeld'
    BY <2>1, <2>3, PgTxAssumption DEF IInv, TypeOK, RowsHeld, EndTx, Reset
  <2>6. CallsMatch'
    BY <2>1, PgTxAssumption DEF IInv, TypeOK, CallsMatch, EndTx, Reset, DB!NoReq
  <2>7. ReadsSound'
    BY <2>1, <2>3 DEF IInv, TypeOK, ReadsSound, Reset, EmptyMap
  <2>8. Counted'
    BY <2>1 DEF IInv, TypeOK, Counted, Reset, DB!NoReq
  <2> QED
    BY <2>4, <2>5, <2>6, <2>7, <2>8 DEF IInv
<1>15. CASE Close
  <2>1. InUse' = InUse
    BY <1>15 DEF Close, InUse
  <2> QED
    BY <1>15, <2>1 DEF Close, IInv, TypeOK, RowsHeld, CallsMatch, ReadsSound,
       Counted
<1>16. CASE UNCHANGED vars
  <2>1. InUse' = InUse
    BY <1>16 DEF vars, InUse
  <2> QED
    BY <1>16, <2>1 DEF vars, IInv, TypeOK, RowsHeld, CallsMatch, ReadsSound,
       Counted
<1> QED
  BY <1>1, <1>2, <1>3, <1>4, <1>5, <1>6, <1>7, <1>8, <1>9, <1>10, <1>11, <1>12,
     <1>13, <1>14, <1>15, <1>16 DEF Next, Step, Error

THEOREM Invariance == Spec => []IInv
BY InitIInv, StepIInv, PTL DEF Spec

\* Every variable keeps its type, and the pool its limit.
THEOREM TypeCorrect == Spec => []TypeOK
<1>1. IInv => TypeOK
  BY DEF IInv
<1> QED
  BY <1>1, Invariance, PTL

\* ExecuteTx reports what happened, but for commits whose answer was lost.
THEOREM TruthTold == Spec => []ToldTruly
<1>1. IInv => ToldTruly
  <2> SUFFICES ASSUME IInv, NEW p \in Procs
               PROVE  /\ pc[p] = "ok" /\ IsUpdate(p) => commits[p] = lost[p] + 1
                      /\ pc[p] = "error" => commits[p] = lost[p]
                      /\ commits[p] <= MaxRetries + 1
    BY DEF ToldTruly
  <2>1. /\ MaxRetries \in Nat /\ attempt[p] \in 0 .. MaxRetries
        /\ lost[p] \in Nat /\ commits[p] \in Nat
    BY PgTxAssumption DEF IInv, TypeOK
  <2> QED
    BY <2>1 DEF IInv, Counted
<1> QED
  BY <1>1, Invariance, PTL

-----------------------------------------------------------------------------
(* The repository implements DBStore. *)

\* Only the call that moves changes for its callers.
LEMMA Moves ==
  ASSUME TypeOK, NEW p \in Procs, NEW l, pc' = [pc EXCEPT ![p] = l],
         \A q \in Procs \ {p} : req'[q] = req[q] /\ res'[q] = res[q]
  PROVE  /\ AbsState' = [AbsState EXCEPT ![p] = AbsState'[p]]
         /\ AbsSeen' = [AbsSeen EXCEPT ![p] = AbsSeen'[p]]
<1>1. \A q \in Procs \ {p} : AbsState'[q] = AbsState[q]
  BY DEF TypeOK, AbsState, IsUpdate
<1>4. /\ AbsState = [q \in Procs |-> AbsState[q]]
      /\ AbsState' = [q \in Procs |-> AbsState'[q]]
  BY DEF AbsState
<1>2. AbsState' = [AbsState EXCEPT ![p] = AbsState'[p]]
  BY <1>1, <1>4
<1>3. \A q \in Procs \ {p} : AbsSeen'[q] = AbsSeen[q]
  BY <1>1 DEF AbsSeen
<1> QED
  BY <1>2, <1>3 DEF AbsSeen

\* Where a call is for its callers.
LEMMA StateOf ==
  ASSUME NEW p \in Procs
  PROVE  /\ pc[p] \in {"idle", "adrift"} => AbsState[p] = pc[p]
         /\ pc[p] \in {"begin", "delay", "run", "wait", "broken"} =>
              AbsState[p] = "open"
         /\ pc[p] = "commit" =>
              AbsState[p] = IF IsUpdate(p) THEN "open" ELSE "applied"
         /\ pc[p] \in {"done", "ok"} => AbsState[p] = "applied"
         /\ pc[p] = "error" => AbsState[p] = "failed"
         /\ AbsState[p] # "applied" => AbsSeen[p] = EmptyMap
         /\ AbsState[p] = "applied" => AbsSeen[p] = res[p]
BY DEF AbsState, AbsSeen

LEMMA StateOfNext ==
  ASSUME NEW p \in Procs
  PROVE  /\ pc'[p] \in {"idle", "adrift"} => AbsState'[p] = pc'[p]
         /\ pc'[p] \in {"begin", "delay", "run", "wait", "broken"} =>
              AbsState'[p] = "open"
         /\ pc'[p] = "commit" =>
              AbsState'[p] = IF IsUpdate(p)' THEN "open" ELSE "applied"
         /\ pc'[p] \in {"done", "ok"} => AbsState'[p] = "applied"
         /\ pc'[p] = "error" => AbsState'[p] = "failed"
         /\ AbsState'[p] # "applied" => AbsSeen'[p] = EmptyMap
         /\ AbsState'[p] = "applied" => AbsSeen'[p] = res'[p]
BY DEF AbsState, AbsSeen

\* Updates read nothing.
LEMMA NothingRead ==
  ASSUME IInv, NEW p \in Procs, req[p].op \in {"none", "update"}
  PROVE  res[p] = EmptyMap
<1>1. \A n \in Names : res[p][n] = Absent
  BY DEF IInv, ReadsSound
<1> QED
  BY <1>1 DEF IInv, TypeOK, Map, EmptyMap

\* A step that leaves the call where it was for its callers is not seen.
LEMMA Unseen ==
  ASSUME IInv, NEW p \in Procs, NEW l, pc' = [pc EXCEPT ![p] = l],
         AbsState'[p] = AbsState[p], AbsSeen'[p] = AbsSeen[p],
         \A q \in Procs \ {p} : res'[q] = res[q], UNCHANGED <<store, req>>
  PROVE  UNCHANGED DB!vars
<1>1. /\ AbsState' = [AbsState EXCEPT ![p] = AbsState[p]]
      /\ AbsSeen' = [AbsSeen EXCEPT ![p] = AbsSeen[p]]
  BY Moves DEF IInv
<1> QED
  BY <1>1 DEF DB!vars, AbsState, AbsSeen

\* An attempt that fails is an error, a repetition, or not seen.
LEMMA FailureSeen ==
  ASSUME IInv, NEW p \in Procs, Fails(p), UNCHANGED <<store, req, res>>,
         pc[p] \in {"begin", "delay", "run", "wait", "broken", "commit", "done"}
  PROVE  DB!Fail(p) \/ DB!Repeat(p) \/ UNCHANGED DB!vars
<1>1. PICK l \in {"delay", "error"} : pc' = [pc EXCEPT ![p] = l]
  BY FailsTo DEF IInv
<1>2. pc'[p] = l
  BY <1>1 DEF IInv, TypeOK
<1>3. AbsState[p] \in {"open", "applied"}
  BY StateOf
<1>4. /\ AbsState' = [AbsState EXCEPT ![p] = AbsState'[p]]
      /\ AbsSeen' = [AbsSeen EXCEPT ![p] = AbsSeen'[p]]
  BY <1>1, Moves DEF IInv
<1>5. AbsSeen'[p] = EmptyMap
  BY <1>2, StateOfNext
<1>6. CASE l = "error"
  <2>1. AbsState'[p] = "failed"
    BY <1>2, <1>6, StateOfNext
  <2> QED
    BY <1>3, <1>4, <1>5, <2>1 DEF DB!Fail, DB!Goto, DB!EmptyMap, EmptyMap
<1>7. CASE l = "delay" /\ AbsState[p] = "applied"
  <2>1. AbsState'[p] = "open"
    BY <1>2, <1>7, StateOfNext
  <2> QED
    BY <1>4, <1>5, <1>7, <2>1 DEF DB!Repeat, DB!Goto, DB!EmptyMap, EmptyMap
<1>8. CASE l = "delay" /\ AbsState[p] = "open"
  <2>1. AbsState'[p] = AbsState[p] /\ AbsSeen'[p] = AbsSeen[p]
    BY <1>2, <1>5, <1>8, StateOf, StateOfNext
  <2> QED
    BY <1>1, <2>1, Unseen
<1> QED
  BY <1>1, <1>3, <1>6, <1>7, <1>8

\* What a commit publishes is the table with the whole batch applied to it.
LEMMA PublishedWhole ==
  ASSUME IInv, NEW p \in Procs, IsUpdate(p), pc[p] \in {"commit", "adrift"},
         Publish(p)
  PROVE  store' = DB!ApplyBatch(UpdateOp, store, req[p].batch)
<1>1. \A n \in Names : (owner[n] = p) <=> (req[p].batch[n] # Absent)
  BY DEF IInv, RowsHeld, CallsMatch, ToLock, Owned, Keys
<1>2. \A n \in Names :
        owner[n] = p => writes[p][n] = Merge(UpdateOp, store[n], req[p].batch[n])
  BY DEF IInv, RowsHeld, Owned
<1> QED
  BY <1>1, <1>2 DEF Publish, DB!ApplyBatch, DB!Merge, Merge

\* Each step is one of DBStore's, or not seen.
LEMMA StepRefinement ==
  IInv /\ IInv' /\ [Next]_vars => [DB!Next]_(DB!vars)
<1> SUFFICES ASSUME IInv, IInv', [Next]_vars
             PROVE  DB!Next \/ UNCHANGED DB!vars
  OBVIOUS
<1> USE DEF table, pool, history, Goto
<1>1. ASSUME NEW p \in Procs, NEW r \in Calls, Call(p, r)
      PROVE  DB!Call(p, r)
  <2>1. pc[p] = "idle" /\ pc'[p] = "begin"
    BY <1>1 DEF Call, IInv, TypeOK
  <2>2. AbsState[p] = "idle" /\ AbsState'[p] = "open"
    BY <2>1, StateOf, StateOfNext
  <2>3. AbsSeen[p] = EmptyMap /\ AbsSeen'[p] = EmptyMap
    BY <2>2, StateOf, StateOfNext
  <2>4. /\ AbsState' = [AbsState EXCEPT ![p] = AbsState'[p]]
        /\ AbsSeen' = [AbsSeen EXCEPT ![p] = AbsSeen'[p]]
    BY <1>1, Moves DEF Call, IInv, TypeOK
  <2>5. AbsSeen' = AbsSeen
    BY <2>3, <2>4 DEF AbsSeen
  <2> QED
    BY <1>1, <2>2, <2>4, <2>5 DEF Call, DB!Call, DB!Goto
<1>2. ASSUME NEW p \in Procs, Begin(p) \/ Retry(p) \/ Block(p) \/ SendCommit(p)
      PROVE  UNCHANGED DB!vars
  <2>1. PICK l \in {"run", "begin", "wait", "commit"} :
          /\ pc' = [pc EXCEPT ![p] = l]
          /\ l = "commit" => IsUpdate(p)
    BY <1>2 DEF Begin, Retry, Block, SendCommit
  <2>2. pc[p] \in {"begin", "delay", "run"} /\ UNCHANGED <<store, req, res>>
    BY <1>2 DEF Begin, Retry, Block, SendCommit
  <2>3. pc'[p] = l /\ IsUpdate(p)' = IsUpdate(p)
    BY <2>1, <2>2 DEF IInv, TypeOK, IsUpdate
  <2>4. AbsState[p] = "open" /\ AbsState'[p] = "open"
    BY <2>1, <2>2, <2>3, StateOf, StateOfNext
  <2>5. AbsSeen[p] = EmptyMap /\ AbsSeen'[p] = EmptyMap
    BY <2>4, StateOf, StateOfNext
  <2> QED
    BY <2>1, <2>2, <2>4, <2>5, Unseen
<1>3. ASSUME NEW p \in Procs,
             \/ BeginFails(p) \/ PoolClosed(p) \/ Cancelled(p) \/ Deadlock(p)
             \/ StatementFails(p) \/ CommitFails(p) \/ CommitLost(p)
      PROVE  DB!Fail(p) \/ DB!Repeat(p) \/ UNCHANGED DB!vars
  <2>1. /\ Fails(p) /\ UNCHANGED <<store, req, res>>
        /\ pc[p] \in {"begin", "delay", "run", "wait", "broken", "commit", "done"}
    BY <1>3 DEF BeginFails, PoolClosed, Cancelled, Deadlock, Circle,
       StatementFails, CommitFails, CommitLost, Fails
  <2> QED
    BY <2>1, FailureSeen
<1>4. ASSUME NEW p \in Procs, Exec(p) \/ Granted(p)
      PROVE  DB!Fail(p) \/ DB!Repeat(p) \/ UNCHANGED DB!vars
  <2>1. PICK n : Upsert(p, n)
    BY <1>4 DEF Exec, Granted
  <2>2. pc[p] \in {"run", "wait"} /\ UNCHANGED <<store, req, res>>
    BY <1>4 DEF Exec, Granted
  <2>3. CASE Overflows(p, n)
    BY <2>1, <2>2, <2>3, FailureSeen DEF Upsert, Fails
  <2>4. CASE ~Overflows(p, n)
    <3>1. pc' = [pc EXCEPT ![p] = "run"] /\ pc'[p] = "run"
      BY <2>1, <2>4 DEF Upsert, IInv, TypeOK
    <3>2. AbsState[p] = "open" /\ AbsState'[p] = "open"
      BY <2>2, <3>1, StateOf, StateOfNext
    <3>3. AbsSeen[p] = EmptyMap /\ AbsSeen'[p] = EmptyMap
      BY <3>2, StateOf, StateOfNext
    <3> QED
      BY <2>2, <3>1, <3>2, <3>3, Unseen
  <2> QED
    BY <2>3, <2>4
<1>5. ASSUME NEW p \in Procs, Read(p)
      PROVE  DB!Read(p)
  <2> DEFINE found == DB!View(store, DB!Asked(req[p]))
  <2>1. /\ pc[p] = "run" /\ ~IsUpdate(p) /\ UNCHANGED <<store, req>>
        /\ req[p].op \in {"get", "getall"}
    BY <1>5, CallKinds DEF Read, IsUpdate, IInv, TypeOK, CallsMatch
  <2>2. PICK l \in {"ok", "commit"} : pc' = [pc EXCEPT ![p] = l]
    BY <1>5 DEF Read
  <2>3. res' = [res EXCEPT ![p] =
                  [n \in Names |-> IF found[n] # Absent THEN found[n]
                                   ELSE res[p][n]]]
    BY <1>5 DEF Read
  <2>4. \A n \in Names : found[n] = Absent => res[p][n] = Absent
    BY DEF IInv, ReadsSound, DB!View
  <2>5. res'[p] = found
    <3>1. [n \in Names |-> IF found[n] # Absent THEN found[n] ELSE res[p][n]]
            = found
      BY <2>4 DEF DB!View
    <3> QED
      BY <2>3, <3>1 DEF IInv, TypeOK
  <2>6. pc'[p] = l /\ ~IsUpdate(p)'
    BY <2>1, <2>2 DEF IInv, TypeOK, IsUpdate
  <2>7. AbsState[p] = "open" /\ AbsState'[p] = "applied"
    BY <2>1, <2>2, <2>6, StateOf, StateOfNext
  <2>8. AbsSeen'[p] = found
    BY <2>5, <2>7, StateOfNext
  <2>9. \A q \in Procs \ {p} : req'[q] = req[q] /\ res'[q] = res[q]
    BY <2>1, <2>3 DEF IInv, TypeOK
  <2>10. /\ AbsState' = [AbsState EXCEPT ![p] = AbsState'[p]]
         /\ AbsSeen' = [AbsSeen EXCEPT ![p] = AbsSeen'[p]]
    BY <2>2, <2>9, Moves DEF IInv
  <2> QED
    BY <2>1, <2>7, <2>8, <2>10 DEF DB!Read, DB!Goto
<1>6. ASSUME NEW p \in Procs, ReadCut(p)
      PROVE  UNCHANGED DB!vars
  <2>1. /\ pc[p] = "run" /\ pc' = [pc EXCEPT ![p] = "broken"]
        /\ UNCHANGED <<store, req>>
        /\ \A q \in Procs \ {p} : res'[q] = res[q]
    BY <1>6 DEF ReadCut, IInv, TypeOK
  <2>2. pc'[p] = "broken"
    BY <2>1 DEF IInv, TypeOK
  <2>3. AbsState[p] = "open" /\ AbsState'[p] = "open"
    BY <2>1, <2>2, StateOf, StateOfNext
  <2>4. AbsSeen[p] = EmptyMap /\ AbsSeen'[p] = EmptyMap
    BY <2>3, StateOf, StateOfNext
  <2> QED
    BY <2>1, <2>3, <2>4, Unseen
<1>7. ASSUME NEW p \in Procs, Commit(p)
      PROVE  DB!Update(p) \/ UNCHANGED DB!vars
  <2>1. /\ pc[p] = "commit" /\ pc' = [pc EXCEPT ![p] = "done"]
        /\ UNCHANGED <<req, res>>
    BY <1>7 DEF Commit
  <2>2. AbsState'[p] = "applied" /\ AbsSeen'[p] = res[p]
    BY <2>1, StateOfNext DEF IInv, TypeOK
  <2>3. CASE ~IsUpdate(p)
    <3>1. AbsState[p] = "applied" /\ AbsSeen[p] = res[p]
      BY <2>1, <2>3, StateOf
    <3>2. UNCHANGED store
      BY <1>7, <2>3 DEF Commit
    <3> QED
      BY <2>1, <2>2, <3>1, <3>2, Unseen
  <2>4. CASE IsUpdate(p)
    <3>1. store' = DB!ApplyBatch(UpdateOp, store, req[p].batch)
      BY <1>7, <2>1, <2>4, PublishedWhole DEF Commit
    <3>2. AbsState[p] = "open" /\ AbsSeen[p] = EmptyMap
      BY <2>1, <2>4, StateOf
    <3>3. res[p] = EmptyMap
      BY <2>4, NothingRead DEF IsUpdate
    <3>4. /\ AbsState' = [AbsState EXCEPT ![p] = AbsState'[p]]
          /\ AbsSeen' = [AbsSeen EXCEPT ![p] = AbsSeen'[p]]
      BY <2>1, Moves DEF IInv
    <3>5. AbsSeen' = AbsSeen
      BY <2>2, <3>2, <3>3, <3>4 DEF AbsSeen
    <3> QED
      BY <2>1, <2>2, <2>4, <3>1, <3>2, <3>4, <3>5
         DEF DB!Update, DB!Goto, IsUpdate
  <2> QED
    BY <2>3, <2>4
<1>8. ASSUME NEW p \in Procs, Committed(p)
      PROVE  UNCHANGED DB!vars
  <2>1. /\ pc[p] = "done" /\ pc' = [pc EXCEPT ![p] = "ok"]
        /\ UNCHANGED <<store, req, res>>
    BY <1>8 DEF Committed
  <2>2. pc'[p] = "ok"
    BY <2>1 DEF IInv, TypeOK
  <2>3. AbsState[p] = "applied" /\ AbsState'[p] = "applied"
    BY <2>1, <2>2, StateOf, StateOfNext
  <2>4. AbsSeen'[p] = AbsSeen[p]
    BY <2>1, <2>3, StateOf, StateOfNext
  <2> QED
    BY <2>1, <2>3, <2>4, Unseen
<1>9. ASSUME NEW p \in Procs, GiveUp(p)
      PROVE  DB!GiveUp(p)
  <2>1. /\ pc[p] = "commit" /\ IsUpdate(p) /\ UNCHANGED <<store, req, res>>
        /\ pc' = [pc EXCEPT ![p] = "adrift"]
    BY <1>9 DEF GiveUp
  <2>2. pc'[p] = "adrift"
    BY <2>1 DEF IInv, TypeOK
  <2>3. AbsState[p] = "open" /\ AbsState'[p] = "adrift"
    BY <2>1, <2>2, StateOf, StateOfNext
  <2>4. AbsSeen[p] = EmptyMap /\ AbsSeen'[p] = EmptyMap
    BY <2>3, StateOf, StateOfNext
  <2>5. /\ AbsState' = [AbsState EXCEPT ![p] = AbsState'[p]]
        /\ AbsSeen' = [AbsSeen EXCEPT ![p] = AbsSeen'[p]]
    BY <2>1, Moves DEF IInv
  <2>6. AbsSeen' = AbsSeen
    BY <2>4, <2>5 DEF AbsSeen
  <2> QED
    BY <2>1, <2>3, <2>5, <2>6 DEF DB!GiveUp, DB!Goto, IsUpdate
<1>10. ASSUME NEW p \in Procs, LateEnd(p)
       PROVE  DB!LateEnd(p)
  <2>1. /\ pc[p] = "adrift" /\ IsUpdate(p) /\ Reset(p)
        /\ UNCHANGED store \/ Publish(p)
    BY <1>10 DEF LateEnd, IInv, CallsMatch
  <2>2. store' \in {store, DB!ApplyBatch(UpdateOp, store, req[p].batch)}
    BY <2>1, PublishedWhole
  <2>3. pc' = [pc EXCEPT ![p] = "idle"] /\ pc'[p] = "idle"
    BY <2>1 DEF Reset, IInv, TypeOK
  <2>4. AbsState[p] = "adrift" /\ AbsState'[p] = "idle"
    BY <2>1, <2>3, StateOf, StateOfNext
  <2>5. AbsSeen[p] = EmptyMap /\ AbsSeen'[p] = EmptyMap
    BY <2>4, StateOf, StateOfNext
  <2>6. \A q \in Procs \ {p} : req'[q] = req[q] /\ res'[q] = res[q]
    BY <2>1 DEF Reset, IInv, TypeOK
  <2>7. /\ AbsState' = [AbsState EXCEPT ![p] = AbsState'[p]]
        /\ AbsSeen' = [AbsSeen EXCEPT ![p] = AbsSeen'[p]]
    BY <2>3, <2>6, Moves DEF IInv
  <2>8. AbsSeen' = AbsSeen
    BY <2>5, <2>7 DEF AbsSeen
  <2> QED
    BY <2>1, <2>2, <2>4, <2>7, <2>8 DEF DB!LateEnd, DB!Goto, Reset
<1>11. ASSUME NEW p \in Procs, Return(p)
       PROVE  DB!Answer(p)
  <2>1. /\ pc[p] \in {"ok", "error"} /\ Reset(p) /\ UNCHANGED store
        /\ pc' = [pc EXCEPT ![p] = "idle"]
    BY <1>11 DEF Return, Reset
  <2>2. pc'[p] = "idle"
    BY <2>1 DEF IInv, TypeOK
  <2>3. AbsState[p] \in {"applied", "failed"} /\ AbsState'[p] = "idle"
    BY <2>1, <2>2, StateOf, StateOfNext
  <2>4. AbsSeen'[p] = EmptyMap
    BY <2>3, StateOfNext
  <2>5. \A q \in Procs \ {p} : req'[q] = req[q] /\ res'[q] = res[q]
    BY <2>1 DEF Reset, IInv, TypeOK
  <2>6. /\ AbsState' = [AbsState EXCEPT ![p] = AbsState'[p]]
        /\ AbsSeen' = [AbsSeen EXCEPT ![p] = AbsSeen'[p]]
    BY <2>1, <2>5, Moves DEF IInv
  <2> QED
    BY <2>1, <2>3, <2>4, <2>6
       DEF DB!Answer, DB!Goto, DB!EmptyMap, EmptyMap, Reset
<1>12. CASE Close \/ UNCHANGED vars
  BY <1>12 DEF Close, vars, DB!vars, AbsState, AbsSeen, IsUpdate
<1> QED
  BY <1>1, <1>2, <1>3, <1>4, <1>5, <1>6, <1>7, <1>8, <1>9, <1>10, <1>11, <1>12
     DEF Next, Step, Error, DB!Next

LEMMA InitRefinement == Init => DB!Init
<1> SUFFICES ASSUME Init
             PROVE  DB!Init
  OBVIOUS
<1>1. AbsState = [p \in Procs |-> "idle"]
  BY DEF Init, AbsState
<1>2. AbsSeen = [p \in Procs |-> EmptyMap]
  BY <1>1 DEF AbsSeen
<1> QED
  BY <1>1, <1>2 DEF Init, DB!Init, DB!EmptyMap, EmptyMap

\* The repository in PostgreSQL keeps the promise of DBStore, whatever breaks
\* and however often calls are retried.
THEOREM Implementation == Spec => Implements
<1>1. Init => DB!Init
  BY InitRefinement
<1>2. IInv /\ IInv' /\ [Next]_vars => [DB!Next]_(DB!vars)
  BY StepRefinement
<1> QED
  BY <1>1, <1>2, Invariance, PTL DEF Spec, Implements, DB!Spec
=============================================================================
