--------------------------- MODULE SafeRepo_proofs ---------------------------
(***************************************************************************)
(* Proofs about SafeRepo, for any number of goroutines, names and values:  *)
(* the inductive invariant IInv, the isolation of updates that follows     *)
(* from it, and that the repository implements MetricStore.                *)
(***************************************************************************)
EXTENDS SafeRepo, TLAPS

\* The three kinds of request are told apart by their op.
LEMMA RequestKinds ==
  ASSUME NEW r \in Store!Requests \cup {Store!NoReq}
  PROVE  /\ r.op = UpdateOp => r \in Store!UpdateReq
         /\ r.op = "get" => r \in Store!GetReq
         /\ r.op = "getall" => r \in Store!GetAllReq
         /\ r \in Store!UpdateReq =>
              r.op = UpdateOp /\ r.batch \in [Names -> Inputs \cup {Absent}]
         /\ r \in Store!GetReq => r.op = "get" /\ r.name \in Names
         /\ r \in Store!GetAllReq => r.op = "getall"
         /\ r = Store!NoReq => r.op = "none"
         /\ UpdateOp \notin {"none", "get", "getall"}
BY SafeRepoAssumption
   DEF Store!Requests, Store!NoReq, Store!UpdateReq, Store!GetReq,
       Store!GetAllReq

\* The sum of a counter stays a value: int64 addition wraps around.
LEMMA MergeType ==
  ASSUME NEW old0 \in Val \cup {Absent}, NEW v \in Val
  PROVE  Merge(UpdateOp, old0, v) \in Val
<1>1. W \in Nat \ {0} /\ Absent \notin Val
  BY MetricsAssumption
<1>2. CASE UpdateOp = "accum" /\ old0 # Absent
  <2>1. old0 + v \in Int
    BY <1>2 DEF Val
  <2>2. (old0 + v) % W \in 0 .. W - 1
    BY <1>1, <2>1
  <2> QED
    BY <1>2, <2>2 DEF Merge, Val
<1>3. CASE ~(UpdateOp = "accum" /\ old0 # Absent)
  BY <1>3 DEF Merge
<1> QED
  BY <1>2, <1>3

LEMMA InitIInv == Init => IInv
BY RequestKinds, SafeRepoAssumption
   DEF Init, IInv, TypeOK, LockHeld, CallsMatch, LoopSound, EmptyMap, Map,
       Updating, Writable, Store!NoReq

\* What the requests of a state of IInv are; the actions' proofs cite it.
LEMMA RequestOf ==
  ASSUME TypeOK, NEW p \in Procs
  PROVE  /\ Writable(p) => /\ req[p] \in Store!UpdateReq
                           /\ req[p].batch \in [Names -> Inputs \cup {Absent}]
         /\ req[p].op = "get" => req[p] \in Store!GetReq /\ req[p].name \in Names
         /\ req[p].op = "getall" => req[p] \in Store!GetAllReq
         /\ req[p] = Store!NoReq => ~Writable(p)
         /\ UpdateOp \notin {"none", "get", "getall"}
<1>1. req[p] \in Store!Requests \cup {Store!NoReq}
  BY DEF TypeOK
<1> QED
  BY <1>1, RequestKinds DEF Writable

LEMMA StepIInv == IInv /\ [Next]_vars => IInv'
<1> SUFFICES ASSUME IInv, [Next]_vars
             PROVE  IInv'
  OBVIOUS
<1> USE DEF Writable, Updating, Goto
<1>1. ASSUME NEW p \in Procs, NEW r \in Store!Requests, Call(p, r)
      PROVE  IInv'
  <2>1. r # Store!NoReq
    BY RequestKinds, SafeRepoAssumption DEF Store!Requests, Store!UpdateReq,
       Store!GetReq, Store!GetAllReq, Store!NoReq
  <2>2. TypeOK'
    BY <1>1 DEF IInv, TypeOK, Call
  <2>3. LockHeld'
    BY <1>1 DEF IInv, TypeOK, LockHeld, CallsMatch, Call
  <2>4. CallsMatch'
    BY <1>1, <2>1 DEF IInv, TypeOK, CallsMatch, Call
  <2>5. LoopSound'
    BY <1>1 DEF IInv, TypeOK, LoopSound, Call
  <2> QED
    BY <2>2, <2>3, <2>4, <2>5 DEF IInv
<1>2. ASSUME NEW p \in Procs, Lock(p)
      PROVE  IInv'
  <2>1. TypeOK'
    BY <1>2 DEF IInv, TypeOK, Lock
  <2>2. LockHeld'
    BY <1>2, SafeRepoAssumption DEF IInv, TypeOK, LockHeld, Lock
  <2>3. CallsMatch'
    BY <1>2 DEF IInv, TypeOK, CallsMatch, Lock
  <2>4. LoopSound'
    BY <1>2 DEF IInv, TypeOK, LoopSound, Lock
  <2> QED
    BY <2>1, <2>2, <2>3, <2>4 DEF IInv
<1>3. ASSUME NEW p \in Procs, Locked(p)
      PROVE  IInv'
  <2>1. TypeOK'
    BY <1>3 DEF IInv, TypeOK, Locked, Keys
  <2>2. LockHeld'
    BY <1>3 DEF IInv, TypeOK, LockHeld, CallsMatch, Locked
  <2>3. CallsMatch'
    BY <1>3 DEF IInv, TypeOK, CallsMatch, Locked
  <2>4. LoopSound'
    BY <1>3 DEF IInv, TypeOK, LoopSound, Locked
  <2> QED
    BY <2>1, <2>2, <2>3, <2>4 DEF IInv
<1>4. ASSUME NEW p \in Procs, RLock(p)
      PROVE  IInv'
  <2>1. TypeOK'
    BY <1>4 DEF IInv, TypeOK, RLock
  <2>2. LockHeld'
    BY <1>4, SafeRepoAssumption DEF IInv, TypeOK, LockHeld, RLock
  <2>3. CallsMatch'
    BY <1>4 DEF IInv, TypeOK, CallsMatch, RLock
  <2>4. LoopSound'
    BY <1>4 DEF IInv, TypeOK, LoopSound, RLock
  <2> QED
    BY <2>1, <2>2, <2>3, <2>4 DEF IInv
<1>5. ASSUME NEW p \in Procs, Load(p)
      PROVE  IInv'
  <2>1. PICK n \in todo[p] : /\ key' = [key EXCEPT ![p] = n]
                             /\ old' = [old EXCEPT ![p] = data[n]]
    BY <1>5 DEF Load
  <2>2. n \in Names
    BY DEF IInv, TypeOK
  <2>3. data[n] \in Val \cup {Absent}
    BY <2>2 DEF IInv, TypeOK, Map
  <2>4. TypeOK'
    BY <1>5, <2>1, <2>2, <2>3 DEF IInv, TypeOK, Load
  <2>5. LockHeld'
    BY <1>5 DEF IInv, TypeOK, LockHeld, Load
  <2>6. CallsMatch'
    BY <1>5 DEF IInv, TypeOK, CallsMatch, Load
  <2>7. LoopSound'
    BY <1>5, <2>1 DEF IInv, TypeOK, LoopSound, Load
  <2> QED
    BY <2>4, <2>5, <2>6, <2>7 DEF IInv
<1>6. ASSUME NEW p \in Procs, Assign(p)
      PROVE  IInv'
  <2>1. Writable(p) /\ key[p] \in Names /\ key[p] \in Keys(req[p].batch)
    BY <1>6 DEF IInv, TypeOK, CallsMatch, LoopSound, Assign
  <2>2. req[p].batch[key[p]] \in Val
    BY <2>1, RequestOf, SafeRepoAssumption DEF IInv, Keys
  <2>3. Merge(UpdateOp, old[p], req[p].batch[key[p]]) \in Val
    BY <2>2, MergeType DEF IInv, TypeOK
  <2>4. TypeOK'
    BY <1>6, <2>3 DEF IInv, TypeOK, Assign, Map
  <2>5. LockHeld'
    BY <1>6 DEF IInv, TypeOK, LockHeld, CallsMatch, Assign
  <2>6. CallsMatch'
    BY <1>6, <2>1 DEF IInv, TypeOK, CallsMatch, Assign
  <2>7. ASSUME NEW q \in Procs, q # p
        PROVE  ~Updating(q)
    BY <1>6, <2>1, <2>7 DEF IInv, LockHeld, Assign
  <2>8. LoopSound'
    BY <1>6, <2>1, <2>7 DEF IInv, TypeOK, LoopSound, CallsMatch, Assign
  <2> QED
    BY <2>4, <2>5, <2>6, <2>8 DEF IInv
<1>7. ASSUME NEW p \in Procs, Unlock(p)
      PROVE  IInv'
  <2>1. writer = p /\ readers = {}
    BY <1>7 DEF IInv, LockHeld, Unlock
  <2>2. TypeOK'
    BY <1>7 DEF IInv, TypeOK, Unlock
  <2>3. LockHeld'
    BY <1>7, <2>1, SafeRepoAssumption
       DEF IInv, TypeOK, LockHeld, CallsMatch, Unlock
  <2>4. CallsMatch'
    BY <1>7 DEF IInv, TypeOK, CallsMatch, Unlock
  <2>5. LoopSound'
    BY <1>7 DEF IInv, TypeOK, LoopSound, CallsMatch, Unlock
  <2> QED
    BY <2>2, <2>3, <2>4, <2>5 DEF IInv
<1>8. ASSUME NEW p \in Procs, Get(p)
      PROVE  IInv'
  <2>1. req[p].name \in Names /\ ~Writable(p)
    BY <1>8, RequestOf DEF IInv, Get
  <2>2. data[req[p].name] \in Val \cup {Absent}
    BY <2>1 DEF IInv, TypeOK, Map
  <2>3. TypeOK'
    BY <1>8, <2>2 DEF IInv, TypeOK, Get
  <2>4. LockHeld'
    BY <1>8, <2>1 DEF IInv, TypeOK, LockHeld, Get
  <2>5. CallsMatch'
    BY <1>8, <2>1 DEF IInv, TypeOK, CallsMatch, Get
  <2>6. LoopSound'
    BY <1>8, <2>1 DEF IInv, TypeOK, LoopSound, Get
  <2> QED
    BY <2>3, <2>4, <2>5, <2>6 DEF IInv
<1>9. ASSUME NEW p \in Procs, GetAll(p)
      PROVE  IInv'
  <2>1. ~Writable(p)
    BY <1>9, RequestOf DEF IInv, GetAll
  <2>2. TypeOK'
    BY <1>9 DEF IInv, TypeOK, GetAll
  <2>3. LockHeld'
    BY <1>9, <2>1 DEF IInv, TypeOK, LockHeld, GetAll
  <2>4. CallsMatch'
    BY <1>9, <2>1 DEF IInv, TypeOK, CallsMatch, GetAll
  <2>5. LoopSound'
    BY <1>9, <2>1 DEF IInv, TypeOK, LoopSound, GetAll
  <2> QED
    BY <2>2, <2>3, <2>4, <2>5 DEF IInv
<1>10. ASSUME NEW p \in Procs, RUnlock(p)
       PROVE  IInv'
  <2>1. TypeOK'
    BY <1>10 DEF IInv, TypeOK, RUnlock
  <2>2. LockHeld'
    BY <1>10 DEF IInv, TypeOK, LockHeld, CallsMatch, RUnlock
  <2>3. CallsMatch'
    BY <1>10 DEF IInv, TypeOK, CallsMatch, RUnlock
  <2>4. LoopSound'
    BY <1>10 DEF IInv, TypeOK, LoopSound, CallsMatch, RUnlock
  <2> QED
    BY <2>1, <2>2, <2>3, <2>4 DEF IInv
<1>11. ASSUME NEW p \in Procs, Iterate(p)
       PROVE  IInv'
  <2>1. ~Writable(p)
    BY <1>11 DEF IInv, CallsMatch, Iterate
  <2>2. TypeOK'
    BY <1>11 DEF IInv, TypeOK, Iterate
  <2>3. LockHeld' /\ CallsMatch'
    BY <1>11 DEF IInv, TypeOK, LockHeld, CallsMatch, Iterate
  <2>4. LoopSound'
    BY <1>11, <2>1 DEF IInv, TypeOK, LoopSound, Iterate
  <2> QED
    BY <2>2, <2>3, <2>4 DEF IInv
<1>12. ASSUME NEW p \in Procs, IterateEnd(p)
       PROVE  IInv'
  <2>1. ~Writable(p)
    BY <1>12 DEF IInv, CallsMatch, IterateEnd
  <2>2. TypeOK'
    BY <1>12 DEF IInv, TypeOK, IterateEnd
  <2>3. LockHeld' /\ CallsMatch'
    BY <1>12, <2>1 DEF IInv, TypeOK, LockHeld, CallsMatch, IterateEnd
  <2>4. LoopSound'
    BY <1>12, <2>1 DEF IInv, TypeOK, LoopSound, IterateEnd
  <2> QED
    BY <2>2, <2>3, <2>4 DEF IInv
<1>13. ASSUME NEW p \in Procs, Return(p)
       PROVE  IInv'
  <2>1. TypeOK'
    BY <1>13 DEF IInv, TypeOK, Return
  <2>2. UpdateOp # "none"
    BY RequestOf DEF IInv
  <2>3. LockHeld'
    BY <1>13, <2>2 DEF IInv, TypeOK, LockHeld, CallsMatch, Return, Store!NoReq
  <2>4. CallsMatch'
    BY <1>13, <2>2 DEF IInv, TypeOK, CallsMatch, Return, Store!NoReq
  <2>5. LoopSound'
    BY <1>13, <2>2 DEF IInv, TypeOK, LoopSound, Return, Store!NoReq
  <2> QED
    BY <2>1, <2>3, <2>4, <2>5 DEF IInv
<1>14. CASE UNCHANGED vars
  BY <1>14 DEF IInv, TypeOK, LockHeld, CallsMatch, LoopSound, vars
<1> QED
  BY <1>1, <1>2, <1>3, <1>4, <1>5, <1>6, <1>7, <1>8, <1>9, <1>10, <1>11,
     <1>12, <1>13, <1>14 DEF Next, Step

\* The lock's bookkeeping, what a goroutine's place says of its call, and what
\* the loop over a batch has loaded are right in every state.
THEOREM Invariance == Spec => []IInv
<1>1. Init => IInv
  BY InitIInv
<1>2. IInv /\ [Next]_vars => IInv'
  BY StepIInv
<1> QED
  BY <1>1, <1>2, PTL DEF Spec

\* Type correctness, for any number of goroutines and whatever they call.
THEOREM TypeCorrect == Spec => []TypeOK
<1>1. IInv => TypeOK
  BY DEF IInv
<1> QED
  BY <1>1, Invariance, PTL

\* An update is alone in the repository from Begin to Unlock, and no entry
\* changes between its load and its store: MRepo loses no increment.
THEOREM Isolation == Spec => []UpdateIsolated
<1>1. IInv => UpdateIsolated
  <2> SUFFICES ASSUME IInv, NEW p \in Procs, Updating(p)
               PROVE  /\ \A q \in Procs \ {p} :
                           pc[q] \notin {"body", "assign", "release"}
                      /\ pc[p] = "assign" => data[key[p]] = old[p]
    BY DEF UpdateIsolated
  <2>1. writer = p /\ readers = {}
    BY DEF IInv, LockHeld
  <2>2. ASSUME NEW q \in Procs, q # p
        PROVE  pc[q] \notin {"body", "assign", "release"}
    BY <2>1, <2>2 DEF IInv, LockHeld, CallsMatch, Updating
  <2>3. pc[p] = "assign" => data[key[p]] = old[p]
    BY DEF IInv, LoopSound
  <2> QED
    BY <2>2, <2>3
<1> QED
  BY <1>1, Invariance, PTL

-----------------------------------------------------------------------------
(***************************************************************************)
(* SafeRepo implements MetricStore.  An update takes effect in Locked, a   *)
(* read in Get or GetAll; Call and Return are themselves; the remaining    *)
(* steps change nothing a caller can know.                                 *)
(***************************************************************************)

\* Where nobody is past Lock, callers know the map as it is.
LEMMA AbsStoreIdle ==
  ASSUME TypeOK, \A p \in Procs : writer = p => ~Updating(p)
  PROVE  AbsStore = data
BY SafeRepoAssumption DEF TypeOK, Map, AbsStore

LEMMA InitRefinement == Init => Store!Init
<1> SUFFICES ASSUME Init
             PROVE  Store!Init
  OBVIOUS
<1>1. AbsStore = EmptyMap
  BY DEF Init, AbsStore, EmptyMap
<1>2. AbsDone = [p \in Procs |-> FALSE]
  BY DEF Init, AbsDone, Updating
<1> QED
  BY <1>1, <1>2 DEF Init, Store!Init, EmptyMap, Store!EmptyMap

LEMMA StepRefinement ==
  IInv /\ IInv' /\ [Next]_vars => [Store!Next]_Store!vars
<1> SUFFICES ASSUME IInv, IInv', [Next]_vars
             PROVE  [Store!Next]_Store!vars
  OBVIOUS
<1> USE DEF Writable, Updating, Goto
<1>1. ASSUME NEW p \in Procs, NEW r \in Store!Requests, Call(p, r)
      PROVE  Store!Call(p, r)
  <2>1. req[p] = Store!NoReq
    BY <1>1 DEF IInv, CallsMatch, Call
  <2>2. AbsStore' = AbsStore
    BY <1>1, <2>1 DEF IInv, TypeOK, LockHeld, Call, AbsStore
  <2>3. AbsDone' = AbsDone
    BY <1>1 DEF IInv, TypeOK, Call, AbsDone
  <2> QED
    BY <1>1, <2>1, <2>2, <2>3 DEF Call, Store!Call
<1>2. ASSUME NEW p \in Procs, Lock(p)
      PROVE  UNCHANGED Store!vars
  <2>1. AbsStore' = AbsStore
    BY <1>2, SafeRepoAssumption DEF IInv, TypeOK, LockHeld, Lock, AbsStore
  <2>2. AbsDone' = AbsDone
    BY <1>2 DEF IInv, TypeOK, Lock, AbsDone
  <2> QED
    BY <1>2, <2>1, <2>2 DEF Lock, Store!vars
<1>3. ASSUME NEW p \in Procs, Locked(p)
      PROVE  Store!Update(p)
  <2>1. Writable(p) /\ writer = p /\ p # NoProc
    BY <1>3, SafeRepoAssumption DEF IInv, LockHeld, CallsMatch, Locked
  <2>2. req[p] \in Store!UpdateReq /\ req[p].op = UpdateOp
    BY <2>1, RequestOf DEF IInv
  <2>3. AbsStore = data
    BY <1>3, <2>1, AbsStoreIdle DEF IInv, Locked
  <2>4. todo'[p] = Keys(req[p].batch) /\ pc'[p] = "body"
    BY <1>3 DEF IInv, TypeOK, Locked
  <2>5. AbsStore' = Store!ApplyBatch(req[p].op, AbsStore, req[p].batch)
    BY <1>3, <2>1, <2>2, <2>3, <2>4
       DEF Locked, AbsStore, Store!ApplyBatch, Store!Merge, Merge, Keys
  <2>6. ~AbsDone[p] /\ AbsDone' = [AbsDone EXCEPT ![p] = TRUE]
    BY <1>3, <2>1 DEF IInv, TypeOK, Locked, AbsDone
  <2> QED
    BY <1>3, <2>2, <2>5, <2>6 DEF Locked, Store!Update
<1>4. ASSUME NEW p \in Procs, RLock(p)
      PROVE  UNCHANGED Store!vars
  <2>1. AbsStore' = AbsStore
    BY <1>4 DEF IInv, TypeOK, RLock, AbsStore
  <2>2. AbsDone' = AbsDone
    BY <1>4 DEF IInv, TypeOK, RLock, AbsDone
  <2> QED
    BY <1>4, <2>1, <2>2 DEF RLock, Store!vars
<1>5. ASSUME NEW p \in Procs, Load(p)
      PROVE  UNCHANGED Store!vars
  <2>1. AbsStore' = AbsStore
    BY <1>5 DEF IInv, TypeOK, Load, AbsStore
  <2>2. AbsDone' = AbsDone
    BY <1>5 DEF IInv, TypeOK, Load, AbsDone
  <2> QED
    BY <1>5, <2>1, <2>2 DEF Load, Store!vars
<1>6. ASSUME NEW p \in Procs, Assign(p)
      PROVE  UNCHANGED Store!vars
  <2>1. Writable(p) /\ writer = p /\ p # NoProc
    BY <1>6, SafeRepoAssumption DEF IInv, LockHeld, CallsMatch, Assign
  <2>2. key[p] \in todo[p] /\ old[p] = data[key[p]] /\ key[p] \in Names
    BY <1>6 DEF IInv, TypeOK, LoopSound, Assign
  <2>3. /\ data' = [data EXCEPT ![key[p]] =
                      Merge(UpdateOp, data[key[p]], req[p].batch[key[p]])]
        /\ todo'[p] = todo[p] \ {key[p]}
        /\ pc[p] = "assign" /\ pc'[p] = "body"
        /\ UNCHANGED <<writer, req, res>>
    BY <1>6, <2>2 DEF IInv, TypeOK, Assign
  <2>4. AbsStore' = AbsStore
    BY <2>1, <2>2, <2>3 DEF IInv, TypeOK, Map, AbsStore
  <2>5. AbsDone' = AbsDone
    BY <1>6 DEF IInv, TypeOK, Assign, AbsDone
  <2> QED
    BY <2>3, <2>4, <2>5 DEF Store!vars
<1>7. ASSUME NEW p \in Procs, Unlock(p)
      PROVE  UNCHANGED Store!vars
  <2>1. writer = p /\ todo[p] = {}
    BY <1>7 DEF IInv, LockHeld, Unlock
  <2>2. AbsStore = data /\ AbsStore' = data
    BY <1>7, <2>1 DEF IInv, TypeOK, Map, Unlock, AbsStore
  <2>3. ASSUME NEW q \in Procs, pc[q] = "wait"
        PROVE  ~Writable(q)
    BY <2>3 DEF IInv, CallsMatch
  <2>4. AbsDone' = AbsDone
    BY <1>7, <2>3 DEF IInv, TypeOK, Unlock, AbsDone
  <2> QED
    BY <1>7, <2>2, <2>4 DEF Unlock, Store!vars
<1>8. ASSUME NEW p \in Procs, Get(p)
      PROVE  Store!Get(p)
  <2>1. req[p] \in Store!GetReq /\ req[p].name \in Names /\ ~Writable(p)
    BY <1>8, RequestOf DEF IInv, Get
  <2>2. p \in readers
    BY <1>8, <2>1 DEF IInv, LockHeld, Get
  <2>3. AbsStore = data
    BY <2>2, AbsStoreIdle DEF IInv, LockHeld
  <2>4. AbsStore' = AbsStore
    BY <1>8, <2>2 DEF IInv, TypeOK, LockHeld, Get, AbsStore
  <2>5. ~AbsDone[p] /\ AbsDone' = [AbsDone EXCEPT ![p] = TRUE]
    BY <1>8, <2>1 DEF IInv, TypeOK, Get, AbsDone
  <2> QED
    BY <1>8, <2>1, <2>3, <2>4, <2>5 DEF Get, Store!Get
<1>9. ASSUME NEW p \in Procs, GetAll(p)
      PROVE  Store!GetAll(p)
  <2>1. req[p] \in Store!GetAllReq /\ ~Writable(p)
    BY <1>9, RequestOf DEF IInv, GetAll
  <2>2. p \in readers
    BY <1>9, <2>1 DEF IInv, LockHeld, GetAll
  <2>3. AbsStore' = AbsStore
    BY <1>9, <2>2 DEF IInv, TypeOK, LockHeld, GetAll, AbsStore
  <2>4. ~AbsDone[p] /\ AbsDone' = [AbsDone EXCEPT ![p] = TRUE]
    BY <1>9, <2>1 DEF IInv, TypeOK, GetAll, AbsDone
  <2> QED
    BY <1>9, <2>1, <2>3, <2>4 DEF GetAll, Store!GetAll
<1>10. ASSUME NEW p \in Procs, RUnlock(p)
       PROVE  UNCHANGED Store!vars
  <2>1. ~Writable(p)
    BY <1>10 DEF IInv, CallsMatch, RUnlock
  <2>2. AbsStore' = AbsStore
    BY <1>10, <2>1 DEF IInv, TypeOK, RUnlock, AbsStore
  <2>3. AbsDone' = AbsDone
    BY <1>10, <2>1 DEF IInv, TypeOK, RUnlock, AbsDone
  <2> QED
    BY <1>10, <2>2, <2>3 DEF RUnlock, Store!vars
<1>11. ASSUME NEW p \in Procs, Iterate(p)
       PROVE  UNCHANGED Store!vars
  <2>1. ~Writable(p)
    BY <1>11 DEF IInv, CallsMatch, Iterate
  <2>2. AbsStore' = AbsStore
    BY <1>11, <2>1 DEF IInv, TypeOK, Iterate, AbsStore
  <2>3. AbsDone' = AbsDone
    BY <1>11 DEF Iterate, AbsDone
  <2> QED
    BY <1>11, <2>2, <2>3 DEF Iterate, Store!vars
<1>12. ASSUME NEW p \in Procs, IterateEnd(p)
       PROVE  UNCHANGED Store!vars
  <2>1. ~Writable(p)
    BY <1>12 DEF IInv, CallsMatch, IterateEnd
  <2>2. AbsStore' = AbsStore
    BY <1>12, <2>1 DEF IInv, TypeOK, IterateEnd, AbsStore
  <2>3. AbsDone' = AbsDone
    BY <1>12, <2>1 DEF IInv, TypeOK, IterateEnd, AbsDone
  <2> QED
    BY <1>12, <2>2, <2>3 DEF IterateEnd, Store!vars
<1>13. ASSUME NEW p \in Procs, Return(p)
       PROVE  Store!Return(p)
  <2>1. UpdateOp # "none"
    BY RequestOf DEF IInv
  <2>2. AbsStore' = AbsStore
    BY <1>13, <2>1 DEF IInv, TypeOK, Return, AbsStore, Store!NoReq
  <2>3. AbsDone[p] /\ AbsDone' = [AbsDone EXCEPT ![p] = FALSE]
    BY <1>13, <2>1 DEF IInv, TypeOK, Return, AbsDone, Store!NoReq
  <2> QED
    BY <1>13, <2>2, <2>3 DEF Return, Store!Return
<1>14. CASE UNCHANGED vars
  BY <1>14 DEF vars, Store!vars, AbsStore, AbsDone
<1> QED
  BY <1>1, <1>2, <1>3, <1>4, <1>5, <1>6, <1>7, <1>8, <1>9, <1>10, <1>11,
     <1>12, <1>13, <1>14 DEF Next, Step, Store!Next

\* The repository is linearizable: the updates and reads of any number of
\* callers, done under MRepo.mu in several steps, look atomic to them.
THEOREM Implementation == Spec => Linearizable
<1>1. Init => Store!Init
  BY InitRefinement
<1>2. IInv /\ IInv' /\ [Next]_vars => [Store!Next]_Store!vars
  BY StepRefinement
<1> QED
  BY <1>1, <1>2, Invariance, PTL DEF Spec, Linearizable, Store!Spec
=============================================================================
