------------------------------ MODULE SafeRepo -------------------------------
(***************************************************************************)
(* The in-memory repository: safe.MRepo, a Go map behind a sync.RWMutex,   *)
(* and the methods of memory.MemorySt that run transactions on it.  One    *)
(* instance is one MRepo: the gauges with UpdateOp = "set", or the         *)
(* counters with UpdateOp = "accum".                                       *)
(*                                                                         *)
(* A transaction is not one step.  Begin takes the lock as a writer or as  *)
(* a reader, a batch is applied name by name, and an assignment to a map   *)
(* entry loads, then stores; other goroutines run in between.  GetAll      *)
(* returns the map itself: it is iterated (by the log call, by the HTML    *)
(* template, by json.Marshal) after the read lock is released.  The Go     *)
(* runtime may then see that another goroutine is inside an assignment to  *)
(* the map and kill the process.                                           *)
(***************************************************************************)
EXTENDS Metrics

CONSTANTS Procs, UpdateOp, Inputs,   \* as in MetricStore
          NoProc                     \* the lock has no writer

ASSUME SafeRepoAssumption ==
  /\ UpdateOp \in {"set", "accum"}
  /\ Inputs \subseteq Val
  /\ NoProc \notin Procs

VARIABLES data,      \* MRepo.Data
          writer,    \* who announced itself as writer on MRepo.mu, or NoProc
          readers,   \* who holds MRepo.mu as a reader
          pc,        \* where each goroutine is
          req,       \* the call it executes
          todo,      \* the names its loop over a map has not visited yet
          key,       \* the name it is assigning to
          old,       \* what it loaded from that entry
          res,       \* what its Get has found
          crashed    \* the runtime has killed the process

vars == <<data, writer, readers, pc, req, todo, key, old, res, crashed>>

\* An update is a writable transaction, everything else a read-only one.
Writable(p) == req[p].op = UpdateOp

\* The goroutine is between Begin and Unlock of a writable transaction.
Updating(p) == Writable(p) /\ pc[p] \in {"body", "assign"}

(***************************************************************************)
(* The repository as its callers may know it: an update takes effect when  *)
(* it holds the lock, so what it has still to do counts as done.           *)
(***************************************************************************)
AbsStore ==
  [n \in Names |->
     IF writer # NoProc /\ Updating(writer) /\ n \in todo[writer]
       THEN Merge(UpdateOp, data[n], req[writer].batch[n])
       ELSE data[n]]

AbsDone ==
  [p \in Procs |-> Updating(p) \/ pc[p] \in {"release", "iter", "ret"}]

Store == INSTANCE MetricStore WITH store <- AbsStore, done <- AbsDone

Init ==
  /\ data = EmptyMap
  /\ writer = NoProc
  /\ readers = {}
  /\ pc = [p \in Procs |-> "idle"]
  /\ req = [p \in Procs |-> Store!NoReq]
  /\ todo = [p \in Procs |-> {}]
  /\ key = [p \in Procs |-> Absent]
  /\ old = [p \in Procs |-> Absent]
  /\ res = [p \in Procs |-> Absent]
  /\ crashed = FALSE

Goto(p, l) == pc' = [pc EXCEPT ![p] = l]

\* A caller enters one of the methods of MemorySt.
Call(p, r) ==
  /\ pc[p] = "idle"
  /\ req' = [req EXCEPT ![p] = r]
  /\ Goto(p, "begin")
  /\ UNCHANGED <<data, writer, readers, todo, key, old, res, crashed>>

\* Mutant of Lock: a second writer does not wait for the first.
LockShared(p) ==
  /\ pc[p] = "begin" /\ Writable(p)
  /\ writer' = p
  /\ Goto(p, "drain")
  /\ UNCHANGED <<data, readers, req, todo, key, old, res, crashed>>

\* Begin(true): Lock announces the writer, which keeps new readers out.
Lock(p) ==
  /\ pc[p] = "begin" /\ Writable(p)
  /\ writer = NoProc
  /\ writer' = p
  /\ Goto(p, "drain")
  /\ UNCHANGED <<data, readers, req, todo, key, old, res, crashed>>

\* Mutant of Locked: the writer does not wait for the readers.
LockedEarly(p) ==
  /\ pc[p] = "drain"
  /\ todo' = [todo EXCEPT ![p] = Keys(req[p].batch)]
  /\ Goto(p, "body")
  /\ UNCHANGED <<data, writer, readers, req, key, old, res, crashed>>

\* Lock returns once the readers that were there have left.
Locked(p) ==
  /\ pc[p] = "drain"
  /\ readers = {}
  /\ todo' = [todo EXCEPT ![p] = Keys(req[p].batch)]
  /\ Goto(p, "body")
  /\ UNCHANGED <<data, writer, readers, req, key, old, res, crashed>>

\* Begin(false): RLock waits behind an announced writer.
RLock(p) ==
  /\ pc[p] = "begin" /\ ~Writable(p)
  /\ IF writer = NoProc
       THEN readers' = readers \cup {p} /\ Goto(p, "body")
       ELSE UNCHANGED readers /\ Goto(p, "wait")
  /\ UNCHANGED <<data, writer, req, todo, key, old, res, crashed>>

\* Set, SetAll, SetAccum and SetAccumAll look the next entry up ...
Load(p) ==
  /\ pc[p] = "body" /\ Writable(p)
  /\ \E n \in todo[p] :
       /\ key' = [key EXCEPT ![p] = n]
       /\ old' = [old EXCEPT ![p] = data[n]]
  /\ Goto(p, "assign")
  /\ UNCHANGED <<data, writer, readers, req, todo, res, crashed>>

\* ... and assign to it.
Assign(p) ==
  /\ pc[p] = "assign"
  /\ data' = [data EXCEPT ![key[p]] =
                Merge(UpdateOp, old[p], req[p].batch[key[p]])]
  /\ todo' = [todo EXCEPT ![p] = @ \ {key[p]}]
  /\ key' = [key EXCEPT ![p] = Absent]
  /\ old' = [old EXCEPT ![p] = Absent]
  /\ Goto(p, "body")
  /\ UNCHANGED <<writer, readers, req, res, crashed>>

\* Mutant of Unlock: the readers that waited are not woken.
UnlockSilent(p) ==
  /\ pc[p] = "body" /\ Writable(p)
  /\ todo[p] = {}
  /\ writer' = NoProc
  /\ Goto(p, "ret")
  /\ UNCHANGED <<data, readers, req, todo, key, old, res, crashed>>

\* The deferred Unlock of an update lets in the readers that waited.
Unlock(p) ==
  /\ pc[p] = "body" /\ Writable(p)
  /\ todo[p] = {}
  /\ writer' = NoProc
  /\ readers' = {q \in Procs : pc[q] = "wait"}
  /\ pc' = [q \in Procs |-> IF q = p THEN "ret"
                            ELSE IF pc[q] = "wait" THEN "body" ELSE pc[q]]
  /\ UNCHANGED <<data, req, todo, key, old, res, crashed>>

Get(p) ==
  /\ pc[p] = "body" /\ req[p].op = "get"
  /\ res' = [res EXCEPT ![p] = data[req[p].name]]
  /\ Goto(p, "release")
  /\ UNCHANGED <<data, writer, readers, req, todo, key, old, crashed>>

\* GetAll returns tx.repo.Data, no copy of it.
GetAll(p) ==
  /\ pc[p] = "body" /\ req[p].op = "getall"
  /\ Goto(p, "release")
  /\ UNCHANGED <<data, writer, readers, req, todo, key, old, res, crashed>>

\* Mutant of RUnlock: a transaction returns without releasing the lock.
RUnlockForgotten(p) ==
  /\ pc[p] = "release"
  /\ IF req[p].op = "getall"
       THEN todo' = [todo EXCEPT ![p] = Names] /\ Goto(p, "iter")
       ELSE UNCHANGED todo /\ Goto(p, "ret")
  /\ UNCHANGED <<data, writer, readers, req, key, old, res, crashed>>

\* The deferred Unlock of a read-only transaction.
RUnlock(p) ==
  /\ pc[p] = "release"
  /\ readers' = readers \ {p}
  /\ IF req[p].op = "getall"
       THEN todo' = [todo EXCEPT ![p] = Names] /\ Goto(p, "iter")
       ELSE UNCHANGED todo /\ Goto(p, "ret")
  /\ UNCHANGED <<data, writer, req, key, old, res, crashed>>

\* The caller ranges over the map without the lock.  If an assignment is in
\* progress the runtime may notice it: a fatal error no handler recovers.
Iterate(p) ==
  /\ pc[p] = "iter"
  /\ \E n \in todo[p] \cap Keys(data) : todo' = [todo EXCEPT ![p] = @ \ {n}]
  /\ \/ UNCHANGED crashed
     \/ (\E q \in Procs : pc[q] = "assign") /\ crashed' = TRUE
  /\ UNCHANGED <<data, writer, readers, pc, req, key, old, res>>

IterateEnd(p) ==
  /\ pc[p] = "iter" /\ todo[p] \cap Keys(data) = {}
  /\ todo' = [todo EXCEPT ![p] = {}]
  /\ Goto(p, "ret")
  /\ UNCHANGED <<data, writer, readers, req, key, old, res, crashed>>

Return(p) ==
  /\ pc[p] = "ret"
  /\ req' = [req EXCEPT ![p] = Store!NoReq]
  /\ res' = [res EXCEPT ![p] = Absent]
  /\ Goto(p, "idle")
  /\ UNCHANGED <<data, writer, readers, todo, key, old, crashed>>

\* What a goroutine does on its own once it has been called, Lock excepted.
Step(p) ==
  \/ Locked(p) \/ RLock(p) \/ Load(p) \/ Assign(p) \/ Unlock(p)
  \/ Get(p) \/ GetAll(p) \/ RUnlock(p) \/ Iterate(p) \/ IterateEnd(p)
  \/ Return(p)

Next ==
  /\ ~crashed
  /\ \E p \in Procs :
       \/ \E r \in Store!Requests : Call(p, r)
       \/ Lock(p)
       \/ Step(p)

Spec == Init /\ [][Next]_vars

(***************************************************************************)
(* The Go scheduler runs every goroutine that can run.  sync.RWMutex hands *)
(* the lock to a waiting writer in the end (its inner sync.Mutex has a     *)
(* starvation mode), hence the strong fairness of Lock.                    *)
(***************************************************************************)
Fairness ==
  \A p \in Procs : WF_vars(~crashed /\ Step(p)) /\ SF_vars(~crashed /\ Lock(p))

FairSpec == Spec /\ Fairness

-----------------------------------------------------------------------------
(***************************************************************************)
(* Properties.                                                             *)
(***************************************************************************)

\* Every variable has its type.
TypeOK ==
  /\ data \in Map
  /\ writer \in Procs \cup {NoProc}
  /\ readers \subseteq Procs
  /\ pc \in [Procs -> {"idle", "begin", "drain", "wait", "body", "assign",
                       "release", "iter", "ret"}]
  /\ req \in [Procs -> Store!Requests \cup {Store!NoReq}]
  /\ todo \in [Procs -> SUBSET Names]
  /\ key \in [Procs -> Names \cup {Absent}]
  /\ old \in [Procs -> Val \cup {Absent}]
  /\ res \in [Procs -> Val \cup {Absent}]
  /\ crashed \in BOOLEAN

\* While a goroutine is inside an update, between Begin and Unlock of Update,
\* nobody else is inside a transaction, and the entry it is about to assign
\* to still holds what it loaded: no increment is lost between the two.
UpdateIsolated ==
  \A p \in Procs :
    Updating(p) =>
      /\ \A q \in Procs \ {p} : pc[q] \notin {"body", "assign", "release"}
      /\ pc[p] = "assign" => data[key[p]] = old[p]

\* The bookkeeping of the lock: the announced writer is the goroutine that is
\* in a writable transaction, the readers are those in a read-only one, a
\* writer past Lock is alone, and a reader that waits has a writer to wake it.
LockHeld ==
  \A p \in Procs :
    /\ (writer = p) <=> (pc[p] = "drain" \/ Updating(p))
    /\ (p \in readers) <=> (~Writable(p) /\ pc[p] \in {"body", "release"})
    /\ Updating(p) => readers = {}
    /\ pc[p] = "wait" => writer # NoProc

\* What a goroutine is executing agrees with what it was called for.
CallsMatch ==
  \A p \in Procs :
    /\ (pc[p] = "idle") <=> (req[p] = Store!NoReq)
    /\ pc[p] \in {"drain", "assign"} => Writable(p)
    /\ pc[p] \in {"wait", "release", "iter"} => ~Writable(p)

\* The loop over a batch: what is left of it is part of it, and the entry
\* being assigned to is as it was loaded.
LoopSound ==
  \A p \in Procs :
    /\ Updating(p) => todo[p] \subseteq Keys(req[p].batch)
    /\ pc[p] = "assign" => key[p] \in todo[p] /\ old[p] = data[key[p]]

\* The inductive invariant behind UpdateIsolated and Linearizable.
IInv == TypeOK /\ LockHeld /\ CallsMatch /\ LoopSound

\* The repository is linearizable: whatever the interleaving of loads and
\* stores, callers see single updates, batches and reads of one metric take
\* effect atomically, each exactly once.
Linearizable == Store!Spec

\* Every call returns unless the runtime kills the process: the lock is
\* released on every path and nobody waits for it forever.
CallsReturn == \A p \in Procs : pc[p] = "begin" ~> (pc[p] = "idle" \/ crashed)

\* No iteration over what GetAll returned meets an assignment in progress.
NeverCrashes == ~crashed
=============================================================================
