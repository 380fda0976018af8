------------------------------- MODULE Metrics -------------------------------
(***************************************************************************)
(* The data every component of perfmon passes around: named metrics, kept  *)
(* in Go maps (GaugeMap and CounterMap of package mondata).                *)
(*                                                                         *)
(* A map is a function on Names whose value is Absent where the Go map has *)
(* no entry, so a store, a batch of updates and a report all have the type *)
(* Map.  A counter is an int64 and its sum wraps around: Val stands for    *)
(* the 2^64 residues, W of them.  A gauge is a float64 that is only ever   *)
(* overwritten, for which any W distinguishable values do.                 *)
(***************************************************************************)
EXTENDS Integers

CONSTANTS Names,   \* the names of metrics
          W,       \* the number of values of a metric: 2^64 in the program
          Absent   \* what a map holds where it has no entry

Val == 0 .. W - 1

ASSUME MetricsAssumption ==
  /\ W \in Nat \ {0}
  /\ Absent \notin Val

Map == [Names -> Val \cup {Absent}]

EmptyMap == [n \in Names |-> Absent]

\* The names that have an entry in m.
Keys(m) == {n \in Names : m[n] # Absent}

Zero == [n \in Names |-> 0]

\* A missing counter counts as zero.
Count(x) == IF x = Absent THEN 0 ELSE x

\* What has been counted, and the deltas of a batch on top of it, in numbers
\* that do not wrap around.
Plus(count, batch) == [n \in Names |-> count[n] + Count(batch[n])]

\* Mutant of Merge: the sum does not wrap around.
MergeUnbounded(op, old, v) ==
  IF op = "accum" /\ old # Absent THEN old + v ELSE v

\* Mutants of Merge: the delta is subtracted; the delta replaces the sum.
MergeMinus(op, old, v) ==
  IF op = "accum" /\ old # Absent THEN old - v ELSE v
MergeOverwrite(op, old, v) == v

\* What an update with operation op leaves where old was and v is given:
\* "set" overwrites, "accum" adds to an existing entry and creates a missing
\* one.
Merge(op, old, v) ==
  IF op = "accum" /\ old # Absent THEN (old + v) % W ELSE v

\* The map m after the whole batch b.
ApplyBatch(op, m, b) ==
  [n \in Names |-> IF b[n] = Absent THEN m[n] ELSE Merge(op, m[n], b[n])]
=============================================================================
