---------------------------- MODULE MCServerLife -----------------------------
(* Small instances for TLC of ServerLife, and of the scanner RestorePrev    *)
(* reads the backup file with, RestoreScan.  ServerLife relies on how that   *)
(* cuts a file, but they share no state: the initial state says which of the *)
(* two is looked at.                                                         *)
EXTENDS ServerLife, RestoreScan

CONSTANT MaxLen   \* bound: the length of a file, in bytes

\* The update requests over maps with the entries S of them set: to gauge
\* for gauges, to a delta for counters.
Sets(S, v) == [n \in Names |-> IF n \in S THEN v ELSE Absent]
Batch(G, gauge, C, d) == [g |-> Sets(G, gauge), c |-> Sets(C, d)]

\* Updates of single counters, of one gauge, and a batch of everything.
AName == CHOOSE n \in Names : TRUE
Plain ==
  {Batch({}, 0, {n}, 1) : n \in Names} \cup
    {Batch({AName}, 0, {}, 1), Batch(Names, 0, Names, 2)}

\* The same with a gauge JSON cannot express.
WithNaN == Plain \cup {Batch({AName}, NaN, {}, 1)}

\* All files of up to MaxLen bytes.
MCInputs ==
  {f \in [len : 0 .. MaxLen, commas : SUBSET (1 .. MaxLen), sep : 0 .. MaxLen] :
     f.commas \subseteq 1 .. f.len /\ f.sep \in {0} \cup (f.commas \ {f.len})}

\* The scanner has read an empty file, which it can only do with a buffer.
ScanOff ==
  /\ input = [len |-> 0, commas |-> {}, sep |-> 0]
  /\ off = 0 /\ buf = << >> /\ start = 0 /\ end = 0 /\ err = "none"
  /\ scan = 3 /\ slice = 0 /\ kept = << >> /\ cj = << >>
  /\ panics = FALSE

MCInit == Init /\ (ScanOff \/ ScanInit)

MCNext ==
  \/ ScanOff /\ Next /\ UNCHANGED scanVars
  \/ ScanNext /\ UNCHANGED vars

MCSpec ==
  /\ MCInit /\ [][MCNext]_<<vars, scanVars>>
  /\ Fairness /\ WF_scanVars(ScanNext)
=============================================================================
