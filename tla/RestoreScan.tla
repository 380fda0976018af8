----------------------------- MODULE RestoreScan -----------------------------
(***************************************************************************)
(* How RestorePrev cuts the backup file into the gauges' object and the    *)
(* counters': a bufio.Scanner, whose buffer starts empty, is filled by     *)
(* reads and doubled, and RestorePrev's split function.                    *)
(*                                                                         *)
(* The bytes of the file are told apart by their positions.  What matters  *)
(* of them is which are commas and which comma an opening brace follows.   *)
(* The token of the first Scan is a slice of the scanner's buffer, and it  *)
(* is used only after the second.                                          *)
(***************************************************************************)
EXTENDS BackupFile, Sequences, SequencesExt

CONSTANT Inputs   \* bound: the files there may be

ASSUME InputsAssumption ==
  \A f \in Inputs : /\ f.len \in Nat /\ f.commas \subseteq 1 .. f.len
                   /\ f.sep \in {0} \cup (f.commas \ {f.len})

VARIABLES input,   \* the file: its length, its commas, and the one before "{"
          off,     \* how much of it has been read
          buf,     \* Scanner.buf: the positions its bytes come from
          start,   \* Scanner.start: what has been handed out
          end,     \* Scanner.end: what has been read into buf
          err,     \* Scanner.err: "none", "eof" or "tooLong"
          scan,    \* the Scan that is running: 1, 2, or 3 when both are over
          slice,   \* the first token: a slice of buf, from 1 to slice
          kept,    \* or of an earlier buffer, which nobody writes to any more
          cj,      \* the second token
          panics   \* the split function has panicked

scanVars == <<input, off, buf, start, end, err, scan, slice, kept, cj, panics>>

scanner == <<off, buf, start, end, err>>

\* The first token, as RestorePrev finds it when it comes to use it.
gj == IF kept # << >> THEN kept ELSE SubSeq(buf, 1, slice)

ScanInit ==
  /\ input \in Inputs
  /\ off = 0 /\ buf = << >> /\ start = 0 /\ end = 0 /\ err = "none"
  /\ scan = 1 /\ slice = 0 /\ kept = << >> /\ cj = << >>
  /\ panics = FALSE

\* What the split function is given.
Data == SubSeq(buf, start + 1, end)

\* Mutant of Stops: the byte behind is looked at before the comma is.
StopsAnywhere(d) ==
  {i \in 1 .. Len(d) :
     \/ i = Len(d)
     \/ d[i] \in input.commas /\ input.sep # 0 /\ d[i + 1] = input.sep + 1}

\* Where the split function's loop comes to an end: a comma with an opening
\* brace behind it, or a comma that has nothing behind it.
Stops(d) ==
  {i \in 1 .. Len(d) : /\ d[i] \in input.commas
                       /\ \/ i = Len(d)
                          \/ input.sep # 0 /\ d[i + 1] = input.sep + 1}

FirstStop(d) == CHOOSE i \in Stops(d) : \A j \in Stops(d) : i <= j

Running == scan <= 2 /\ ~panics

\* Scan returns true with the first n bytes of the data.
Token(n) ==
  /\ IF scan = 1 THEN slice' = n /\ UNCHANGED cj
                 ELSE cj' = SubSeq(Data, 1, n) /\ UNCHANGED slice
  /\ start' = start + n
  /\ scan' = scan + 1
  /\ UNCHANGED <<input, off, buf, end, err, kept, panics>>

\* A comma and a brace.
Split ==
  /\ Running /\ Stops(Data) # {} /\ FirstStop(Data) < Len(Data)
  /\ Token(FirstStop(Data))

\* data[i+1] is out of range.
LookPast ==
  /\ Running /\ Stops(Data) # {} /\ FirstStop(Data) = Len(Data)
  /\ panics' = TRUE
  /\ UNCHANGED <<input, scanner, scan, slice, kept, cj>>

\* There will be no more, be it the file that ends or the buffer: all of it.
Rest ==
  /\ Running /\ Stops(Data) = {} /\ err # "none" /\ Data # << >>
  /\ Token(Len(Data))

\* Scan returns false.
NoToken ==
  /\ Running /\ err # "none" /\ Data = << >>
  /\ start' = 0 /\ end' = 0
  /\ scan' = scan + 1
  /\ UNCHANGED <<input, off, buf, err, slice, kept, cj, panics>>

More == Running /\ Stops(Data) = {} /\ err = "none"

\* Mutant of Crowded: only a full buffer is.
CrowdedWhenFull == start > 0 /\ end = Len(buf)

\* The data is to be moved to the front of the buffer before more is read.
Crowded == start > 0 /\ (end = Len(buf) \/ start > Len(buf) \div 2)

\* Mutants of Shift: the start is not set back; the data are not moved.
ShiftHalf ==
  /\ More /\ Crowded
  /\ buf' = [i \in 1 .. Len(buf) |->
               IF i <= end - start THEN Data[i] ELSE buf[i]]
  /\ end' = end - start /\ UNCHANGED start
  /\ UNCHANGED <<input, off, err, scan, slice, kept, cj, panics>>
ShiftUncopied ==
  /\ More /\ Crowded
  /\ end' = end - start /\ start' = 0
  /\ UNCHANGED <<input, off, buf, err, scan, slice, kept, cj, panics>>

\* copy(s.buf, s.buf[s.start:s.end]).
Shift ==
  /\ More /\ Crowded
  /\ buf' = [i \in 1 .. Len(buf) |->
               IF i <= end - start THEN Data[i] ELSE buf[i]]
  /\ end' = end - start /\ start' = 0
  /\ UNCHANGED <<input, off, err, scan, slice, kept, cj, panics>>

\* Scan returns false: the buffer is full and as large as it may be.
GiveUp ==
  /\ More /\ ~Crowded /\ end = Len(buf) /\ Len(buf) >= MaxBuf
  /\ err' = "tooLong"
  /\ scan' = scan + 1
  /\ UNCHANGED <<input, off, buf, start, end, slice, kept, cj, panics>>

\* Mutant of Grow: twice nothing is nothing.
GrowTwice ==
  /\ More /\ ~Crowded /\ end = Len(buf) /\ Len(buf) < MaxBuf
  /\ LET size == 2 * Len(buf)
         new == IF size < MaxBuf THEN size ELSE MaxBuf
     IN  buf' = [i \in 1 .. new |-> IF i <= Len(Data) THEN Data[i] ELSE 0]
  /\ kept' = gj
  /\ end' = end - start /\ start' = 0
  /\ UNCHANGED <<input, off, err, scan, slice, cj, panics>>

\* A full buffer is replaced by one twice its size.
Grow ==
  /\ More /\ ~Crowded /\ end = Len(buf) /\ Len(buf) < MaxBuf
  /\ LET size == IF buf = << >> THEN Buf ELSE 2 * Len(buf)
         new == IF size < MaxBuf THEN size ELSE MaxBuf
     IN  buf' = [i \in 1 .. new |-> IF i <= Len(Data) THEN Data[i] ELSE 0]
  /\ kept' = gj
  /\ end' = end - start /\ start' = 0
  /\ UNCHANGED <<input, off, err, scan, slice, cj, panics>>

\* A file gives what there is room for.
Read ==
  /\ More /\ ~Crowded /\ end < Len(buf)
  /\ LET room == Len(buf) - end
         n == IF input.len - off < room THEN input.len - off ELSE room
     IN  /\ buf' = [i \in 1 .. Len(buf) |->
                      IF i > end /\ i <= end + n THEN off + i - end ELSE buf[i]]
         /\ off' = off + n /\ end' = end + n
         /\ err' = IF n = 0 THEN "eof" ELSE "none"
  /\ UNCHANGED <<input, start, scan, slice, kept, cj, panics>>

ScanNext ==
  \/ Split \/ LookPast \/ Rest \/ NoToken
  \/ Shift \/ GiveUp \/ Grow \/ Read

ScanSpec == ScanInit /\ [][ScanNext]_scanVars

\* RestorePrev runs on its own, before anything else is started.
ScanFairSpec == ScanSpec /\ WF_scanVars(ScanNext)

-----------------------------------------------------------------------------
(* Properties. *)

\* Every variable has its type, and the bounds of the data are in order.
ScanTypeOK ==
  /\ input \in Inputs
  /\ off \in 0 .. input.len
  /\ buf \in Seq(0 .. input.len) /\ Len(buf) <= MaxBuf
  /\ start \in 0 .. Len(buf) /\ end \in start .. Len(buf)
  /\ err \in {"none", "eof", "tooLong"}
  /\ scan \in 1 .. 3
  /\ slice \in Nat
  /\ kept \in Seq(0 .. input.len) /\ cj \in Seq(0 .. input.len)
  /\ panics \in BOOLEAN

\* The data in the buffer is what was read last, without a gap: however it is
\* moved, copied and read on, nothing between the first token and the end of
\* what has been read is skipped or seen twice.
DataInOrder ==
  \A i \in 1 .. end - start : buf[start + i] = off - (end - start) + i

\* The bytes from a to b of the file.
Bytes(a, b) == [i \in 1 .. b - a + 1 |-> a + i - 1]

\* The gauges' object is all of the file if no counters follow.
Gauges == IF input.sep = 0 THEN input.len ELSE input.sep

\* What RestorePrev is left with when it has read the file, for every length of
\* the two objects against the buffer and every place a comma may be in: the
\* gauges are those of the file unless they are too long or were overwritten,
\* and the counters unless one of the two is too long.
CutAsPredicted ==
  scan = 3 =>
    /\ (gj = Bytes(1, Gauges)) <=>
         ~(TooLong(Gauges) \/ Overwritten(Gauges, input.len))
    /\ (cj = Bytes(Gauges + 1, input.len)) <=>
         ~(TooLong(Gauges) \/ CountersTooLong(Gauges, input.len))

\* RestorePrev panics on no file but one that ends in a comma, as a torn one may,
\* or one that is long enough to fill the scanner's first buffer.
PanicsAsPredicted ==
  panics => input.len \in input.commas \/ FillsBuffer(input.len)

\* RestorePrev comes to an end.
Ends == <>(scan = 3 \/ panics)
=============================================================================
