----------------------------- MODULE BackupFile ------------------------------
(***************************************************************************)
(* What becomes of a backup file whose gauges end with its byte g and      *)
(* which has n bytes, when RestorePrev reads it through a bufio.Scanner:   *)
(* RestoreScan shows it byte by byte, ServerLife relies on it.             *)
(***************************************************************************)
EXTENDS Integers

CONSTANTS Buf,     \* the scanner's first buffer: startBufSize, 4096
          MaxBuf   \* its last one: MaxScanTokenSize, 65536

ASSUME BackupFileAssumption ==
  Buf \in Nat \ {0} /\ MaxBuf \in Nat /\ MaxBuf >= Buf

\* The first Scan gives up, and the second takes the gauges for the counters.
TooLong(g) == g >= MaxBuf

\* The gauges' token is a slice of the buffer.  If counters follow that are not
\* in the buffer for certain, the second Scan makes room for more and so moves
\* them over the gauges: unless it sees that there is room.
Overwritten(g, n) == g < n /\ (g > Buf \div 2 \/ n >= Buf)

\* The second Scan gives up.
CountersTooLong(g, n) == n - g >= MaxBuf

\* A piece of the file that fills the buffer may end in a comma.
FillsBuffer(n) == n >= Buf
=============================================================================
