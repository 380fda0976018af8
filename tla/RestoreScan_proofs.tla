------------------------- MODULE RestoreScan_proofs --------------------------
(***************************************************************************)
(* Proofs about RestoreScan, for buffers of any two sizes and any files:   *)
(* the types, that the scanner's data are a piece of the file without a    *)
(* gap, which files the split function panics on, that the steps it takes  *)
(* run out, and what the two tokens are in the end.                        *)
(***************************************************************************)
EXTENDS RestoreScan, SequenceTheorems, FiniteSetTheorems, TLAPS

-----------------------------------------------------------------------------
(* Numbers and sequences. *)

\* A set of numbers up to n that is not empty has a least one: one of its
\* initial segments has no smaller one.
LEMMA Least ==
  ASSUME NEW n \in Nat, NEW T \in SUBSET (1 .. n), T # {}
  PROVE  \E m \in T : \A k \in T : m <= k
<1> DEFINE Upto(k) == T \cap (1 .. k)
           Segments == {Upto(k) : k \in T}
<1>1. IsFiniteSet(T)
  <2>1. IsFiniteSet(1 .. n)
    BY FS_Interval
  <2> QED
    BY <2>1, FS_Subset
<1>2. IsWellFoundedOn(StrictSubsetOrdering(T), SUBSET T)
  BY <1>1, FS_StrictSubsetOrderingWellFounded, FS_FiniteSubsetsOfFinite
<1>3. Segments \subseteq SUBSET T /\ Segments # {}
  OBVIOUS
<1>4. PICK x \in Segments :
        \A y \in Segments : <<y, x>> \notin StrictSubsetOrdering(T)
  <2> HIDE DEF Segments
  <2> QED
    BY <1>2, <1>3, WFMin
<1>5. PICK m \in T : x = Upto(m)
  OBVIOUS
<1>6. ASSUME NEW k \in T, k < m
      PROVE  FALSE
  <2>1. Upto(k) \subseteq Upto(m) /\ m \in Upto(m) /\ m \notin Upto(k)
    BY <1>6
  <2>2. Upto(k) \in Segments /\ Upto(k) \in SUBSET T /\ Upto(m) \in SUBSET T
    OBVIOUS
  <2> HIDE DEF Upto, Segments
  <2>3. <<Upto(k), Upto(m)>> \in StrictSubsetOrdering(T)
    BY <2>1, <2>2 DEF StrictSubsetOrdering
  <2> QED
    BY <1>4, <1>5, <2>2, <2>3
<1> QED
  BY <1>6

\* A function of 1 .. n is a sequence of length n.
LEMMA Sequence ==
  ASSUME NEW S, NEW n \in Nat, NEW f \in [1 .. n -> S]
  PROVE  f \in Seq(S) /\ Len(f) = n
<1>1. f \in Seq(S)
  BY SeqDef
<1>2. 1 .. Len(f) = 1 .. n /\ Len(f) \in Nat
  BY <1>1, LenProperties
<1> QED
  BY <1>1, <1>2

-----------------------------------------------------------------------------
(* The scanner's data. *)

\* What a byte of the buffer may be: a position of the file, or nothing yet.
Position == 0 .. input.len

FileType == input.len \in Nat /\ input.commas \subseteq 1 .. input.len

LEMMA FileTypes ==
  ASSUME ScanTypeOK
  PROVE  FileType
BY InputsAssumption DEF ScanTypeOK, FileType

LEMMA Bounds ==
  ASSUME ScanTypeOK
  PROVE  /\ Len(buf) \in Nat /\ start \in Nat /\ end \in Nat
         /\ start <= end /\ end <= Len(buf)
         /\ \A i \in 1 .. Len(buf) : buf[i] \in Position
<1>1. buf \in Seq(Position)
  BY DEF ScanTypeOK, Position
<1>2. Len(buf) \in Nat /\ \A i \in 1 .. Len(buf) : buf[i] \in Position
  BY <1>1, LenProperties, ElementOfSeq
<1> QED
  BY <1>2 DEF ScanTypeOK

\* The data are what is between start and end.
LEMMA Datum ==
  ASSUME ScanTypeOK
  PROVE  /\ Data \in Seq(Position) /\ Len(Data) = end - start
         /\ \A i \in 1 .. end - start : Data[i] = buf[start + i]
<1>1. \A i \in start + 1 .. end : buf[i] \in Position
  BY Bounds
<1>2. /\ Data \in Seq(Position)
      /\ Len(Data) = IF start + 1 <= end THEN end - (start + 1) + 1 ELSE 0
      /\ \A i \in 1 .. end - (start + 1) + 1 : Data[i] = buf[start + 1 + i - 1]
  BY <1>1, Bounds, SubSeqProperties DEF Data
<1> QED
  BY <1>2, Bounds

LEMMA MovedDatum ==
  ASSUME ScanTypeOK
  PROVE  \A i \in 1 .. end - start :
           Data[i] = buf[start + i] /\ Data[i] \in Position
<1> TAKE i \in 1 .. end - start
<1>1. Data[i] = buf[start + i]
  BY Datum
<1>2. start + i \in 1 .. Len(buf)
  BY Bounds
<1> QED
  BY <1>1, <1>2, Bounds

\* Where the split function stops is within the data.
LEMMA StopWithin ==
  ASSUME ScanTypeOK, Stops(Data) # {}
  PROVE  FirstStop(Data) \in Stops(Data) /\ FirstStop(Data) \in 1 .. end - start
<1>1. Len(Data) \in Nat /\ Len(Data) = end - start
  BY Datum, Bounds
<1>2. Stops(Data) \in SUBSET (1 .. Len(Data))
  BY DEF Stops
<1>3. \E m \in Stops(Data) : \A k \in Stops(Data) : m <= k
  BY <1>1, <1>2, Least
<1>4. FirstStop(Data) \in Stops(Data)
  BY <1>3 DEF FirstStop
<1> QED
  BY <1>1, <1>2, <1>4

-----------------------------------------------------------------------------
(***************************************************************************)
(* The inductive invariant.  The first token is a slice of the buffer, and *)
(* once anything has been read the buffer's first filling has been, or the *)
(* whole file.                                                             *)
(***************************************************************************)
Filled ==
  /\ off \in {0, input.len} \/ off >= Buf
  /\ off = 0 => end = 0
  /\ Len(buf) = 0 \/ Len(buf) >= Buf

IInv ==
  ScanTypeOK /\ slice <= Len(buf) /\ DataInOrder /\ Filled /\ PanicsAsPredicted

LEMMA InitIInv == ScanInit => IInv
<1> SUFFICES ASSUME ScanInit
             PROVE  IInv
  OBVIOUS
<1>1. buf = << >> /\ Len(buf) = 0 /\ kept = << >> /\ cj = << >>
  BY DEF ScanInit
<1>2. input.len \in Nat
  BY InputsAssumption DEF ScanInit
<1>3. ScanTypeOK
  <2>1. /\ buf \in Seq(0 .. input.len) /\ kept \in Seq(0 .. input.len)
        /\ cj \in Seq(0 .. input.len)
    BY <1>1, EmptySeq
  <2>2. /\ Len(buf) <= MaxBuf /\ off \in 0 .. input.len
        /\ start \in 0 .. Len(buf) /\ end \in start .. Len(buf)
    BY <1>1, <1>2, BackupFileAssumption DEF ScanInit
  <2>3. /\ input \in Inputs /\ err \in {"none", "eof", "tooLong"}
        /\ scan \in 1 .. 3 /\ slice \in Nat /\ panics \in BOOLEAN
    <3>1. input \in Inputs /\ err = "none" /\ scan = 1 /\ slice = 0
      BY DEF ScanInit
    <3>2. panics \in BOOLEAN
      BY Zenon DEF ScanInit
    <3>3. scan \in 1 .. 3 /\ slice \in Nat
      BY <3>1
    <3> QED
      BY <3>1, <3>2, <3>3, Zenon
  <2> QED
    BY <2>1, <2>2, <2>3 DEF ScanTypeOK
<1> QED
  BY <1>1, <1>2, <1>3 DEF ScanInit, IInv, DataInOrder, Filled, PanicsAsPredicted

\* Data handed out leave the rest as they were.
LEMMA TokenKeeps ==
  ASSUME IInv, Running, NEW n \in 1 .. end - start, Token(n)
  PROVE  IInv'
<1>1. /\ start' = start + n /\ scan' = scan + 1
      /\ UNCHANGED <<input, off, buf, end, err, kept, panics>>
      /\ slice' \in {slice, n} /\ cj' \in {cj, SubSeq(Data, 1, n)}
  BY DEF Token
<1>2. /\ Len(buf) \in Nat /\ start \in Nat /\ end \in Nat
      /\ start <= end /\ end <= Len(buf)
  BY Bounds DEF IInv
<1>3. SubSeq(Data, 1, n) \in Seq(Position)
  <2>1. Data \in Seq(Position) /\ Len(Data) = end - start
    BY Datum DEF IInv
  <2>2. \A i \in 1 .. n : Data[i] \in Position
    BY <1>2, <2>1, ElementOfSeq
  <2> QED
    BY <2>2, SubSeqProperties
<1>4. scan' \in 1 .. 3
  BY <1>1 DEF Running, IInv, ScanTypeOK
<1>5. start' \in 0 .. Len(buf) /\ end \in start' .. Len(buf)
  BY <1>1, <1>2
<1>6. slice' \in Nat /\ slice' <= Len(buf)
  BY <1>1, <1>2 DEF IInv, ScanTypeOK
<1>7. ScanTypeOK'
  BY <1>1, <1>3, <1>4, <1>5, <1>6 DEF IInv, ScanTypeOK, Position
<1>8. DataInOrder'
  <2> SUFFICES ASSUME NEW i \in 1 .. end - (start + n)
               PROVE  buf[start + n + i] = off - (end - (start + n)) + i
    BY <1>1 DEF DataInOrder
  <2>1. n + i \in 1 .. end - start
    BY <1>2
  <2>2. buf[start + (n + i)] = off - (end - start) + (n + i)
    BY <2>1 DEF IInv, DataInOrder
  <2>3. off \in Int
    BY FileTypes DEF IInv, ScanTypeOK, FileType
  <2> QED
    BY <1>2, <2>2, <2>3
<1>9. Filled' /\ PanicsAsPredicted'
  BY <1>1 DEF IInv, Filled, PanicsAsPredicted
<1> QED
  BY <1>1, <1>6, <1>7, <1>8, <1>9 DEF IInv

\* The data are moved to the front, of this buffer or of a new one.
LEMMA MovedKeeps ==
  ASSUME IInv, NEW n \in Nat, n >= Len(buf), n >= Buf, n <= MaxBuf,
         buf' \in [1 .. n -> Position],
         \A i \in 1 .. end - start : buf'[i] = buf[start + i],
         kept' \in Seq(Position),
         start' = 0, end' = end - start,
         UNCHANGED <<input, off, err, scan, slice, cj, panics>>
  PROVE  IInv'
<1>1. buf' \in Seq(Position) /\ Len(buf') = n
  BY Sequence
<1>2. /\ Len(buf) \in Nat /\ start \in Nat /\ end \in Nat
      /\ start <= end /\ end <= Len(buf)
  BY Bounds DEF IInv
<1>3. start' \in 0 .. Len(buf') /\ end' \in start' .. Len(buf')
  BY <1>1, <1>2
<1>4. slice' <= Len(buf')
  BY <1>1, <1>2 DEF IInv, ScanTypeOK
<1>5. ScanTypeOK'
  BY <1>1, <1>3 DEF IInv, ScanTypeOK, Position
<1>6. DataInOrder'
  BY <1>2 DEF IInv, DataInOrder
<1>7. Filled'
  BY <1>1, <1>2 DEF IInv, Filled
<1>8. PanicsAsPredicted'
  BY DEF IInv, PanicsAsPredicted
<1> QED
  BY <1>4, <1>5, <1>6, <1>7, <1>8 DEF IInv

\* What is read follows what is there.
LEMMA ReadKeeps ==
  ASSUME IInv, Read
  PROVE  IInv'
<1> DEFINE room == Len(buf) - end
           n == IF input.len - off < room THEN input.len - off ELSE room
<1>1. /\ Len(buf) \in Nat /\ start \in Nat /\ end \in Nat
      /\ start <= end /\ end < Len(buf)
      /\ \A i \in 1 .. Len(buf) : buf[i] \in Position
  BY Bounds DEF IInv, Read
<1>2. input.len \in Nat /\ off \in 0 .. input.len
  BY FileTypes DEF IInv, FileType, ScanTypeOK
<1>3. /\ buf' = [i \in 1 .. Len(buf) |->
                   IF i > end /\ i <= end + n THEN off + i - end ELSE buf[i]]
      /\ off' = off + n /\ end' = end + n
      /\ err' = IF n = 0 THEN "eof" ELSE "none"
      /\ UNCHANGED <<input, start, scan, slice, kept, cj, panics>>
  BY DEF Read
<1>4. /\ n \in Nat /\ off + n <= input.len /\ end + n <= Len(buf)
      /\ off + n = input.len \/ n = Len(buf) - end
  BY <1>1, <1>2
<1> HIDE DEF n
<1>5. buf' \in [1 .. Len(buf) -> Position]
  <2>1. \A i \in 1 .. Len(buf) :
          i > end /\ i <= end + n => off + i - end \in Position
    BY <1>1, <1>2, <1>4 DEF Position
  <2> QED
    BY <1>1, <1>3, <2>1
<1>6. buf' \in Seq(Position) /\ Len(buf') = Len(buf)
  BY <1>1, <1>5, Sequence
<1>7. off' \in 0 .. input.len
  BY <1>2, <1>3, <1>4
<1>8. start' \in 0 .. Len(buf') /\ end' \in start' .. Len(buf')
  <2>1. start \in 0 .. Len(buf) /\ end + n \in start .. Len(buf)
    BY <1>1, <1>4
  <2> QED
    BY <1>3, <1>6, <2>1
<1>9. ScanTypeOK'
  BY <1>3, <1>6, <1>7, <1>8 DEF IInv, ScanTypeOK, Position
<1>10. DataInOrder'
  <2>5. off' = off + n /\ end' = end + n /\ start' = start
    BY <1>3
  <2> DEFINE InOrder(o, s, e) ==
               \A i \in 1 .. e - s : buf'[s + i] = o - (e - s) + i
  <2> SUFFICES InOrder(off', start', end')
    BY Zenon DEF DataInOrder
  <2> SUFFICES InOrder(off + n, start, end + n)
    <3> HIDE DEF InOrder
    <3> QED
      BY <2>5
  <2> SUFFICES ASSUME NEW i \in 1 .. (end + n) - start
               PROVE  buf'[start + i] = (off + n) - ((end + n) - start) + i
    OBVIOUS
  <2>4. i \in 1 .. (end + n) - start
    OBVIOUS
  <2>1. start + i \in 1 .. Len(buf)
    BY <1>1, <1>4, <2>4
  <2>2. CASE start + i > end
    <3>1. start + i <= end + n
      BY <1>1, <1>4, <2>4
    <3>2. buf'[start + i] = off + (start + i) - end
      BY <1>3, <2>1, <2>2, <3>1
    <3> QED
      BY <1>1, <1>2, <1>4, <2>4, <3>2
  <2>3. CASE start + i <= end
    <3>1. i \in 1 .. end - start
      BY <1>1, <2>3, <2>4
    <3>2. buf'[start + i] = buf[start + i]
      BY <1>1, <1>3, <2>1, <2>3
    <3>3. buf[start + i] = off - (end - start) + i
      BY <3>1 DEF IInv, DataInOrder
    <3> QED
      BY <1>1, <1>2, <1>4, <2>4, <3>2, <3>3
  <2> QED
    BY <1>1, <2>2, <2>3, <2>4
<1>11. Filled'
  <2>1. off' = input.len \/ off' >= Buf \/ off' = 0
    <3>1. CASE off = 0
      BY <1>1, <1>2, <1>3, <1>4, <3>1 DEF IInv, Filled
    <3>2. CASE off # 0
      BY <1>2, <1>3, <1>4, <3>2, BackupFileAssumption DEF IInv, Filled
    <3> QED
      BY <3>1, <3>2
  <2>2. off' = 0 => end' = 0
    BY <1>1, <1>2, <1>3, <1>4 DEF IInv, Filled
  <2> QED
    BY <1>3, <1>6, <2>1, <2>2 DEF IInv, Filled
<1> QED
  BY <1>3, <1>6, <1>9, <1>10, <1>11 DEF IInv, PanicsAsPredicted

\* The last of the data is the last byte that has been read: if the split
\* function looks past it, the file ends there or the buffer has been filled.
LEMMA LookPastKeeps ==
  ASSUME IInv, LookPast
  PROVE  IInv'
<1>1. /\ Stops(Data) # {} /\ FirstStop(Data) = Len(Data) /\ panics' = TRUE
      /\ UNCHANGED <<input, off, buf, start, end, err, scan, slice, kept, cj>>
  BY DEF LookPast, scanner
<1>2. FirstStop(Data) \in Stops(Data) /\ FirstStop(Data) \in 1 .. end - start
  BY <1>1, StopWithin DEF IInv
<1>3. Len(Data) = end - start /\ start \in Nat /\ end \in Nat
  BY Datum, Bounds DEF IInv
<1>4. Data[end - start] \in input.commas
  BY <1>1, <1>2, <1>3 DEF Stops
<1>5. Data[end - start] = off
  <2>1. end - start \in 1 .. end - start
    BY <1>1, <1>2, <1>3
  <2>2. Data[end - start] = buf[start + (end - start)]
    BY <2>1, Datum DEF IInv
  <2>3. buf[start + (end - start)] = off - (end - start) + (end - start)
    BY <2>1 DEF IInv, DataInOrder
  <2>4. off \in Int
    BY FileTypes DEF IInv, ScanTypeOK, FileType
  <2> QED
    BY <1>3, <2>2, <2>3, <2>4
<1>6. input.len \in Nat /\ off \in 1 .. input.len
  BY <1>4, <1>5, FileTypes DEF IInv, FileType
<1>7. input.len \in input.commas \/ FillsBuffer(input.len)
  BY <1>4, <1>5, <1>6, BackupFileAssumption DEF IInv, Filled, FillsBuffer
<1>8. PanicsAsPredicted'
  BY <1>1, <1>7 DEF PanicsAsPredicted
<1> QED
  BY <1>1, <1>8 DEF IInv, ScanTypeOK, DataInOrder, Filled

-----------------------------------------------------------------------------
(* The steps. *)

\* A prefix of the buffer is a piece of the file's positions.
LEMMA TokenSeq ==
  ASSUME IInv
  PROVE  gj \in Seq(Position)
<1>1. slice \in Nat /\ slice <= Len(buf) /\ kept \in Seq(Position)
  BY DEF IInv, ScanTypeOK, Position
<1>2. \A i \in 1 .. slice : buf[i] \in Position
  BY <1>1, Bounds DEF IInv
<1>3. SubSeq(buf, 1, slice) \in Seq(Position)
  BY <1>1, <1>2, SubSeqProperties
<1> QED
  BY <1>1, <1>3 DEF gj

LEMMA ShiftKeeps ==
  ASSUME IInv, Shift
  PROVE  IInv'
<1>1. /\ buf' = [i \in 1 .. Len(buf) |->
                   IF i <= end - start THEN Data[i] ELSE buf[i]]
      /\ end' = end - start /\ start' = 0 /\ start > 0
      /\ UNCHANGED <<input, off, err, scan, slice, kept, cj, panics>>
  BY DEF Shift, Crowded
<1>2. /\ Len(buf) \in Nat /\ start \in Nat /\ end \in Nat
      /\ start <= end /\ end <= Len(buf)
      /\ \A i \in 1 .. Len(buf) : buf[i] \in Position
  BY Bounds DEF IInv
<1>3. \A i \in 1 .. end - start :
        Data[i] = buf[start + i] /\ Data[i] \in Position
  BY MovedDatum DEF IInv
<1>4. Len(buf) >= Buf /\ Len(buf) <= MaxBuf
  <2>1. Len(buf) # 0
    BY <1>1, <1>2
  <2> QED
    BY <2>1 DEF IInv, Filled, ScanTypeOK
<1>5. buf' \in [1 .. Len(buf) -> Position]
  BY <1>1, <1>2, <1>3
<1>6. \A i \in 1 .. end - start : buf'[i] = buf[start + i]
  BY <1>1, <1>2, <1>3
<1>7. kept' \in Seq(Position)
  BY <1>1 DEF IInv, ScanTypeOK, Position
<1>8. Len(buf) \in Nat /\ Len(buf) >= Len(buf)
  BY <1>2
<1>9. /\ end' = end - start /\ start' = 0
      /\ UNCHANGED <<input, off, err, scan, slice, cj, panics>>
  BY <1>1
<1> QED
  BY <1>4, <1>5, <1>6, <1>7, <1>8, <1>9, MovedKeeps

LEMMA GrowKeeps ==
  ASSUME IInv, Grow
  PROVE  IInv'
<1> DEFINE size == IF buf = << >> THEN Buf ELSE 2 * Len(buf)
           new == IF size < MaxBuf THEN size ELSE MaxBuf
<1>1. /\ buf' = [i \in 1 .. new |-> IF i <= Len(Data) THEN Data[i] ELSE 0]
      /\ Len(buf) < MaxBuf /\ kept' = gj
      /\ end' = end - start /\ start' = 0
      /\ UNCHANGED <<input, off, err, scan, slice, cj, panics>>
  BY DEF Grow
<1>2. /\ Len(buf) \in Nat /\ start \in Nat /\ end \in Nat
      /\ start <= end /\ end <= Len(buf)
      /\ \A i \in 1 .. Len(buf) : buf[i] \in Position
  BY Bounds DEF IInv
<1>3. \A i \in 1 .. end - start :
        Data[i] = buf[start + i] /\ Data[i] \in Position
  BY MovedDatum DEF IInv
<1>4. new \in Nat /\ new >= Len(buf) /\ new >= Buf /\ new <= MaxBuf
  <2>1. buf = << >> => Len(buf) = 0
    OBVIOUS
  <2>2. buf # << >> => Len(buf) >= Buf
    <3>1. Len(buf) = 0 => buf = << >>
      BY EmptySeq DEF IInv, ScanTypeOK
    <3> QED
      BY <3>1 DEF IInv, Filled
  <2> QED
    BY <1>1, <1>2, <2>1, <2>2, BackupFileAssumption
<1> HIDE DEF new
<1>5. Len(Data) = end - start /\ 0 \in Position
  BY Datum, FileTypes DEF IInv, FileType, Position
<1>6. buf' \in [1 .. new -> Position]
  BY <1>1, <1>2, <1>3, <1>4, <1>5
<1>7. \A i \in 1 .. end - start : buf'[i] = buf[start + i]
  BY <1>1, <1>2, <1>3, <1>4, <1>5
<1>8. kept' \in Seq(Position)
  BY <1>1, TokenSeq
<1> QED
  BY <1>1, <1>4, <1>6, <1>7, <1>8, MovedKeeps

\* With no data left the buffer is begun anew.
LEMMA NothingKeeps ==
  ASSUME IInv, NoToken
  PROVE  IInv'
<1>1. /\ Running /\ start' = 0 /\ end' = 0 /\ scan' = scan + 1
      /\ UNCHANGED <<input, off, buf, err, slice, kept, cj, panics>>
  BY DEF NoToken
<1>2. scan' \in 1 .. 3
  BY <1>1 DEF Running, IInv, ScanTypeOK
<1>3. 0 \in 0 .. Len(buf)
  BY Bounds DEF IInv
<1>4. ScanTypeOK'
  BY <1>1, <1>2, <1>3 DEF IInv, ScanTypeOK
<1>5. DataInOrder'
  BY <1>1 DEF DataInOrder
<1>6. Filled' /\ PanicsAsPredicted'
  BY <1>1 DEF IInv, Filled, PanicsAsPredicted
<1> QED
  BY <1>1, <1>4, <1>5, <1>6 DEF IInv

LEMMA GiveUpKeeps ==
  ASSUME IInv, GiveUp
  PROVE  IInv'
<1>1. /\ Running /\ err' = "tooLong" /\ scan' = scan + 1
      /\ UNCHANGED <<input, off, buf, start, end, slice, kept, cj, panics>>
  BY DEF GiveUp, More
<1>2. scan' \in 1 .. 3
  BY <1>1 DEF Running, IInv, ScanTypeOK
<1>3. ScanTypeOK'
  BY <1>1, <1>2 DEF IInv, ScanTypeOK
<1>4. DataInOrder' /\ Filled' /\ PanicsAsPredicted'
  BY <1>1 DEF IInv, DataInOrder, Filled, PanicsAsPredicted
<1> QED
  BY <1>1, <1>3, <1>4 DEF IInv

LEMMA StepIInv == IInv /\ [ScanNext]_scanVars => IInv'
<1> SUFFICES ASSUME IInv, [ScanNext]_scanVars
             PROVE  IInv'
  OBVIOUS
<1>1. CASE Split
  <2>1. /\ Running /\ Token(FirstStop(Data))
        /\ FirstStop(Data) \in 1 .. end - start
    BY <1>1, StopWithin DEF Split, IInv
  <2> QED
    BY <2>1, TokenKeeps
<1>2. CASE LookPast
  BY <1>2, LookPastKeeps
<1>3. CASE Rest
  <2>1. Running /\ Token(Len(Data)) /\ Data # << >>
    BY <1>3 DEF Rest
  <2>2. Data \in Seq(Position) /\ Len(Data) = end - start
    BY Datum DEF IInv
  <2>3. Len(Data) # 0
    BY <2>1, <2>2, EmptySeq
  <2>4. Len(Data) \in 1 .. end - start
    BY <2>2, <2>3, Bounds DEF IInv
  <2> QED
    BY <2>1, <2>4, TokenKeeps
<1>4. CASE NoToken
  BY <1>4, NothingKeeps
<1>5. CASE Shift
  BY <1>5, ShiftKeeps
<1>6. CASE GiveUp
  BY <1>6, GiveUpKeeps
<1>7. CASE Grow
  BY <1>7, GrowKeeps
<1>8. CASE Read
  BY <1>8, ReadKeeps
<1>9. CASE UNCHANGED scanVars
  <2>1. UNCHANGED <<input, off, buf, start, end, err,
                    scan, slice, kept, cj, panics>>
    BY <1>9 DEF scanVars
  <2> QED
    BY <2>1 DEF IInv, ScanTypeOK, DataInOrder, Filled, PanicsAsPredicted
<1> QED
  BY <1>1, <1>2, <1>3, <1>4, <1>5, <1>6, <1>7, <1>8, <1>9 DEF ScanNext

LEMMA Invariance == ScanSpec => []IInv
BY InitIInv, StepIInv, PTL DEF ScanSpec

\* Every variable has its type: the scanner's start and end stay within its
\* buffer, for buffers of any two sizes and any files.
THEOREM TypeCorrect == ScanSpec => []ScanTypeOK
<1>1. IInv => ScanTypeOK
  BY DEF IInv
<1> QED
  BY <1>1, Invariance, PTL

\* However the scanner moves its data, makes a larger buffer and reads on, what
\* is in front of the split function is a piece of the file without a gap.
THEOREM Gapless == ScanSpec => []DataInOrder
<1>1. IInv => DataInOrder
  BY DEF IInv
<1> QED
  BY <1>1, Invariance, PTL

\* RestorePrev's split function panics on no file but one that ends in a comma
\* or one at least as long as the scanner's first buffer.
THEOREM PanicsOnly == ScanSpec => []PanicsAsPredicted
<1>1. IInv => PanicsAsPredicted
  BY DEF IInv
<1> QED
  BY <1>1, Invariance, PTL

-----------------------------------------------------------------------------
(* The scanner's loop comes to an end: a bound on the steps it still takes.  *)

\* The buffer can grow only so far, the file be read once, a scan be over once;
\* a scan may leave a token, which makes the data movable once.
ToGrow == MaxBuf - Len(buf)
ToRead == input.len - off
ToScan == (2 * (3 - scan)) + (IF start > 0 THEN 1 ELSE 0)
ToMeet == IF err = "none" THEN 1 ELSE 0
ToPanic == IF panics THEN 0 ELSE 1

StepsLeft == ToGrow + ToRead + ToScan + ToMeet + ToPanic

Numbers ==
  /\ ToGrow \in Nat /\ ToRead \in Nat /\ ToScan \in Nat
  /\ ToMeet \in Nat /\ ToPanic \in Nat
  /\ StepsLeft \in Nat

LEMMA LeftTypes == ScanTypeOK => Numbers
<1> SUFFICES ASSUME ScanTypeOK
             PROVE  Numbers
  OBVIOUS
<1>1. ToGrow \in Nat
  BY Bounds, BackupFileAssumption DEF ScanTypeOK, ToGrow
<1>2. ToRead \in Nat
  BY FileTypes DEF FileType, ScanTypeOK, ToRead
<1>3. ToScan \in Nat
  BY DEF ScanTypeOK, ToScan
<1>4. ToMeet \in Nat /\ ToPanic \in Nat
  BY DEF ToMeet, ToPanic
<1> QED
  BY <1>1, <1>2, <1>3, <1>4 DEF Numbers, StepsLeft

LEMMA LeftTypesNext == ScanTypeOK' => Numbers'
BY LeftTypes, PTL

\* A sum is at most another if neither part is more, and less if one is less.
LEMMA Less ==
  ASSUME NEW a \in Nat, NEW b \in Nat, NEW m \in Nat, NEW n \in Nat,
         a <= m, b <= n
  PROVE  /\ a + b \in Nat /\ m + n \in Nat /\ a + b <= m + n
         /\ a < m \/ b < n => a + b < m + n
OBVIOUS

LEMMA StepDone == IInv /\ ScanNext => StepsLeft' < StepsLeft /\ UNCHANGED input
<1> SUFFICES ASSUME IInv, ScanNext
             PROVE  StepsLeft' < StepsLeft /\ UNCHANGED input
  OBVIOUS
<1>1. ScanTypeOK /\ ScanTypeOK'
  BY StepIInv DEF IInv
<1>2. Numbers /\ Numbers'
  BY <1>1, LeftTypes, LeftTypesNext
<1>3. /\ Len(buf) \in Nat /\ start \in Nat /\ end \in Nat /\ end <= Len(buf)
      /\ scan \in 1 .. 3
      /\ input.len \in Nat /\ off \in Nat /\ off <= input.len
      /\ Buf \in Nat \ {0} /\ MaxBuf \in Nat /\ Buf <= MaxBuf
  BY <1>1, Bounds, FileTypes, BackupFileAssumption DEF FileType, ScanTypeOK
<1>4. /\ UNCHANGED input
      /\ ToGrow' <= ToGrow /\ ToRead' <= ToRead /\ ToScan' <= ToScan
      /\ ToMeet' <= ToMeet /\ ToPanic' <= ToPanic
      /\ \/ ToGrow' < ToGrow \/ ToRead' < ToRead \/ ToScan' < ToScan
         \/ ToMeet' < ToMeet \/ ToPanic' < ToPanic
  <2>1. CASE Split \/ Rest \/ NoToken \/ GiveUp
    <3>1. /\ scan' = scan + 1
          /\ UNCHANGED <<input, off, buf, panics>>
          /\ UNCHANGED err \/ err' = "tooLong"
      BY <2>1 DEF Split, Rest, Token, NoToken, GiveUp
    <3>2. ToGrow' = ToGrow /\ ToRead' = ToRead /\ ToPanic' = ToPanic
      BY <3>1 DEF ToGrow, ToRead, ToPanic
    <3>3. ToScan' < ToScan
      BY <1>3, <3>1 DEF ToScan
    <3>4. ToMeet' <= ToMeet
      BY <3>1 DEF ToMeet
    <3> QED
      BY <1>2, <3>1, <3>2, <3>3, <3>4 DEF Numbers
  <2>2. CASE LookPast
    <3>1. /\ UNCHANGED <<input, off, buf, start, err, scan>>
          /\ ~panics /\ panics'
      BY <2>2 DEF LookPast, scanner, Running
    <3>2. /\ ToGrow' = ToGrow /\ ToRead' = ToRead /\ ToScan' = ToScan
          /\ ToMeet' = ToMeet
      BY <3>1 DEF ToGrow, ToRead, ToScan, ToMeet
    <3>3. ToPanic' < ToPanic
      BY <3>1 DEF ToPanic
    <3> QED
      BY <1>2, <3>1, <3>2, <3>3 DEF Numbers
  <2>3. CASE Shift
    <3>1. /\ UNCHANGED <<input, off, err, scan, panics>>
          /\ start > 0 /\ start' = 0 /\ Len(buf') = Len(buf)
      BY <1>3, <2>3 DEF Shift, Crowded
    <3>2. /\ ToGrow' = ToGrow /\ ToRead' = ToRead
          /\ ToMeet' = ToMeet /\ ToPanic' = ToPanic
      BY <3>1 DEF ToGrow, ToRead, ToMeet, ToPanic
    <3>3. ToScan' < ToScan
      BY <1>3, <3>1 DEF ToScan
    <3> QED
      BY <1>2, <3>1, <3>2, <3>3 DEF Numbers
  <2>4. CASE Grow
    <3> DEFINE size == IF buf = << >> THEN Buf ELSE 2 * Len(buf)
               new == IF size < MaxBuf THEN size ELSE MaxBuf
    <3>1. /\ UNCHANGED <<input, off, err, scan, panics>>
          /\ start' = 0 /\ Len(buf) < MaxBuf
          /\ buf' = [i \in 1 .. new |-> IF i <= Len(Data) THEN Data[i] ELSE 0]
      BY <2>4 DEF Grow
    <3>2. buf = << >> <=> Len(buf) = 0
      BY <1>1, EmptySeq DEF ScanTypeOK
    <3>3. new \in Nat /\ new > Len(buf)
      BY <1>3, <3>1, <3>2
    <3> HIDE DEF new
    <3>4. Len(buf') = new
      BY <3>1, <3>3
    <3>5. ToGrow' < ToGrow
      BY <1>3, <3>3, <3>4 DEF ToGrow
    <3>6. ToRead' = ToRead /\ ToMeet' = ToMeet /\ ToPanic' = ToPanic
      BY <3>1 DEF ToRead, ToMeet, ToPanic
    <3>7. ToScan' <= ToScan
      BY <1>3, <3>1 DEF ToScan
    <3> QED
      BY <1>2, <3>1, <3>5, <3>6, <3>7 DEF Numbers
  <2>5. CASE Read
    <3> DEFINE room == Len(buf) - end
               n == IF input.len - off < room THEN input.len - off ELSE room
    <3>1. /\ UNCHANGED <<input, start, scan, panics>> /\ err = "none"
          /\ off' = off + n /\ err' = IF n = 0 THEN "eof" ELSE "none"
          /\ Len(buf') = Len(buf)
      BY <1>3, <2>5 DEF Read, More
    <3>2. n \in Nat
      BY <1>3
    <3> HIDE DEF n
    <3>3. ToGrow' = ToGrow /\ ToScan' = ToScan /\ ToPanic' = ToPanic
      BY <3>1 DEF ToGrow, ToScan, ToPanic
    <3>4. ToRead' <= ToRead /\ (n > 0 => ToRead' < ToRead)
      BY <1>3, <3>1, <3>2 DEF ToRead
    <3>5. ToMeet' <= ToMeet /\ (n = 0 => ToMeet' < ToMeet)
      BY <3>1 DEF ToMeet
    <3>6. n > 0 \/ n = 0
      BY <3>2
    <3> QED
      BY <1>2, <3>1, <3>3, <3>4, <3>5, <3>6 DEF Numbers
  <2> QED
    BY <2>1, <2>2, <2>3, <2>4, <2>5 DEF ScanNext
<1>5. StepsLeft' < StepsLeft
  <2>1. /\ ToGrow \in Nat /\ ToRead \in Nat /\ ToScan \in Nat
        /\ ToMeet \in Nat /\ ToPanic \in Nat
        /\ ToGrow' \in Nat /\ ToRead' \in Nat /\ ToScan' \in Nat
        /\ ToMeet' \in Nat /\ ToPanic' \in Nat
    BY <1>2 DEF Numbers
  <2>2. ToGrow' + ToRead' + ToScan' + ToMeet' + ToPanic'
          < ToGrow + ToRead + ToScan + ToMeet + ToPanic
    <3> DEFINE two == ToGrow + ToRead
               three == two + ToScan
               four == three + ToMeet
               twoNext == ToGrow' + ToRead'
               threeNext == twoNext + ToScan'
               fourNext == threeNext + ToMeet'
    <3>1. /\ two \in Nat /\ twoNext \in Nat /\ twoNext <= two
          /\ ToGrow' < ToGrow \/ ToRead' < ToRead => twoNext < two
      BY <1>4, <2>1, Less
    <3> HIDE DEF two, twoNext
    <3>2. /\ three \in Nat /\ threeNext \in Nat /\ threeNext <= three
          /\ twoNext < two \/ ToScan' < ToScan => threeNext < three
      BY <1>4, <2>1, <3>1, Less
    <3> HIDE DEF three, threeNext
    <3>3. /\ four \in Nat /\ fourNext \in Nat /\ fourNext <= four
          /\ threeNext < three \/ ToMeet' < ToMeet => fourNext < four
      BY <1>4, <2>1, <3>2, Less
    <3> HIDE DEF four, fourNext
    <3>4. fourNext + ToPanic' < four + ToPanic
      BY <1>4, <2>1, <3>1, <3>2, <3>3, Less
    <3> QED
      BY <3>4 DEF two, three, four, twoNext, threeNext, fourNext
  <2> QED
    BY <2>2 DEF StepsLeft
<1> QED
  BY <1>4, <1>5

\* The two Scans and the split function never go round in circles: every step
\* leaves fewer to be taken, and there are at most six more of them than bytes
\* in the file and in the greatest buffer.
THEOREM StepsRunOut ==
  ScanSpec => /\ [](StepsLeft \in 0 .. MaxBuf + input.len + 6)
          /\ [][StepsLeft' < StepsLeft]_scanVars
<1> DEFINE Few == StepsLeft \in 0 .. MaxBuf + input.len + 6
<1>1. ScanInit => Few
  <2> SUFFICES ASSUME ScanInit
               PROVE  Few
    OBVIOUS
  <2>1. ScanTypeOK
    BY InitIInv DEF IInv
  <2>2. StepsLeft \in Nat /\ input.len \in Nat /\ MaxBuf \in Nat
    BY <2>1, LeftTypes, FileTypes, BackupFileAssumption DEF FileType, Numbers
  <2>3. /\ ToGrow = MaxBuf /\ ToRead = input.len /\ ToScan = 4
        /\ ToMeet = 1 /\ ToPanic = 1
    BY <2>2 DEF ScanInit, ToGrow, ToRead, ToScan, ToMeet, ToPanic
  <2> QED
    BY <2>2, <2>3 DEF StepsLeft
<1>2. IInv /\ ScanNext => StepsLeft' < StepsLeft /\ UNCHANGED input
  BY StepDone
<1>3. IInv /\ IInv' /\ Few /\ [ScanNext]_scanVars => Few'
  <2> SUFFICES ASSUME IInv, IInv', Few, [ScanNext]_scanVars
               PROVE  Few'
    OBVIOUS
  <2>1. StepsLeft \in Nat /\ input.len \in Nat /\ MaxBuf \in Nat
    BY LeftTypes, FileTypes, BackupFileAssumption DEF FileType, IInv, Numbers
  <2>2. StepsLeft' \in Nat
    BY LeftTypesNext DEF IInv, Numbers
  <2>3. CASE ScanNext
    BY <1>2, <2>1, <2>2, <2>3
  <2>4. CASE UNCHANGED scanVars
    BY <2>4 DEF scanVars, StepsLeft, ToGrow, ToRead, ToScan, ToMeet,
       ToPanic
  <2> QED
    BY <2>3, <2>4
<1>4. IInv /\ [ScanNext]_scanVars => [StepsLeft' < StepsLeft]_scanVars
  BY <1>2
<1> QED
  BY <1>1, <1>3, <1>4, Invariance, PTL DEF ScanSpec

-----------------------------------------------------------------------------
(***************************************************************************)
(* What the two tokens are.  The first Scan looks for the end of the       *)
(* gauges from the front of the file.  It takes all of a file without      *)
(* counters, none of one whose gauges are too long, or the gauges; then    *)
(* the second Scan is halfway, with the first token intact or spoilt.      *)
(***************************************************************************)

\* A buffer larger than the first is one the gauges are more than half of.
Deep == Len(buf) <= Buf \/ input.sep = 0 \/ input.sep > Len(buf) \div 2

\* The file has ended once a read has given nothing, and there was room.
AtEnd ==
  /\ err \in {"none", "eof"}
  /\ err = "eof" => off = input.len /\ end - start < MaxBuf

Looking ==
  /\ start = 0 /\ end = off
  /\ slice = 0 /\ kept = << >> /\ cj = << >>
  /\ AtEnd /\ Deep
  /\ err = "eof" => Stops(Data) = {}

AllTaken ==
  /\ input.sep = 0 /\ input.len < MaxBuf
  /\ start = end /\ err = "eof"
  /\ slice = input.len /\ kept = << >> /\ cj = << >>
  /\ \A i \in 1 .. slice : buf[i] = i

NoneTaken ==
  /\ TooLong(Gauges)
  /\ start = 0 /\ end = off /\ end > 0 /\ err = "tooLong" /\ Stops(Data) = {}
  /\ slice = 0 /\ kept = << >> /\ cj = << >>

Halfway ==
  /\ input.sep # 0 /\ input.sep < MaxBuf
  /\ slice = input.sep /\ cj = << >>
  /\ end - start = off - input.sep /\ end > start
  /\ AtEnd

Intact ==
  /\ start = input.sep /\ kept = << >> /\ Deep
  /\ \A i \in 1 .. slice : buf[i] = i
  /\ err = "eof" => ~Overwritten(input.sep, input.len)

\* The first byte of the first token.
First == IF kept # << >> THEN kept[1] ELSE buf[1]

Spoilt ==
  /\ start = 0 /\ Overwritten(input.sep, input.len)
  /\ First = input.sep + 1

Cutting ==
  /\ scan = 1 => Looking
  /\ scan = 2 => AllTaken \/ NoneTaken \/ (Halfway /\ (Intact \/ Spoilt))
  /\ CutAsPredicted

\* The gauges end before the file does.
LEMMA SepType ==
  ASSUME IInv
  PROVE  /\ input.len \in Nat /\ input.sep \in Nat /\ off \in Nat
         /\ off <= input.len
         /\ input.sep # 0 => input.sep \in input.commas /\ input.sep < input.len
         /\ Gauges = IF input.sep = 0 THEN input.len ELSE input.sep
         /\ start \in Nat /\ end \in Nat /\ start <= end
         /\ Len(buf) \in Nat /\ end <= Len(buf) /\ Len(buf) <= MaxBuf
         /\ slice \in Nat /\ slice <= Len(buf)
<1>1. /\ input.len \in Nat /\ input.commas \subseteq 1 .. input.len
      /\ input.sep \in {0} \cup (input.commas \ {input.len})
  BY InputsAssumption DEF IInv, ScanTypeOK
<1>2. input.sep # 0 => input.sep \in input.commas /\ input.sep # input.len
  BY <1>1
<1>3. off \in Nat /\ off <= input.len /\ Len(buf) <= MaxBuf
      /\ slice \in Nat /\ slice <= Len(buf)
  BY <1>1 DEF IInv, ScanTypeOK
<1> QED
  BY <1>1, <1>2, <1>3, Bounds DEF IInv, Gauges

\* The data are the bytes of the file that were read last.
LEMMA Piece ==
  ASSUME IInv
  PROVE  /\ Len(Data) = end - start /\ Data \in Seq(Position)
         /\ \A i \in 1 .. end - start : Data[i] = off - (end - start) + i
BY Datum DEF IInv, DataInOrder

\* Data the split function finds nothing in do not hold the end of the gauges
\* and a byte behind it.
LEMMA NotFound ==
  ASSUME IInv, Stops(Data) = {}, input.sep # 0
  PROVE  input.sep <= off - (end - start) \/ input.sep >= off
<1> SUFFICES ASSUME input.sep > off - (end - start), input.sep < off
             PROVE  FALSE
  BY SepType
<1>1. PICK i \in Int : i = input.sep - (off - (end - start))
  BY SepType
<1>2. /\ i \in 1 .. end - start /\ i + 1 \in 1 .. end - start
      /\ off - (end - start) + i = input.sep
  BY <1>1, SepType
<1>3. Data[i] = input.sep
  BY <1>2, Piece
<1>4. Data[i + 1] = input.sep + 1
  <2>1. Data[i + 1] = off - (end - start) + (i + 1)
    BY <1>2, Piece
  <2> QED
    BY <1>2, <2>1, SepType
<1>5. i \in 1 .. Len(Data) /\ Data[i] \in input.commas
  BY <1>2, <1>3, Piece, SepType
<1>6. i \in Stops(Data)
  BY <1>4, <1>5 DEF Stops
<1> QED
  BY <1>6

\* Where it finds a comma and a brace, the gauges end.
LEMMA Found ==
  ASSUME IInv, Stops(Data) # {}, FirstStop(Data) < Len(Data)
  PROVE  /\ FirstStop(Data) \in 1 .. end - start
         /\ FirstStop(Data) < end - start
         /\ input.sep # 0
         /\ off - (end - start) + FirstStop(Data) = input.sep
<1> DEFINE i == FirstStop(Data)
<1>1. i \in Stops(Data) /\ i \in 1 .. end - start
  BY StopWithin DEF IInv
<1>2. i < end - start
  BY Piece
<1> HIDE DEF i
<1>3. input.sep # 0 /\ Data[i + 1] = input.sep + 1
  BY <1>1, <1>2, Piece, SepType DEF Stops
<1>4. i + 1 \in 1 .. end - start
  BY <1>1, <1>2, SepType
<1>5. Data[i + 1] = off - (end - start) + (i + 1)
  BY <1>4, Piece
<1>6. off - (end - start) + i = input.sep
  BY <1>1, <1>3, <1>5, SepType
<1> QED
  BY <1>1, <1>2, <1>3, <1>6 DEF i

\* A piece of the file is known by its length and its bytes.
LEMMA SameBytes ==
  ASSUME NEW S, NEW s \in Seq(S), NEW a \in Nat, NEW b \in Nat, a <= b + 1,
         Len(s) = b - a + 1, \A i \in 1 .. Len(s) : s[i] = a + i - 1
  PROVE  s = Bytes(a, b)
<1>1. s = [i \in 1 .. Len(s) |-> s[i]]
  BY LenProperties
<1> QED
  BY <1>1 DEF Bytes

LEMMA BytesType ==
  ASSUME NEW a \in Nat, NEW b \in Nat, a <= b + 1
  PROVE  /\ Len(Bytes(a, b)) = b - a + 1
         /\ b >= a => Bytes(a, b)[1] = a
<1>1. PICK n \in Nat : n = b - a + 1
  OBVIOUS
<1>2. Bytes(a, b) \in [1 .. n -> Int]
  BY <1>1 DEF Bytes
<1>3. Len(Bytes(a, b)) = n
  BY <1>2, Sequence
<1> QED
  BY <1>1, <1>3 DEF Bytes

\* The data as a token.
LEMMA AllOfData ==
  ASSUME IInv, end - start <= off
  PROVE  SubSeq(Data, 1, Len(Data)) = Bytes(off - (end - start) + 1, off)
<1>1. /\ Len(Data) = end - start /\ Data \in Seq(Position)
      /\ end - start \in Nat
  BY Piece, SepType
<1>2. \A i \in 1 .. Len(Data) : Data[i] \in Position
  BY <1>1, ElementOfSeq
<1> DEFINE t == SubSeq(Data, 1, Len(Data))
<1>3. /\ t \in Seq(Position) /\ Len(t) = end - start
      /\ \A i \in 1 .. end - start : t[i] = Data[i]
  BY <1>1, <1>2, SubSeqProperties
<1>4. PICK a \in Nat : a = off - (end - start) + 1
  BY SepType
<1> HIDE DEF t
<1>5. \A i \in 1 .. end - start : t[i] = a + i - 1
  <2> TAKE i \in 1 .. end - start
  <2>1. t[i] = Data[i]
    BY <1>3
  <2>2. Data[i] = off - (end - start) + i
    BY Piece
  <2> QED
    BY <1>4, <2>1, <2>2, SepType
<1>6. Len(t) = off - a + 1 /\ a <= off + 1
  BY <1>3, <1>4, SepType
<1>7. t = Bytes(a, off)
  <2>1. \A i \in 1 .. Len(t) : t[i] = a + i - 1
    BY <1>3, <1>5
  <2>2. off \in Nat /\ t \in Seq(Position)
    BY <1>3, SepType
  <2> QED
    BY <1>4, <1>6, <2>1, <2>2, SameBytes, Zenon
<1> QED
  BY <1>4, <1>7 DEF t

\* The first token is what it is a slice of.
LEMMA Slice ==
  ASSUME IInv, kept = << >>
  PROVE  /\ gj \in Seq(Position) /\ Len(gj) = slice
         /\ \A i \in 1 .. slice : gj[i] = buf[i]
<1>1. \A i \in 1 .. slice : buf[i] \in Position
  BY SepType, Bounds DEF IInv
<1> QED
  BY <1>1, SepType, SubSeqProperties DEF gj

LEMMA FirstOfToken ==
  ASSUME IInv, slice # 0
  PROVE  gj # << >> /\ gj[1] = First
<1>1. CASE kept # << >>
  BY <1>1 DEF gj, First
<1>2. CASE kept = << >>
  <2>1. 1 \in 1 .. slice /\ Len(gj) = slice
    BY <1>2, SepType, Slice
  <2>2. gj # << >>
    BY <2>1, EmptySeq
  <2> QED
    BY <1>2, <2>1, <2>2, Slice DEF First
<1> QED
  BY <1>1, <1>2

-----------------------------------------------------------------------------
(* The steps and the tokens. *)

\* The tokens are looked at when both Scans are over.
LEMMA NotYet ==
  ASSUME scan' # 3
  PROVE  CutAsPredicted'
BY Zenon DEF CutAsPredicted

\* A read leaves alone what is there, and gives nothing only at the end.
LEMMA Reading ==
  ASSUME IInv, Read
  PROVE  /\ err = "none" /\ ~Crowded /\ end < Len(buf) /\ Stops(Data) = {}
         /\ UNCHANGED <<input, start, scan, slice, kept, cj, panics>>
         /\ Len(buf') = Len(buf)
         /\ \A i \in 1 .. end : buf'[i] = buf[i]
         /\ \/ err' = "none" /\ \E n \in Nat : off' = off + n /\ end' = end + n
            \/ /\ err' = "eof" /\ off = input.len
               /\ UNCHANGED <<off, end, buf>>
<1> DEFINE room == Len(buf) - end
           n == IF input.len - off < room THEN input.len - off ELSE room
<1>1. /\ err = "none" /\ ~Crowded /\ end < Len(buf) /\ Stops(Data) = {}
      /\ buf' = [i \in 1 .. Len(buf) |->
                   IF i > end /\ i <= end + n THEN off + i - end ELSE buf[i]]
      /\ off' = off + n /\ end' = end + n
      /\ err' = IF n = 0 THEN "eof" ELSE "none"
      /\ UNCHANGED <<input, start, scan, slice, kept, cj, panics>>
  BY DEF Read, More
<1>2. n \in Nat /\ (n = 0 => off = input.len)
  BY <1>1, SepType
<1> HIDE DEF n
<1>3. Len(buf') = Len(buf)
  <2>1. buf' \in [1 .. Len(buf) -> UNION {{buf'[i]} : i \in 1 .. Len(buf)}]
    BY <1>1
  <2> QED
    BY <2>1, SepType, Sequence
<1>4. \A i \in 1 .. end : buf'[i] = buf[i]
  BY <1>1, SepType
<1>5. ASSUME n = 0
      PROVE  buf' = buf
  <2>1. buf' = [i \in 1 .. Len(buf) |-> buf[i]]
    BY <1>1, <1>5, SepType
  <2>2. buf \in Seq(Position)
    BY DEF IInv, ScanTypeOK, Position
  <2> QED
    BY <2>1, <2>2, LenProperties
<1>6. CASE n = 0
  BY <1>1, <1>2, <1>3, <1>4, <1>5, <1>6, SepType
<1>7. CASE n # 0
  BY <1>1, <1>2, <1>3, <1>4, <1>7
<1> QED
  BY <1>6, <1>7

LEMMA CutRead ==
  ASSUME IInv, Cutting, Read
  PROVE  Cutting'
<1>1. /\ err = "none" /\ ~Crowded /\ end < Len(buf) /\ Stops(Data) = {}
      /\ UNCHANGED <<input, start, scan, slice, kept, cj, panics>>
      /\ Len(buf') = Len(buf)
      /\ \A i \in 1 .. end : buf'[i] = buf[i]
  BY Reading
<1>2. /\ off' \in Nat /\ end' \in Nat /\ off' >= off /\ off' - off = end' - end
      /\ err' \in {"none", "eof"}
      /\ err' = "eof" => off = input.len /\ UNCHANGED <<off, end, buf>>
  BY Reading, SepType
<1>3. scan \in 1 .. 2
  BY DEF Read, More, Running, IInv, ScanTypeOK
<1>4. CutAsPredicted'
  BY <1>1, <1>3, NotYet
<1>5. AtEnd'
  <2>1. end - start < MaxBuf
    BY <1>1, SepType, BackupFileAssumption
  <2> QED
    BY <1>1, <1>2, <2>1, Zenon DEF AtEnd
<1>6. Deep' <=> Deep
  BY <1>1 DEF Deep
<1>7. CASE scan = 1
  <2>1. Looking
    BY <1>7 DEF Cutting
  <2>2. end' = off'
    BY <1>2, <2>1, SepType DEF Looking
  <2>3. ASSUME err' = "eof"
        PROVE  Stops(Data)' = {}
    BY <1>1, <1>2, <2>3 DEF Stops, Data
  <2>4. Looking'
    BY <1>1, <1>5, <1>6, <2>1, <2>2, <2>3 DEF Looking
  <2> QED
    BY <1>1, <1>4, <1>7, <2>4 DEF Cutting
<1>8. CASE scan = 2
  <2>1. Halfway /\ (Intact \/ Spoilt)
    BY <1>1, <1>8 DEF Cutting, AllTaken, NoneTaken
  <2>2. Halfway'
    <3>1. end' - start = off' - input.sep /\ end' > start
      BY <1>2, <2>1, SepType DEF Halfway
    <3> QED
      BY <1>1, <1>5, <2>1, <3>1 DEF Halfway
  <2>3. CASE Intact
    <3>1. \A i \in 1 .. slice : buf'[i] = i
      BY <1>1, <2>1, <2>3, SepType DEF Intact, Halfway
    <3>2. ASSUME err' = "eof"
          PROVE  ~Overwritten(input.sep, input.len)
      <4>1. Len(buf) <= Buf \/ input.sep > Len(buf) \div 2
        BY <2>1, <2>3 DEF Intact, Halfway, Deep
      <4>2. input.sep <= Len(buf) \div 2
        BY <1>1, <2>1, <2>3, SepType DEF Intact, Halfway, Crowded
      <4>3. Len(buf) <= Buf /\ input.len < Len(buf)
        BY <1>1, <1>2, <2>1, <2>3, <3>2, <4>1, <4>2, SepType
          DEF Intact, Halfway
      <4> QED
        BY <4>2, <4>3, SepType, BackupFileAssumption DEF Overwritten
    <3>3. Intact'
      BY <1>1, <1>6, <2>3, <3>1, <3>2 DEF Intact
    <3> QED
      BY <1>1, <1>4, <1>8, <2>2, <3>3 DEF Cutting
  <2>4. CASE Spoilt
    <3>1. buf'[1] = buf[1]
      BY <1>1, <2>1, SepType DEF Halfway
    <3>2. Spoilt'
      BY <1>1, <2>4, <3>1 DEF Spoilt, First
    <3> QED
      BY <1>1, <1>4, <1>8, <2>2, <3>2 DEF Cutting
  <2> QED
    BY <2>1, <2>3, <2>4
<1> QED
  BY <1>3, <1>7, <1>8

LEMMA CutLookPast ==
  ASSUME IInv, Cutting, LookPast
  PROVE  Cutting'
<1>1. UNCHANGED <<input, off, buf, start, end, err, scan, slice, kept, cj>>
  BY DEF LookPast, scanner
<1> QED
  BY <1>1 DEF Cutting, Looking, AllTaken, NoneTaken, Halfway, Intact, Spoilt,
    Deep, AtEnd, First, CutAsPredicted, Gauges, gj, Stops, Data

LEMMA CutShift ==
  ASSUME IInv, Cutting, Shift
  PROVE  Cutting'
<1>1. /\ More /\ Crowded
      /\ buf' = [i \in 1 .. Len(buf) |->
                   IF i <= end - start THEN Data[i] ELSE buf[i]]
      /\ end' = end - start /\ start' = 0
      /\ UNCHANGED <<input, off, err, scan, slice, kept, cj, panics>>
  BY DEF Shift
<1>2. start > 0 /\ scan \in 1 .. 2 /\ err = "none"
  BY <1>1 DEF Crowded, More, Running, IInv, ScanTypeOK
<1>3. scan = 2 /\ Halfway /\ Intact
  BY <1>2 DEF Cutting, Looking, AllTaken, NoneTaken, Spoilt
<1>4. CutAsPredicted'
  BY <1>1, <1>3, NotYet
<1>5. Halfway'
  <2>1. end' - start' = off - input.sep /\ end' > start'
    BY <1>1, <1>3, SepType DEF Halfway
  <2>2. AtEnd'
    BY <1>1, <1>2 DEF AtEnd
  <2> QED
    BY <1>1, <1>3, <2>1, <2>2 DEF Halfway
<1>6. Overwritten(input.sep, input.len)
  <2>1. input.sep < input.len
    BY <1>3, SepType DEF Halfway
  <2>2. Len(buf) >= Buf
    BY <1>2, SepType DEF IInv, Filled
  <2>3. CASE end = Len(buf)
    <3>1. off >= Buf
      BY <1>3, <2>2, <2>3, SepType DEF Halfway, Intact
    <3> QED
      BY <2>1, <3>1, SepType, BackupFileAssumption DEF Overwritten
  <2>4. CASE start > Len(buf) \div 2
    <3>1. input.sep > Buf \div 2
      BY <1>3, <2>2, <2>4, SepType, BackupFileAssumption DEF Intact
    <3> QED
      BY <2>1, <3>1 DEF Overwritten
  <2> QED
    BY <1>1, <2>3, <2>4 DEF Crowded
<1>7. buf'[1] = input.sep + 1
  <2>1. 1 \in 1 .. end - start /\ 1 \in 1 .. Len(buf)
    BY <1>3, SepType DEF Halfway
  <2>2. Data[1] = off - (end - start) + 1
    BY <2>1, Piece
  <2>3. buf'[1] = Data[1]
    BY <1>1, <2>1
  <2> QED
    BY <1>3, <2>2, <2>3, SepType DEF Halfway
<1>8. Spoilt'
  BY <1>1, <1>3, <1>6, <1>7 DEF Spoilt, First, Intact
<1> QED
  BY <1>1, <1>3, <1>4, <1>5, <1>8 DEF Cutting

LEMMA CutGrow ==
  ASSUME IInv, Cutting, Grow
  PROVE  Cutting'
<1> DEFINE size == IF buf = << >> THEN Buf ELSE 2 * Len(buf)
           new == IF size < MaxBuf THEN size ELSE MaxBuf
<1>1. /\ More /\ ~Crowded /\ end = Len(buf) /\ Len(buf) < MaxBuf
      /\ buf' = [i \in 1 .. new |-> IF i <= Len(Data) THEN Data[i] ELSE 0]
      /\ kept' = gj
      /\ end' = end - start /\ start' = 0
      /\ UNCHANGED <<input, off, err, scan, slice, cj, panics>>
  BY DEF Grow
<1>2. start = 0 /\ scan \in 1 .. 2 /\ err = "none" /\ Stops(Data) = {}
  <2>1. scan \in 1 .. 2 /\ err = "none" /\ Stops(Data) = {}
    BY <1>1 DEF More, Running, IInv, ScanTypeOK
  <2>2. ~(start > 0)
    BY <1>1 DEF Crowded
  <2> QED
    BY <2>1, <2>2, SepType
<1>3. CutAsPredicted'
  BY <1>1, <1>2, NotYet
<1>4. AtEnd'
  BY <1>1, <1>2 DEF AtEnd
<1>5. CASE scan = 1
  <2>1. Looking
    BY <1>5 DEF Cutting
  <2>2. kept' = << >>
    <3>1. Len(gj) = 0 /\ gj \in Seq(Position)
      BY <2>1, Slice DEF Looking
    <3>2. gj = << >>
      BY <3>1, EmptySeq
    <3> QED
      BY <1>1, <3>2
  <2>3. Deep'
    <3>1. new \in Nat /\ Len(buf') = new
      <4>1. new \in Nat
        BY SepType, BackupFileAssumption
      <4>2. buf' \in [1 .. new -> UNION {{buf'[i]} : i \in 1 .. new}]
        <5> HIDE DEF new
        <5> QED
          BY <1>1
      <4> HIDE DEF new
      <4> QED
        BY <4>1, <4>2, Sequence
    <3>2. CASE buf = << >>
      BY <1>1, <3>1, <3>2, BackupFileAssumption DEF Deep
    <3>3. CASE input.sep = 0
      BY <1>1, <3>3 DEF Deep
    <3>4. CASE buf # << >> /\ input.sep # 0
      <4>1. new <= 2 * Len(buf)
        BY <3>4, SepType, BackupFileAssumption
      <4>2. input.sep >= Len(buf)
        BY <1>1, <1>2, <2>1, <3>4, NotFound, SepType DEF Looking
      <4>3. input.sep # Len(buf)
        <5> SUFFICES ASSUME input.sep = Len(buf)
                     PROVE  FALSE
          OBVIOUS
        <5>1. input.sep \in 1 .. end - start
          BY <1>1, <1>2, <3>4, SepType
        <5>2. Data[input.sep] = input.sep /\ Len(Data) = input.sep
          BY <1>1, <1>2, <2>1, <5>1, Piece, SepType DEF Looking
        <5>3. input.sep \in Stops(Data)
          BY <3>4, <5>1, <5>2, SepType DEF Stops
        <5> QED
          BY <1>2, <5>3
      <4>4. input.sep > new \div 2
        <5> HIDE DEF new
        <5> QED
          BY <3>1, <4>1, <4>2, <4>3, SepType
      <4> HIDE DEF new
      <4> QED
        BY <1>1, <3>1, <4>4 DEF Deep
    <3> QED
      BY <3>2, <3>3, <3>4
  <2>4. Looking'
    BY <1>1, <1>2, <1>4, <2>1, <2>2, <2>3, SepType DEF Looking
  <2> QED
    BY <1>1, <1>3, <1>5, <2>4 DEF Cutting
<1>6. CASE scan = 2
  <2>1. Halfway /\ Spoilt
    BY <1>2, <1>6 DEF Cutting, AllTaken, NoneTaken, Halfway, Intact
  <2>2. Halfway'
    <3>1. end' - start' = off - input.sep /\ end' > start'
      BY <1>1, <1>2, <2>1, SepType DEF Halfway
    <3> QED
      BY <1>1, <1>4, <2>1, <3>1 DEF Halfway
  <2>3. Spoilt'
    <3>1. kept' # << >> /\ kept'[1] = First
      BY <1>1, <2>1, FirstOfToken DEF Halfway
    <3> QED
      BY <1>1, <2>1, <3>1 DEF Spoilt, First
  <2> QED
    BY <1>1, <1>3, <1>6, <2>2, <2>3 DEF Cutting
<1> QED
  BY <1>2, <1>5, <1>6

LEMMA TokenIntact ==
  ASSUME IInv, kept = << >>, \A i \in 1 .. slice : buf[i] = i
  PROVE  gj = Bytes(1, slice)
<1>1. gj \in Seq(Position) /\ Len(gj) = slice /\ slice \in Nat
  BY Slice, SepType
<1>2. \A i \in 1 .. Len(gj) : gj[i] = 1 + i - 1
  BY <1>1, Slice
<1>3. Len(gj) = slice - 1 + 1 /\ 1 <= slice + 1
  BY <1>1
<1> QED
  BY <1>1, <1>2, <1>3, SameBytes

LEMMA TokenSpoilt ==
  ASSUME IInv, slice = input.sep, input.sep # 0, First = input.sep + 1
  PROVE  gj # Bytes(1, input.sep)
<1>1. gj[1] = input.sep + 1
  BY FirstOfToken
<1>2. Bytes(1, input.sep)[1] = 1
  <2>1. 1 \in 1 .. input.sep - 1 + 1
    BY SepType
  <2> QED
    BY <2>1 DEF Bytes
<1> QED
  BY <1>1, <1>2, SepType

LEMMA Verdict ==
  ASSUME input' = input,
         (gj' = Bytes(1, Gauges)) <=>
           ~(TooLong(Gauges) \/ Overwritten(Gauges, input.len)),
         (cj' = Bytes(Gauges + 1, input.len)) <=>
           ~(TooLong(Gauges) \/ CountersTooLong(Gauges, input.len))
  PROVE  CutAsPredicted'
<1>1. Gauges' = Gauges
  BY DEF Gauges
<1>2. (gj = Bytes(1, Gauges))' <=> gj' = Bytes(1, Gauges)
  BY <1>1 DEF Bytes
<1>3. (cj = Bytes(Gauges + 1, input.len))' <=> cj' = Bytes(Gauges + 1, input.len)
  BY <1>1 DEF Bytes
<1> QED
  BY <1>1, <1>2, <1>3 DEF CutAsPredicted, TooLong, Overwritten, CountersTooLong

\* The first Scan finds where the gauges end; the second does not find it again.
LEMMA CutSplit ==
  ASSUME IInv, Cutting, Split
  PROVE  Cutting'
<1> DEFINE n == FirstStop(Data)
<1>1. /\ Stops(Data) # {} /\ scan \in 1 .. 2
      /\ start' = start + n /\ scan' = scan + 1
      /\ IF scan = 1 THEN slice' = n /\ UNCHANGED cj
                     ELSE cj' = SubSeq(Data, 1, n) /\ UNCHANGED slice
      /\ UNCHANGED <<input, off, buf, end, err, kept, panics>>
  BY DEF Split, Token, Running, IInv, ScanTypeOK
<1>2. /\ n \in 1 .. end - start /\ n < end - start /\ input.sep # 0
      /\ off - (end - start) + n = input.sep
  BY Found DEF Split
<1> HIDE DEF n
<1>3. CASE scan = 1
  <2>1. Looking
    BY <1>3 DEF Cutting
  <2>2. n = input.sep /\ err = "none"
    BY <1>1, <1>2, <2>1, SepType DEF Looking, AtEnd
  <2>3. Halfway'
    <3>1. input.sep < MaxBuf
      BY <1>2, <2>1, <2>2, SepType, BackupFileAssumption DEF Looking
    <3>2. slice' = input.sep /\ cj' = << >>
      BY <1>1, <1>3, <2>1, <2>2 DEF Looking
    <3>3. end - start' = off - input.sep /\ end > start'
      BY <1>1, <1>2, <2>1, <2>2, SepType DEF Looking
    <3>4. AtEnd'
      BY <1>1, <2>2 DEF AtEnd
    <3> QED
      BY <1>1, <1>2, <3>1, <3>2, <3>3, <3>4 DEF Halfway
  <2>4. Intact'
    <3>1. start' = input.sep /\ slice' = input.sep
      BY <1>1, <1>3, <2>1, <2>2, SepType DEF Looking
    <3>2. \A i \in 1 .. input.sep : buf[i] = i
      <4> TAKE i \in 1 .. input.sep
      <4>1. i \in 1 .. end - start
        BY <1>2, <2>2, SepType
      <4>2. buf[start + i] = off - (end - start) + i
        BY <4>1 DEF IInv, DataInOrder
      <4> QED
        BY <2>1, <4>2, SepType DEF Looking
    <3>3. kept' = << >> /\ Deep'
      BY <1>1, <2>1 DEF Looking, Deep
    <3> QED
      BY <1>1, <2>2, <3>1, <3>2, <3>3 DEF Intact
  <2>5. scan' = 2 /\ CutAsPredicted'
    BY <1>1, <1>3, NotYet
  <2> QED
    BY <2>3, <2>4, <2>5 DEF Cutting
<1>4. CASE scan = 2
  <2>1. AllTaken \/ NoneTaken \/ Halfway
    BY <1>4 DEF Cutting
  <2>2. start # end
    BY <1>2, SepType
  <2>3. off - (end - start) # input.sep
    BY <1>2, SepType
  <2> QED
    BY <1>1, <2>1, <2>2, <2>3, SepType DEF AllTaken, NoneTaken, Halfway
<1> QED
  BY <1>1, <1>3, <1>4

\* Nothing is left to hand out.
LEMMA CutNothing ==
  ASSUME IInv, Cutting, NoToken
  PROVE  Cutting'
<1>1. /\ scan \in 1 .. 2 /\ err # "none" /\ Data = << >>
      /\ start' = 0 /\ end' = 0 /\ scan' = scan + 1
      /\ UNCHANGED <<input, off, buf, err, slice, kept, cj, panics>>
  BY DEF NoToken, Running, IInv, ScanTypeOK
<1>2. start = end
  <2>1. Len(Data) = 0
    BY <1>1
  <2> QED
    BY <2>1, Piece, SepType
<1>3. CASE scan = 1
  <2>1. Looking
    BY <1>3 DEF Cutting
  <2>2. err = "eof" /\ input.len = 0 /\ input.sep = 0
    <3>1. err = "eof" /\ off = input.len /\ off = 0
      BY <1>1, <1>2, <2>1 DEF Looking, AtEnd
    <3> QED
      BY <3>1, SepType
  <2>3. AllTaken'
    <3>1. slice' = input.len /\ kept' = << >> /\ cj' = << >>
      BY <1>1, <2>1, <2>2 DEF Looking
    <3>2. 0 < MaxBuf
      BY BackupFileAssumption
    <3>3. \A i \in 1 .. slice' : buf'[i] = i
      BY <2>2, <3>1
    <3> QED
      BY <1>1, <2>2, <3>1, <3>2, <3>3 DEF AllTaken
  <2>4. scan' = 2 /\ CutAsPredicted'
    BY <1>1, <1>3, NotYet
  <2> QED
    BY <2>3, <2>4 DEF Cutting
<1>4. CASE scan = 2
  <2>1. AllTaken
    BY <1>2, <1>4, SepType DEF Cutting, NoneTaken, Halfway
  <2>2. Gauges = input.len /\ input.len \in Nat /\ input.len < MaxBuf
    BY <2>1, SepType DEF AllTaken
  <2>3. gj' = Bytes(1, Gauges)
    <3>1. gj = Bytes(1, slice) /\ slice = Gauges
      BY <2>1, <2>2, TokenIntact DEF AllTaken
    <3>2. gj' = gj
      BY <1>1 DEF gj
    <3> QED
      BY <3>1, <3>2
  <2>4. cj' = Bytes(Gauges + 1, input.len)
    <3>1. Bytes(input.len + 1, input.len) = << >>
      <4>1. 1 .. input.len - (input.len + 1) + 1 = {}
        BY <2>2
      <4> QED
        BY <4>1 DEF Bytes
    <3> QED
      BY <1>1, <2>1, <2>2, <3>1 DEF AllTaken
  <2>5. /\ ~TooLong(Gauges) /\ ~Overwritten(Gauges, input.len)
        /\ ~CountersTooLong(Gauges, input.len)
    BY <2>2, BackupFileAssumption DEF TooLong, Overwritten, CountersTooLong
  <2>6. CutAsPredicted'
    BY <1>1, <2>3, <2>4, <2>5, Verdict
  <2>7. scan' = 3
    BY <1>1, <1>4
  <2> QED
    BY <2>6, <2>7 DEF Cutting
<1> QED
  BY <1>1, <1>3, <1>4

\* A Scan hands out all there is at the end of the file, or after the first has
\* given up.
LEMMA CutRest ==
  ASSUME IInv, Cutting, Rest
  PROVE  Cutting'
<1>1. /\ Stops(Data) = {} /\ err # "none" /\ Data # << >> /\ scan \in 1 .. 2
      /\ start' = start + Len(Data) /\ scan' = scan + 1
      /\ IF scan = 1 THEN slice' = Len(Data) /\ UNCHANGED cj
                     ELSE cj' = SubSeq(Data, 1, Len(Data)) /\ UNCHANGED slice
      /\ UNCHANGED <<input, off, buf, end, err, kept, panics>>
  BY DEF Rest, Token, Running, IInv, ScanTypeOK
<1>2. Len(Data) = end - start /\ end - start > 0
  <2>1. Len(Data) = end - start /\ Len(Data) # 0
    BY <1>1, Piece, EmptySeq
  <2> QED
    BY <2>1, SepType
<1>3. CASE scan = 1
  <2>1. Looking
    BY <1>3 DEF Cutting
  <2>2. err = "eof" /\ off = input.len /\ start = 0 /\ end = input.len
    BY <1>1, <2>1 DEF Looking, AtEnd
  <2>3. input.sep = 0
    BY <1>1, <2>2, NotFound, SepType
  <2>4. AllTaken'
    <3>1. /\ start' = input.len /\ end' = input.len /\ slice' = input.len
          /\ kept' = << >> /\ cj' = << >>
      BY <1>1, <1>2, <1>3, <2>1, <2>2, SepType DEF Looking
    <3>2. input.len < MaxBuf
      BY <2>1, <2>2, SepType DEF Looking, AtEnd
    <3>3. \A i \in 1 .. input.len : buf[i] = i
      <4> TAKE i \in 1 .. input.len
      <4>1. i \in 1 .. end - start
        BY <2>2, SepType
      <4>2. buf[start + i] = off - (end - start) + i
        BY <4>1 DEF IInv, DataInOrder
      <4>3. start + i = i /\ off - (end - start) + i = i
        BY <2>2, SepType
      <4> QED
        BY <4>2, <4>3
    <3> QED
      BY <1>1, <2>2, <2>3, <3>1, <3>2, <3>3 DEF AllTaken
  <2>5. scan' = 2 /\ CutAsPredicted'
    BY <1>1, <1>3, NotYet
  <2> QED
    BY <2>4, <2>5 DEF Cutting
<1>4. CASE scan = 2
  <2>1. scan' = 3 /\ gj' = gj
    BY <1>1, <1>4 DEF gj
  <2>2. NoneTaken \/ (Halfway /\ (Intact \/ Spoilt))
    BY <1>2, <1>4, SepType DEF Cutting, AllTaken
  <2>3. CASE NoneTaken
    <3>1. cj' = Bytes(1, off) /\ off > 0
      <4>1. end - start <= off /\ off - (end - start) + 1 = 1 /\ off > 0
        BY <2>3, SepType DEF NoneTaken
      <4> QED
        BY <1>1, <1>4, <4>1, AllOfData
    <3>2. Gauges \in Nat /\ Gauges # 0 /\ Gauges <= input.len
      BY <2>3, SepType, BackupFileAssumption DEF NoneTaken, TooLong
    <3>3. gj' # Bytes(1, Gauges)
      <4>1. Len(gj') = 0
        BY <2>1, <2>3, Slice DEF NoneTaken
      <4>2. Len(Bytes(1, Gauges)) = Gauges - 1 + 1
        BY <3>2, BytesType
      <4> QED
        BY <3>2, <4>1, <4>2
    <3>4. cj' # Bytes(Gauges + 1, input.len)
      <4>1. PICK a \in Nat : a = Gauges + 1
        BY <3>2
      <4>2. CASE input.len >= a
        <5>1. Bytes(a, input.len)[1] = a /\ Bytes(1, off)[1] = 1
          <6>1. 1 \in 1 .. input.len - a + 1 /\ 1 \in 1 .. off - 1 + 1
            BY <3>1, <4>1, <4>2, SepType
          <6> QED
            BY <4>1, <6>1 DEF Bytes
        <5> QED
          BY <3>1, <3>2, <4>1, <5>1
      <4>3. CASE input.len < a
        <5>1. /\ a \in Nat /\ input.len \in Nat /\ a <= input.len + 1
              /\ 1 \in Nat /\ off \in Nat /\ 1 <= off + 1
          BY <3>2, <4>1, SepType
        <5>2. Len(Bytes(a, input.len)) = input.len - a + 1
          BY <5>1, BytesType, Zenon
        <5>3. Len(Bytes(1, off)) = off - 1 + 1
          BY <5>1, BytesType, Zenon
        <5> QED
          BY <3>1, <3>2, <4>1, <4>3, <5>1, <5>2, <5>3
      <4> QED
        BY <4>1, <4>2, <4>3, SepType
    <3>5. CutAsPredicted'
      BY <1>1, <2>3, <3>3, <3>4, Verdict DEF NoneTaken
    <3> QED
      BY <2>1, <3>5 DEF Cutting
  <2>4. CASE Halfway /\ (Intact \/ Spoilt)
    <3>1. /\ input.sep # 0 /\ input.sep < MaxBuf /\ slice = input.sep
          /\ Gauges = input.sep /\ input.sep < input.len
          /\ off = input.len /\ end - start = input.len - input.sep
          /\ end - start < MaxBuf /\ err = "eof"
      BY <1>1, <2>4, SepType DEF Halfway, AtEnd
    <3>2. cj' = Bytes(Gauges + 1, input.len)
      <4>1. off - (end - start) = Gauges /\ end - start <= off
        BY <3>1, SepType
      <4>2. SubSeq(Data, 1, Len(Data)) = Bytes(off - (end - start) + 1, off)
        BY <4>1, AllOfData
      <4> QED
        BY <1>1, <1>4, <3>1, <4>1, <4>2
    <3>3. ~TooLong(Gauges) /\ ~CountersTooLong(Gauges, input.len)
      BY <3>1, SepType, BackupFileAssumption DEF TooLong, CountersTooLong
    <3>4. gj' = Bytes(1, Gauges) <=> ~Overwritten(Gauges, input.len)
      <4>1. CASE Intact
        BY <2>1, <3>1, <4>1, TokenIntact DEF Intact
      <4>2. CASE Spoilt
        BY <2>1, <3>1, <4>2, TokenSpoilt DEF Spoilt
      <4> QED
        BY <2>4, <4>1, <4>2
    <3>5. CutAsPredicted'
      BY <1>1, <3>2, <3>3, <3>4, Verdict
    <3> QED
      BY <2>1, <3>5 DEF Cutting
  <2> QED
    BY <2>2, <2>3, <2>4
<1> QED
  BY <1>1, <1>3, <1>4

\* A buffer that is full of gauges, or of counters, without an end.
LEMMA CutGiveUp ==
  ASSUME IInv, Cutting, GiveUp
  PROVE  Cutting'
<1>1. /\ Stops(Data) = {} /\ err = "none" /\ scan \in 1 .. 2
      /\ ~Crowded /\ end = Len(buf) /\ Len(buf) >= MaxBuf
      /\ err' = "tooLong" /\ scan' = scan + 1
      /\ UNCHANGED <<input, off, buf, start, end, slice, kept, cj, panics>>
  BY DEF GiveUp, More, Running, IInv, ScanTypeOK
<1>2. start = 0 /\ end = MaxBuf /\ end > 0
  <2>1. ~(start > 0)
    BY <1>1 DEF Crowded
  <2> QED
    BY <1>1, <2>1, SepType, BackupFileAssumption
<1>3. CASE scan = 1
  <2>1. Looking
    BY <1>3 DEF Cutting
  <2>2. TooLong(Gauges)
    <3>1. off = MaxBuf
      BY <1>2, <2>1 DEF Looking
    <3>2. input.sep = 0 \/ input.sep >= off
      BY <1>1, <1>2, <2>1, NotFound, SepType DEF Looking
    <3> QED
      BY <3>1, <3>2, SepType, BackupFileAssumption DEF TooLong
  <2>3. (Stops(Data) = {})' /\ Gauges' = Gauges
    BY <1>1 DEF Stops, Data, Gauges
  <2>4. NoneTaken'
    BY <1>1, <1>2, <2>1, <2>2, <2>3 DEF NoneTaken, Looking, TooLong
  <2>5. scan' = 2 /\ CutAsPredicted'
    BY <1>1, <1>3, NotYet
  <2> QED
    BY <2>4, <2>5 DEF Cutting
<1>4. CASE scan = 2
  <2>1. Halfway /\ Spoilt
    BY <1>1, <1>2, <1>4 DEF Cutting, AllTaken, NoneTaken, Halfway, Intact
  <2>2. scan' = 3 /\ gj' = gj /\ cj' = << >>
    BY <1>1, <1>4, <2>1 DEF gj, Halfway
  <2>3. Gauges = input.sep /\ input.sep < input.len
    BY <2>1, SepType DEF Halfway
  <2>4. CountersTooLong(Gauges, input.len)
    BY <1>2, <2>1, <2>3, SepType, BackupFileAssumption
      DEF Halfway, CountersTooLong
  <2>5. cj' # Bytes(Gauges + 1, input.len)
    <3>1. PICK a \in Nat : a = Gauges + 1
      BY <2>3, SepType
    <3>2. Len(Bytes(a, input.len)) = input.len - a + 1
      <4>1. a \in Nat /\ input.len \in Nat /\ a <= input.len + 1
        BY <2>3, <3>1, SepType
      <4> QED
        BY <4>1, BytesType, Zenon
    <3>3. Len(Bytes(a, input.len)) # 0
      BY <2>3, <3>1, <3>2, SepType
    <3>4. Len(cj') = 0
      BY <2>2
    <3> QED
      BY <3>1, <3>3, <3>4
  <2>6. gj' # Bytes(1, Gauges) /\ Overwritten(Gauges, input.len)
    BY <2>1, <2>2, <2>3, TokenSpoilt DEF Halfway, Spoilt
  <2>7. CutAsPredicted'
    BY <1>1, <2>4, <2>5, <2>6, Verdict
  <2> QED
    BY <2>2, <2>7 DEF Cutting
<1> QED
  BY <1>1, <1>3, <1>4

LEMMA StepCutting == IInv /\ Cutting /\ [ScanNext]_scanVars => Cutting'
<1> SUFFICES ASSUME IInv, Cutting, [ScanNext]_scanVars
             PROVE  Cutting'
  OBVIOUS
<1>1. CASE Split
  BY <1>1, CutSplit
<1>2. CASE LookPast
  BY <1>2, CutLookPast
<1>3. CASE Rest
  BY <1>3, CutRest
<1>4. CASE NoToken
  BY <1>4, CutNothing
<1>5. CASE Shift
  BY <1>5, CutShift
<1>6. CASE GiveUp
  BY <1>6, CutGiveUp
<1>7. CASE Grow
  BY <1>7, CutGrow
<1>8. CASE Read
  BY <1>8, CutRead
<1>9. CASE UNCHANGED scanVars
  BY <1>9 DEF scanVars, Cutting, Looking, AllTaken, NoneTaken, Halfway, Intact,
    Spoilt, Deep, AtEnd, First, CutAsPredicted, Gauges, gj, Stops, Data
<1> QED
  BY <1>1, <1>2, <1>3, <1>4, <1>5, <1>6, <1>7, <1>8, <1>9 DEF ScanNext

\* What RestorePrev is left with, for buffers of any two sizes, files of any
\* length and any commas in them: the gauges of the file unless they are too
\* long or were overwritten, and its counters unless one of the two is too long.
THEOREM CutRight == ScanSpec => []CutAsPredicted
<1>1. ScanInit => Cutting
  <2> SUFFICES ASSUME ScanInit
               PROVE  Cutting
    OBVIOUS
  <2>1. /\ off = 0 /\ buf = << >> /\ start = 0 /\ end = 0 /\ err = "none"
        /\ scan = 1 /\ slice = 0 /\ kept = << >> /\ cj = << >>
    BY DEF ScanInit
  <2>2. Len(buf) <= Buf
    BY <2>1, BackupFileAssumption
  <2> QED
    BY <2>1, <2>2 DEF Cutting, Looking, AtEnd, Deep, CutAsPredicted
<1>2. Cutting => CutAsPredicted
  BY DEF Cutting
<1> QED
  BY <1>1, <1>2, StepCutting, Invariance, PTL DEF ScanSpec
=============================================================================
