------------------------- MODULE ServerLife_proofs ---------------------------
(***************************************************************************)
(* Proofs about ServerLife, for any number of clients, names, runs and     *)
(* requests: the types, that no counter is invented by backups, restores   *)
(* and crashes, what may have emptied the file, that a shutdown backup     *)
(* that succeeds holds what was acknowledged, and that a run keeps the     *)
(* backup it has found until Write begins and has it in the file again     *)
(* when Write is done.                                                     *)
(***************************************************************************)
EXTENDS ServerLife, Metrics_proofs

-----------------------------------------------------------------------------
(* Maps and batches. *)

\* A batch of gauges leaves gauges, with an entry wherever either had one.
LEMMA GaugesAfter ==
  ASSUME NEW m \in GaugeMap, NEW b \in GaugeMap
  PROVE  /\ ApplyBatch("set", m, b) \in GaugeMap
         /\ Keys(ApplyBatch("set", m, b)) = Keys(m) \cup Keys(b)
BY DEF GaugeMap, ApplyBatch, Merge, Keys

\* A batch of deltas leaves counters, none of them higher than by its delta.
LEMMA CountersAfter ==
  ASSUME NEW m \in Map, NEW b \in Map
  PROVE  /\ ApplyBatch("accum", m, b) \in Map
         /\ Keys(ApplyBatch("accum", m, b)) = Keys(m) \cup Keys(b)
         /\ \A n \in Names :
              Count(ApplyBatch("accum", m, b)[n]) <= Count(m[n]) + Count(b[n])
<1>1. ASSUME NEW n \in Names
      PROVE  Count(ApplyBatch("accum", m, b)[n]) <= Count(m[n]) + Count(b[n])
  <2>1. Count(m[n]) \in Nat /\ Count(b[n]) \in Nat
    BY CountType
  <2>2. Count(m[n]) + Count(b[n]) \in Nat
    BY <2>1
  <2> QED
    BY <2>2, BatchSum, Residue
<1> QED
  BY <1>1, BatchType

LEMMA EmptyMaps == EmptyMap \in GaugeMap /\ EmptyMap \in Map
BY DEF EmptyMap, GaugeMap, Map

LEMMA RestorableType ==
  ASSUME NEW f \in Files
  PROVE  Restorable(f) \in Ledger
<1>1. Zero \in [Names -> Nat]
  BY DEF Zero
<1>2. f.g \in GaugeMap /\ f.c \in Map
  BY DEF Files
<1>3. Plus(Zero, f.c) \in [Names -> Nat]
  BY <1>1, <1>2, PlusType
<1> QED
  BY <1>1, <1>3 DEF Restorable, Nothing, Ledger, Keys

LEMMA NothingType == Nothing \in Ledger
BY DEF Nothing, Zero, Ledger

\* A file that was written in part, or over an older one, is a file, and its
\* counters are those that were written or those that were there.
LEMMA CutShortType ==
  ASSUME NEW d \in Files, NEW f \in CutShort(d)
  PROVE  f \in Files /\ f.c \in {d.c, EmptyMap}
<1>1. Empty \in Files /\ Empty.c = EmptyMap
  BY EmptyMaps DEF Empty, Files
<1>2. f = Empty \/ \E kind \in {"full", "cutGauges", "cutCounters", "comma"} :
                      \/ f = [d EXCEPT !.kind = kind]
                      \/ f = [[d EXCEPT !.kind = "full"] EXCEPT !.c = EmptyMap]
  BY DEF CutShort
<1> QED
  BY <1>1, <1>2, EmptyMaps DEF Files

LEMMA OverlaysType ==
  ASSUME NEW old \in Files, NEW d \in Files, NEW f \in Overlays(old, d)
  PROVE  f \in Files /\ f.c \in {d.c, old.c} /\ f # Empty
<1>1. PICK kind \in {"full", "cutGauges", "cutCounters", "oldCounters", "comma"} :
        \/ f = [d EXCEPT !.kind = kind]
        \/ f = [[d EXCEPT !.kind = kind] EXCEPT !.c = old.c]
  BY DEF Overlays
<1>2. f.kind = kind /\ f.g = d.g /\ f.c \in {d.c, old.c}
  BY <1>1 DEF Files
<1>3. f \in Files
  BY <1>1 DEF Files
<1>4. f # Empty
  BY <1>2 DEF Empty
<1> QED
  BY <1>2, <1>3, <1>4

-----------------------------------------------------------------------------
(* Types. *)

LEMMA InitType == Init => TypeOK
<1> SUFFICES ASSUME Init
             PROVE  TypeOK
  OBVIOUS
<1>1. Empty \in Files
  BY EmptyMaps DEF Empty, Files
<1>2. flight \in [Clients -> [at : {"none", "gauges", "counters", "respond"},
                              g : GaugeMap, c : Map]]
  BY EmptyMaps DEF Init, NoRequest
<1>3. Zero \in [Names -> Nat]
  BY DEF Zero
<1>4. owed \in Ledger /\ found \in Ledger
  BY NothingType DEF Init
<1>5. starts \in 0 .. MaxStarts /\ sends \in 0 .. MaxSends
  BY ServerLifeAssumption DEF Init
<1> QED
  BY <1>1, <1>2, <1>3, <1>4, <1>5, EmptyMaps DEF Init, TypeOK

\* A request in flight keeps its type wherever it goes.
LEMMA FlightType ==
  ASSUME TypeOK
  PROVE  /\ [c \in Clients |-> NoRequest] \in
              [Clients -> [at : {"none", "gauges", "counters", "respond"},
                           g : GaugeMap, c : Map]]
         /\ \A c \in Clients : flight[c].g \in GaugeMap /\ flight[c].c \in Map
BY EmptyMaps DEF TypeOK, NoRequest

LEMMA StepType == TypeOK /\ [Next]_vars => TypeOK'
<1> SUFFICES ASSUME TypeOK, [Next]_vars
             PROVE  TypeOK'
  OBVIOUS
<1> USE DEF server, memory, backup, requests, ledger
<1>1. ASSUME NEW r \in BOOLEAN, Start(r)
      PROVE  TypeOK'
  <2>1. Restorable(file) \in Ledger
    BY RestorableType DEF TypeOK
  <2>2. Nothing \in Ledger
    BY NothingType
  <2>3. Empty \in Files
    BY EmptyMaps DEF Empty, Files
  <2>4. starts' \in 0 .. MaxStarts
    BY <1>1, ServerLifeAssumption DEF Start, TypeOK
  <2>5. owed' \in Ledger /\ found' \in Ledger
    BY <1>1, <2>1, <2>2 DEF Start
  <2> QED
    BY <1>1, <2>3, <2>4, <2>5, EmptyMaps, FlightType DEF Start, TypeOK
<1>2. CASE Crash \/ Exit
  BY <1>2, FlightType DEF Crash, Exit, Writing, Returned, TypeOK
<1>3. CASE Signal \/ RestoreNot \/ Listen \/ ListenFails \/ ListenReturns
             \/ Shutdown \/ Tick \/ TickTaken \/ TruncateFails
  BY <1>3 DEF Signal, RestoreNot, Listen, ListenFails, ListenReturns, Shutdown,
              Tick, TickTaken, TruncateFails, Writing, TypeOK
<1>4. CASE Restore
  <2>1. file.g \in GaugeMap /\ file.c \in Map
    BY DEF TypeOK, Files
  <2>2. gauges' \in GaugeMap /\ counters' \in Map
    BY <1>4, <2>1, GaugesAfter, CountersAfter DEF Restore, TypeOK
  <2> QED
    BY <1>4, <2>2 DEF Restore, TypeOK
<1>5. CASE RestoreFails
  <2>1. Nothing \in Ledger
    BY NothingType
  <2> QED
    BY <1>5, <2>1 DEF RestoreFails, TypeOK
<1>6. CASE RestorePanics
  BY <1>6, FlightType DEF RestorePanics, Crash, TypeOK
<1>7. CASE WriteBegin \/ WriteRefused
  <2>1. Empty \in Files
    BY EmptyMaps DEF Empty, Files
  <2>2. file' \in Files
    BY <1>7, <2>1 DEF WriteBegin, WriteRefused, TypeOK
  <2> QED
    BY <1>7, <2>2 DEF WriteBegin, WriteRefused, Writing, Returned, TypeOK
<1>8. CASE MarshalBegin \/ MarshalGaugesEnd
  BY <1>8 DEF MarshalBegin, MarshalGaugesEnd, Keys, Writing, Returned, TypeOK
<1>9. CASE MarshalGauge
  <2>1. PICK n \in todo : /\ image' = [image EXCEPT !.g[n] = gauges[n]]
                          /\ todo' = todo \ {n}
    BY <1>9 DEF MarshalGauge
  <2>2. image' \in Files
    BY <2>1 DEF TypeOK, Files, GaugeMap
  <2> QED
    BY <1>9, <2>1, <2>2 DEF MarshalGauge, TypeOK
<1>10. CASE MarshalCounter
  <2>1. PICK n \in todo : /\ image' = [image EXCEPT !.c[n] = counters[n]]
                          /\ todo' = todo \ {n}
    BY <1>10 DEF MarshalCounter
  <2>2. image' \in Files
    BY <2>1 DEF TypeOK, Files, Map
  <2> QED
    BY <1>10, <2>1, <2>2 DEF MarshalCounter, TypeOK
<1>11. CASE WriteFile
  <2>1. file' \in Files
    BY <1>11 DEF WriteFile, Files, TypeOK
  <2> QED
    BY <1>11, <2>1 DEF WriteFile, Returned, TypeOK
<1>12. CASE WriteFails \/ WriteOver
  <2>1. file' \in Files
    BY <1>12, CutShortType, OverlaysType DEF WriteFails, WriteOver, TypeOK
  <2> QED
    BY <1>12, <2>1 DEF WriteFails, WriteOver, Returned, TypeOK
<1>13. ASSUME NEW c \in Clients, NEW u \in Updates, Send(c, u)
       PROVE  TypeOK'
  <2>1. u.g \in GaugeMap /\ u.c \in Map
    BY ServerLifeAssumption
  <2>2. sends' \in 0 .. MaxSends
    BY <1>13, ServerLifeAssumption DEF Send, TypeOK
  <2> QED
    BY <1>13, <2>1, <2>2 DEF Send, Request, TypeOK
<1>14. ASSUME NEW c \in Clients, SetGauges(c)
       PROVE  TypeOK'
  <2>1. gauges' \in GaugeMap
    BY <1>14, FlightType, GaugesAfter DEF SetGauges, TypeOK
  <2> QED
    BY <1>14, <2>1 DEF SetGauges, TypeOK
<1>15. ASSUME NEW c \in Clients, SetCounters(c)
       PROVE  TypeOK'
  <2>1. counters' \in Map
    BY <1>15, FlightType, CountersAfter DEF SetCounters, TypeOK
  <2>2. applied' \in [Names -> Nat]
    BY <1>15, FlightType, PlusType DEF SetCounters, TypeOK
  <2> QED
    BY <1>15, <2>1, <2>2 DEF SetCounters, TypeOK
<1>16. ASSUME NEW c \in Clients, Respond(c)
       PROVE  TypeOK'
  <2>1. Plus(owed.c, flight[c].c) \in [Names -> Nat]
    BY FlightType, PlusType DEF TypeOK, Ledger
  <2>2. owed' \in Ledger
    BY <1>16, <2>1 DEF Respond, Keys, Ledger, TypeOK
  <2> QED
    BY <1>16, <2>2, EmptyMaps DEF Respond, NoRequest, TypeOK
<1>17. CASE UNCHANGED vars
  BY <1>17 DEF vars, TypeOK
<1> QED
  BY <1>1, <1>2, <1>3, <1>4, <1>5, <1>6, <1>7, <1>8, <1>9, <1>10, <1>11, <1>12,
     <1>13, <1>14, <1>15, <1>16, <1>17 DEF Next, Run, Handle

\* Every variable keeps its type; a counter stays within its int64 whatever is
\* restored and summed up.
THEOREM TypeCorrect == Spec => []TypeOK
BY InitType, StepType, PTL DEF Spec

-----------------------------------------------------------------------------
(* Nothing is invented: what has been marshalled is bounded like the rest. *)

AtMostApplied(m) == \A n \in Names : Count(m[n]) <= applied[n]

Bounded ==
  /\ phase = "restore" => counters = EmptyMap
  /\ AtMostApplied(counters) /\ AtMostApplied(file.c) /\ AtMostApplied(image.c)

LEMMA NoneApplied ==
  ASSUME TypeOK
  PROVE  AtMostApplied(EmptyMap)
BY DEF TypeOK, AtMostApplied, EmptyMap, Count

LEMMA StepBounded == TypeOK /\ Bounded /\ [Next]_vars => Bounded'
<1> SUFFICES ASSUME TypeOK, Bounded, [Next]_vars
             PROVE  Bounded'
  OBVIOUS
<1> USE DEF server, memory, backup, requests, ledger
<1>1. ASSUME NEW r \in BOOLEAN, Start(r)
      PROVE  Bounded'
  BY <1>1, NoneApplied DEF Start, Empty, Bounded, AtMostApplied
<1>2. CASE Crash \/ Exit
  BY <1>2 DEF Crash, Exit, Bounded, AtMostApplied
<1>3. CASE \/ Signal \/ RestoreNot \/ RestoreFails \/ Listen \/ ListenFails
           \/ ListenReturns \/ Shutdown \/ Tick \/ TickTaken
           \/ TruncateFails \/ MarshalBegin \/ MarshalGaugesEnd
  BY <1>3 DEF Signal, RestoreNot, RestoreFails, Listen, ListenFails,
     ListenReturns, Shutdown, Tick, TickTaken, TruncateFails, MarshalBegin,
     MarshalGaugesEnd, Bounded, AtMostApplied
<1>4. CASE Restore
  <2>1. file.c \in Map
    BY DEF TypeOK, Files
  <2>2. counters' = counters \/ counters' = ApplyBatch("accum", EmptyMap, file.c)
    BY <1>4 DEF Restore, Bounded
  <2>3. \A n \in Names : Count(ApplyBatch("accum", EmptyMap, file.c)[n])
                           <= Count(EmptyMap[n]) + Count(file.c[n])
    BY <2>1, EmptyMaps, CountersAfter
  <2>4. \A n \in Names : Count(EmptyMap[n]) = 0 /\ Count(file.c[n]) \in Nat
    BY <2>1, MetricsAssumption DEF EmptyMap, Count, Map, Val
  <2>5. ApplyBatch("accum", EmptyMap, file.c) = file.c
    BY <2>1 DEF ApplyBatch, EmptyMap, Merge, Map
  <2> QED
    BY <1>4, <2>2, <2>5 DEF Restore, Bounded, AtMostApplied
<1>6. CASE RestorePanics
  BY <1>6 DEF RestorePanics, Crash, Bounded, AtMostApplied
<1>7. CASE WriteBegin \/ WriteRefused
  <2>1. file'.c \in {file.c, EmptyMap}
    BY <1>7 DEF WriteBegin, WriteRefused, Empty
  <2> QED
    BY <1>7, <2>1, NoneApplied
    DEF WriteBegin, WriteRefused, Bounded, AtMostApplied
<1>9. CASE MarshalGauge
  <2>1. image'.c = image.c
    BY <1>9 DEF MarshalGauge, TypeOK, Files
  <2> QED
    BY <1>9, <2>1 DEF MarshalGauge, Bounded, AtMostApplied
<1>10. CASE MarshalCounter
  <2>1. PICK n \in todo : image' = [image EXCEPT !.c[n] = counters[n]]
    BY <1>10 DEF MarshalCounter
  <2>2. \A k \in Names : image'.c[k] \in {image.c[k], counters[k]}
    BY <2>1 DEF TypeOK, Files, Map
  <2> QED
    BY <1>10, <2>2 DEF MarshalCounter, Bounded, AtMostApplied
<1>11. CASE WriteFile \/ WriteOver \/ WriteFails
  <2>1. CASE WriteFile
    BY <2>1 DEF WriteFile, TypeOK, Files, Bounded, AtMostApplied
  <2>2. CASE WriteOver \/ WriteFails
    <3>1. file'.c \in {file.c, image.c, EmptyMap}
      BY <2>2, CutShortType, OverlaysType DEF WriteOver, WriteFails, TypeOK
    <3> QED
      BY <2>2, <3>1, NoneApplied DEF WriteOver, WriteFails, Bounded, AtMostApplied
  <2> QED
    BY <1>11, <2>1, <2>2
<1>13. ASSUME NEW c \in Clients, NEW u \in Updates, Send(c, u)
       PROVE  Bounded'
  BY <1>13 DEF Send, Bounded, AtMostApplied
<1>14. ASSUME NEW c \in Clients, SetGauges(c) \/ Respond(c)
       PROVE  Bounded'
  BY <1>14 DEF SetGauges, Respond, Bounded, AtMostApplied
<1>15. ASSUME NEW c \in Clients, SetCounters(c)
       PROVE  Bounded'
  <2>1. flight[c].c \in Map /\ counters \in Map /\ applied \in [Names -> Nat]
    BY FlightType DEF TypeOK
  <2>2. \A n \in Names : Count(counters'[n])
                           <= Count(counters[n]) + Count(flight[c].c[n])
    BY <1>15, <2>1, CountersAfter DEF SetCounters
  <2>3. \A n \in Names :
          applied'[n] = applied[n] + Count(flight[c].c[n])
          /\ Count(flight[c].c[n]) \in Nat
    BY <1>15, <2>1, PlusType DEF SetCounters
  <2>4. TypeOK'
    BY StepType
  <2>5. \A n \in Names : /\ Count(counters[n]) \in Nat /\ Count(counters'[n]) \in Nat
                          /\ Count(file.c[n]) \in Nat /\ Count(image.c[n]) \in Nat
    BY <2>4, MetricsAssumption DEF TypeOK, Files, Map, Val, Count
  <2>6. AtMostApplied(counters)'
    BY <2>1, <2>2, <2>3, <2>5 DEF Bounded, AtMostApplied
  <2>7. AtMostApplied(file.c)' /\ AtMostApplied(image.c)'
    BY <1>15, <2>1, <2>3, <2>5 DEF SetCounters, Bounded, AtMostApplied
  <2> QED
    BY <1>15, <2>6, <2>7 DEF SetCounters, Bounded
<1>17. CASE UNCHANGED vars
  BY <1>17 DEF vars, Bounded, AtMostApplied
<1> QED
  BY <1>1, <1>2, <1>3, <1>4, <1>6, <1>7, <1>9, <1>10, <1>11, <1>13, <1>14,
     <1>15, <1>17 DEF Next, Run, Handle

\* No counter, in memory or in the file, is ever more than what was added to it
\* in all runs: an update counts once, whatever is backed up, cut short,
\* restored and started again.
THEOREM NoneInvented == Spec => []NothingInvented
<1>1. Init => Bounded
  BY InitType, NoneApplied DEF Init, Empty, Bounded, AtMostApplied
<1>2. Bounded => NothingInvented
  BY DEF Bounded, AtMostApplied, NothingInvented
<1> QED
  BY <1>1, <1>2, InitType, StepType, StepBounded, PTL DEF Spec

-----------------------------------------------------------------------------
(***************************************************************************)
(* What Write ends with.  What the run owes must be followed from the file *)
(* it was restored from, through the maps, into the image Write makes of   *)
(* them.                                                                   *)
(***************************************************************************)

\* The counters that are owed more than nothing.
OwedCounters == {n \in Names : owed.c[n] > 0}

\* Until the file is read the run has done nothing else.
OwesFile ==
  phase = "restore" =>
    /\ gauges = EmptyMap /\ counters = EmptyMap
    /\ writer = "schedule" /\ resumed = FALSE
    /\ owed = IF restore THEN Restorable(file) ELSE Nothing

\* What is owed is in the maps ...
OwesMaps ==
  phase = "serve" => owed.g \subseteq Keys(gauges)
                       /\ OwedCounters \subseteq Keys(counters)

\* ... because what a handler has applied is.
AppliedIsThere ==
  \A c \in Clients :
    /\ flight[c].at \in {"counters", "respond"} =>
         phase = "serve" /\ Keys(flight[c].g) \subseteq Keys(gauges)
    /\ flight[c].at = "respond" => Keys(flight[c].c) \subseteq Keys(counters)

\* While Write reads the maps nothing more is owed.  What is owed and not in the
\* image yet is still to be marshalled, and still in the map.
OwesImage ==
  /\ writer = "gauges" => todo \subseteq Keys(gauges)
                            /\ owed.g \subseteq todo \cup Keys(image.g)
  /\ writer = "counters" => /\ todo \subseteq Keys(counters)
                            /\ owed.g \subseteq Keys(image.g)
                            /\ OwedCounters \subseteq todo \cup Keys(image.c)

Owed == OwesFile /\ OwesMaps /\ AppliedIsThere /\ OwesImage

\* What can be restored of a file is in it.
LEMMA RestorableThere ==
  ASSUME NEW f \in Files
  PROVE  /\ Restorable(f).g \subseteq IF GaugeToken(f) = "ok" THEN Keys(f.g) ELSE {}
         /\ \A n \in Names : Restorable(f).c[n] > 0 =>
              CounterToken(f) = "ok" /\ n \in Keys(f.c)
<1>1. f.c \in Map /\ Zero \in [Names -> Nat] /\ \A n \in Names : Zero[n] = 0
  BY DEF Files, Zero
<1>2. \A n \in Names : Plus(Zero, f.c)[n] > 0 => n \in Keys(f.c)
  BY <1>1, PlusType DEF Count, Keys
<1> QED
  BY <1>1, <1>2 DEF Restorable, Nothing

LEMMA NothingOwed == Nothing.g = {} /\ \A n \in Names : Nothing.c[n] = 0
BY DEF Nothing, Zero

LEMMA StepOwed == TypeOK /\ Owed /\ [Next]_vars => Owed'
<1> SUFFICES ASSUME TypeOK, Owed, [Next]_vars
             PROVE  Owed'
  OBVIOUS
<1> USE DEF server, memory, backup, requests, ledger
<1>1. ASSUME NEW r \in BOOLEAN, Start(r)
      PROVE  Owed'
  <2>1. AppliedIsThere'
    BY <1>1 DEF Start, NoRequest, AppliedIsThere
  <2> QED
    BY <1>1, <2>1 DEF Start, Owed, OwesFile, OwesMaps, OwesImage
<1>2. CASE Crash \/ Exit
  <2>1. AppliedIsThere'
    BY <1>2 DEF Crash, Exit, NoRequest, AppliedIsThere
  <2> QED
    BY <1>2, <2>1
    DEF Crash, Exit, Owed, OwesFile, OwesMaps, OwesImage, OwedCounters
<1>3. CASE \/ Signal \/ Listen \/ ListenFails \/ ListenReturns \/ Shutdown
           \/ Tick \/ TickTaken \/ TruncateFails \/ WriteRefused
  <2> USE <1>3 DEF Signal, Listen, ListenFails, ListenReturns, Shutdown, Tick,
          TickTaken, TruncateFails, WriteRefused
  <2>1. OwesFile' /\ OwesMaps'
    BY DEF Owed, OwesFile, OwesMaps, OwedCounters
  <2>2. AppliedIsThere' /\ OwesImage'
    BY DEF Owed, AppliedIsThere, OwesImage, OwedCounters
  <2> QED
    BY <2>1, <2>2 DEF Owed
<1>4. CASE Restore
  <2>1. file \in Files /\ file.g \in GaugeMap /\ file.c \in Map
    BY DEF TypeOK, Files
  <2>2. GaugeToken(file) = "ok" => Keys(gauges') = Keys(gauges) \cup Keys(file.g)
    BY <1>4, <2>1, GaugesAfter DEF Restore, TypeOK
  <2>3. CounterToken(file) = "ok" =>
          Keys(counters') = Keys(counters) \cup Keys(file.c)
    BY <1>4, <2>1, CountersAfter DEF Restore, TypeOK
  <2>4. owed' = Restorable(file)
    BY <1>4 DEF Restore, Owed, OwesFile
  <2>5. OwesMaps'
    BY <2>1, <2>2, <2>3, <2>4, RestorableThere DEF OwesMaps, OwedCounters
  <2>6. AppliedIsThere'
    BY <1>4 DEF Restore, Owed, AppliedIsThere
  <2> QED
    BY <1>4, <2>5, <2>6 DEF Restore, Owed, OwesFile, OwesImage
<1>5. CASE RestoreNot \/ RestoreFails
  <2>1. owed' = Nothing
    BY <1>5 DEF RestoreNot, RestoreFails, Owed, OwesFile
  <2>2. OwesMaps'
    BY <2>1, NothingOwed DEF OwesMaps, OwedCounters
  <2>3. AppliedIsThere'
    BY <1>5 DEF RestoreNot, RestoreFails, Owed, AppliedIsThere
  <2> QED
    BY <1>5, <2>2, <2>3 DEF RestoreNot, RestoreFails, Owed, OwesFile, OwesImage
<1>6. CASE RestorePanics
  <2>1. AppliedIsThere'
    BY <1>6 DEF RestorePanics, Crash, NoRequest, AppliedIsThere
  <2> QED
    BY <1>6, <2>1 DEF RestorePanics, Crash, Owed, OwesFile, OwesMaps, OwesImage
<1>7. CASE \/ WriteBegin \/ MarshalBegin
           \/ WriteFile \/ WriteOver \/ WriteFails
  <2> USE <1>7 DEF WriteBegin, MarshalBegin, WriteFile, WriteOver, WriteFails
  <2>1. OwesFile' /\ OwesMaps'
    BY DEF Owed, OwesFile, OwesMaps, OwedCounters
  <2>2. AppliedIsThere'
    BY DEF Owed, AppliedIsThere
  <2>3. OwesImage'
    BY DEF Owed, OwesMaps, OwesImage
  <2> QED
    BY <2>1, <2>2, <2>3 DEF Owed
<1>8. CASE MarshalGaugesEnd
  <2> USE <1>8 DEF MarshalGaugesEnd
  <2>1. OwesFile' /\ OwesMaps' /\ AppliedIsThere'
    BY DEF Owed, OwesFile, OwesMaps, OwedCounters, AppliedIsThere
  <2>2. OwesImage'
    BY DEF Owed, OwesMaps, OwesImage, OwedCounters
  <2> QED
    BY <2>1, <2>2 DEF Owed
<1>9. CASE MarshalGauge
  <2> USE <1>9 DEF MarshalGauge
  <2>1. PICK n \in todo : /\ image' = [image EXCEPT !.g[n] = gauges[n]]
                          /\ todo' = todo \ {n}
    OBVIOUS
  <2>2. gauges[n] # Absent
    BY DEF Owed, OwesImage, Keys
  <2>3. Keys(image.g) \cup {n} \subseteq Keys(image'.g)
    BY <2>1, <2>2 DEF TypeOK, Files, GaugeMap, Keys
  <2>4. OwesImage'
    BY <2>1, <2>3 DEF Owed, OwesImage
  <2>5. OwesFile' /\ OwesMaps' /\ AppliedIsThere'
    BY DEF Owed, OwesFile, OwesMaps, OwedCounters, AppliedIsThere
  <2> QED
    BY <2>4, <2>5 DEF Owed
<1>10. CASE MarshalCounter
  <2> USE <1>10 DEF MarshalCounter
  <2>1. PICK n \in todo : /\ image' = [image EXCEPT !.c[n] = counters[n]]
                          /\ todo' = todo \ {n}
    OBVIOUS
  <2>2. counters[n] # Absent
    BY DEF Owed, OwesImage, Keys
  <2>3. Keys(image.c) \cup {n} \subseteq Keys(image'.c) /\ image'.g = image.g
    BY <2>1, <2>2 DEF TypeOK, Files, Map, Keys
  <2>4. OwesImage'
    BY <2>1, <2>3 DEF Owed, OwesImage, OwedCounters
  <2>5. OwesFile' /\ OwesMaps' /\ AppliedIsThere'
    BY DEF Owed, OwesFile, OwesMaps, OwedCounters, AppliedIsThere
  <2> QED
    BY <2>4, <2>5 DEF Owed
<1>11. ASSUME NEW c \in Clients, NEW u \in Updates, Send(c, u)
       PROVE  Owed'
  <2> USE <1>11 DEF Send
  <2>1. AppliedIsThere'
    BY DEF Owed, AppliedIsThere, Request, TypeOK
  <2> QED
    BY <2>1 DEF Owed, OwesFile, OwesMaps, OwesImage, OwedCounters
<1>12. ASSUME NEW c \in Clients, SetGauges(c)
       PROVE  Owed'
  <2> USE <1>12 DEF SetGauges
  <2>1. Keys(gauges') = Keys(gauges) \cup Keys(flight[c].g)
    BY FlightType, GaugesAfter DEF TypeOK
  <2>2. /\ flight'[c].g = flight[c].g /\ flight'[c].at = "counters"
        /\ \A d \in Clients \ {c} : flight'[d] = flight[d]
    BY DEF TypeOK
  <2>3. AppliedIsThere'
    BY <2>1, <2>2 DEF Owed, AppliedIsThere
  <2>4. OwesFile' /\ OwesMaps'
    BY <2>1 DEF Owed, OwesFile, OwesMaps, OwedCounters
  <2>5. OwesImage'
    BY <2>1 DEF Owed, OwesImage, OwedCounters
  <2> QED
    BY <2>3, <2>4, <2>5 DEF Owed
<1>13. ASSUME NEW c \in Clients, SetCounters(c)
       PROVE  Owed'
  <2> USE <1>13 DEF SetCounters
  <2>1. Keys(counters') = Keys(counters) \cup Keys(flight[c].c)
    BY FlightType, CountersAfter DEF TypeOK
  <2>2. /\ flight'[c] = [flight[c] EXCEPT !.at = "respond"]
        /\ flight'[c].c = flight[c].c /\ flight'[c].g = flight[c].g
        /\ \A d \in Clients \ {c} : flight'[d] = flight[d]
    BY DEF TypeOK
  <2>3. AppliedIsThere'
    BY <2>1, <2>2 DEF Owed, AppliedIsThere
  <2>4. OwesFile' /\ OwesMaps'
    BY <2>1 DEF Owed, OwesFile, OwesMaps, OwedCounters
  <2>5. OwesImage'
    BY <2>1 DEF Owed, OwesImage, OwedCounters
  <2> QED
    BY <2>3, <2>4, <2>5 DEF Owed
<1>14. ASSUME NEW c \in Clients, Respond(c)
       PROVE  Owed'
  <2> USE <1>14 DEF Respond
  <2>1. AppliedIsThere'
    BY DEF Owed, AppliedIsThere, NoRequest
  <2>2. OwesFile' /\ OwesImage'
    BY DEF Owed, OwesFile, OwesImage, OwedCounters
  <2>3. CASE writer \notin {"schedule", "opened"}
    BY <2>1, <2>2, <2>3 DEF Owed, OwesMaps, OwedCounters
  <2>4. CASE writer \in {"schedule", "opened"}
    <3>1. owed'.g = owed.g \cup Keys(flight[c].g)
          /\ owed'.c = Plus(owed.c, flight[c].c)
      BY <2>4
    <3>2. \A n \in Names : owed'.c[n] = owed.c[n] + Count(flight[c].c[n])
      BY <3>1, FlightType, PlusType DEF TypeOK, Ledger
    <3>3. \A n \in Names : Count(flight[c].c[n]) # 0 => n \in Keys(flight[c].c)
      BY DEF Count, Keys
    <3>4. owed.c \in [Names -> Nat]
      BY DEF TypeOK, Ledger
    <3>5. OwedCounters' \subseteq OwedCounters \cup Keys(flight[c].c)
      BY <3>2, <3>3, <3>4 DEF OwedCounters
    <3>6. OwesMaps'
      BY <3>1, <3>5 DEF Owed, OwesMaps, AppliedIsThere
    <3> QED
      BY <2>1, <2>2, <3>6 DEF Owed
  <2> QED
    BY <2>3, <2>4
<1>15. CASE UNCHANGED vars
  BY <1>15 DEF vars, Owed, OwesFile, OwesMaps, OwesImage, AppliedIsThere,
     OwedCounters
<1> QED
  BY <1>1, <1>2, <1>3, <1>4, <1>5, <1>6, <1>7, <1>8, <1>9, <1>10, <1>11, <1>12,
     <1>13, <1>14, <1>15 DEF Next, Run, Handle

\* Why Write has ended as it has.
Ending ==
  /\ writer = "nothing" => owed = Nothing
  /\ writer = "noJSON" => \E n \in Names : image.g[n] = NaN
  /\ writer \in {"done", "overlaid"} => file # Empty

\* There is nothing to write only if nothing is owed.
LEMMA NothingToWrite ==
  ASSUME TypeOK, OwesImage, writer = "counters", todo = {}, image = Empty
  PROVE  owed = Nothing
<1>1. Keys(image.g) = {} /\ Keys(image.c) = {}
  BY DEF Empty, EmptyMap, Keys
<1>2. owed.g = {} /\ OwedCounters = {}
  BY <1>1 DEF OwesImage
<1>3. \A n \in Names : owed.c[n] = 0
  BY <1>2 DEF OwedCounters, TypeOK, Ledger
<1>4. owed.c = Zero
  BY <1>3 DEF TypeOK, Ledger, Zero
<1> QED
  BY <1>2, <1>4 DEF TypeOK, Ledger, Nothing

LEMMA StepEnding == TypeOK /\ Owed /\ Ending /\ [Next]_vars => Ending'
<1> SUFFICES ASSUME TypeOK, Owed, Ending, [Next]_vars
             PROVE  Ending'
  OBVIOUS
<1> USE DEF server, memory, backup, requests, ledger
<1>1. CASE \E r \in BOOLEAN : Start(r)
  BY <1>1 DEF Start, Ending
<1>2. CASE \/ Crash \/ RestorePanics \/ Exit \/ Signal \/ Restore \/ RestoreNot
           \/ Listen \/ ListenFails \/ ListenReturns \/ Shutdown \/ Tick
           \/ TickTaken
  BY <1>2 DEF Crash, RestorePanics, Exit, Signal, Restore, RestoreNot, Listen,
     ListenFails, ListenReturns, Shutdown, Tick, TickTaken, Ending
<1>3. CASE RestoreFails
  BY <1>3 DEF RestoreFails, Owed, OwesFile, Ending
<1>4. CASE \/ TruncateFails \/ WriteBegin \/ WriteRefused \/ MarshalBegin
           \/ MarshalGauge \/ MarshalGaugesEnd \/ MarshalCounter \/ WriteFails
  BY <1>4 DEF TruncateFails, WriteBegin, WriteRefused, MarshalBegin, MarshalGauge,
     MarshalGaugesEnd, MarshalCounter, WriteFails, Ending
<1>5. CASE WriteFile
  <2>1. image = Empty => owed = Nothing
    BY <1>5, NothingToWrite DEF WriteFile, Owed
  <2>2. [image EXCEPT !.kind = "full"] # Empty
    BY DEF TypeOK, Files, Empty
  <2> QED
    BY <1>5, <2>1, <2>2 DEF WriteFile, Ending
<1>6. CASE WriteOver
  <2>1. file' # Empty
    BY <1>6, OverlaysType DEF WriteOver, TypeOK
  <2> QED
    BY <1>6, <2>1 DEF WriteOver, Ending
<1>7. ASSUME NEW c \in Clients, Handle(c) \/ \E u \in Updates : Send(c, u)
      PROVE  Ending'
  BY <1>7 DEF Handle, SetGauges, SetCounters, Respond, Send, Ending
<1>8. CASE UNCHANGED vars
  BY <1>8 DEF vars, Ending
<1> QED
  BY <1>1, <1>2, <1>3, <1>4, <1>5, <1>6, <1>7, <1>8 DEF Next, Run

\* When Write has ended and the file is empty though there was something to save,
\* it had met a NaN or an infinity among the gauges, or an error of the disk: an
\* emptied file is never taken for a success, and "nothing to write" is said only
\* of nothing.
THEOREM EmptiedForAReason == Spec => []EmptyForAReason
<1>1. Init => Owed /\ Ending
  BY DEF Init, Owed, OwesFile, OwesMaps, OwesImage, AppliedIsThere, NoRequest,
         Ending
<1>2. Ending => EmptyForAReason
  BY DEF Ending, EmptyForAReason, Returned
<1> QED
  BY <1>1, <1>2, InitType, StepType, StepOwed, StepEnding, PTL DEF Spec

-----------------------------------------------------------------------------
(***************************************************************************)
(* What was acknowledged before Write asked for the data is in the file.   *)
(* A client is told after its deltas were added, so the counters are ahead *)
(* of what is owed by the deltas of the requests about to be answered.     *)
(***************************************************************************)

Flights == [Clients -> [at : {"none", "gauges", "counters", "respond"},
                        g : GaugeMap, c : Map]]

\* What the requests about to be answered have added to counter n ...
DueOf(fl, n) ==
  [c \in Clients |-> IF fl[c].at = "respond" THEN Count(fl[c].c[n]) ELSE 0]

\* ... all together.
Due(fl, n) == Cardinality(Units(Clients, DueOf(fl, n)))
Countable(fl, n) == IsFiniteSet(Units(Clients, DueOf(fl, n)))

LEMMA NoneDue ==
  ASSUME NEW fl, NEW n \in Names, \A c \in Clients : fl[c].at # "respond"
  PROVE  Countable(fl, n) /\ Due(fl, n) = 0
<1>1. \A c \in Clients : DueOf(fl, n)[c] = 0
  BY DEF DueOf
<1> QED
  BY <1>1, NoUnits DEF Countable, Due

LEMMA DueType ==
  ASSUME NEW fl \in Flights, NEW n \in Names
  PROVE  DueOf(fl, n) \in [Clients -> Nat]
<1>1. ASSUME NEW c \in Clients
      PROVE  Count(fl[c].c[n]) \in Nat
  <2>1. fl[c].c \in Map
    BY DEF Flights
  <2> QED
    BY <2>1, CountType
<1> QED
  BY <1>1 DEF DueOf

\* One request moves.
LEMMA DueChange ==
  ASSUME NEW fl \in Flights, NEW new \in Flights, NEW c \in Clients,
         NEW n \in Names, \A d \in Clients \ {c} : new[d] = fl[d],
         Countable(fl, n)
  PROVE  /\ Countable(new, n)
         /\ Due(fl, n) \in Nat /\ Due(new, n) \in Nat
         /\ Due(new, n) + DueOf(fl, n)[c] = Due(fl, n) + DueOf(new, n)[c]
<1>1. /\ DueOf(fl, n) \in [Clients -> Nat] /\ DueOf(new, n) \in [Clients -> Nat]
      /\ \A d \in Clients \ {c} : DueOf(new, n)[d] = DueOf(fl, n)[d]
  BY DueType DEF DueOf
<1>2. IsFiniteSet(Units(Clients, DueOf(fl, n)))
  BY DEF Countable
<1> QED
  BY <1>1, <1>2, UnitsChange DEF Countable, Due

\* Each counter has what is owed of it: in memory while the process runs, in the
\* image as soon as it has been marshalled, then in the file.
Covered(n) ==
  /\ phase = "serve" => Count(counters[n]) >= owed.c[n] + Due(flight, n)
  /\ writer = "counters" => n \in todo \/ Count(image.c[n]) >= owed.c[n]
  /\ writer = "done" => Count(file.c[n]) >= owed.c[n]

Saving ==
  /\ writer = "done" => owed.g \subseteq Keys(file.g)
  /\ \A n \in Names : Countable(flight, n)
  /\ \A n \in Names : applied[n] < W => Covered(n)

\* Counts and sums are numbers.
LEMMA Numbers ==
  ASSUME TypeOK, NEW n \in Names
  PROVE  /\ Count(counters[n]) \in Nat /\ Count(image.c[n]) \in Nat
         /\ Count(file.c[n]) \in Nat /\ owed.c[n] \in Nat
         /\ applied[n] \in Nat /\ flight \in Flights
         /\ Countable(flight, n) => Due(flight, n) \in Nat
<1>1. counters \in Map /\ image.c \in Map /\ file.c \in Map
  BY DEF TypeOK, Files
<1>2. Countable(flight, n) => Due(flight, n) \in Nat
  BY FS_CardinalityType DEF Countable, Due
<1>3. flight \in Flights /\ owed.c[n] \in Nat /\ applied[n] \in Nat
  BY DEF TypeOK, Flights, Ledger
<1> QED
  BY <1>1, <1>2, <1>3, CountType

LEMMA InitSaving == Init => Saving
<1> SUFFICES ASSUME Init
             PROVE  Saving
  OBVIOUS
<1>1. \A n \in Names : Countable(flight, n)
  BY NoneDue DEF Init, NoRequest
<1> QED
  BY <1>1 DEF Init, Saving, Covered

\* A step of the process that is not one of Write leaves what is covered.
LEMMA SameCovered ==
  ASSUME Saving, UNCHANGED <<phase, counters, applied, owed, flight, file>>,
         \/ writer' \notin {"counters", "done"}
         \/ UNCHANGED <<writer, todo, image>>
  PROVE  Saving'
<1>1. \A n \in Names : Covered(n) => Covered(n)'
  BY DEF Covered
<1>2. \A n \in Names : Countable(flight, n)'
  BY DEF Saving
<1> QED
  BY <1>1, <1>2 DEF Saving

\* So does one that ends the process or starts it.
LEMMA NothingInFlight ==
  ASSUME Saving, \A c \in Clients : flight'[c].at # "respond",
         phase' # "serve", UNCHANGED applied,
         \/ writer' \notin {"counters", "done"}
         \/ UNCHANGED <<writer, todo, image, file, owed>>
  PROVE  Saving'
<1>1. \A n \in Names : Countable(flight', n)
  BY NoneDue
<1>2. \A n \in Names : Covered(n) => Covered(n)'
  BY DEF Covered
<1> QED
  BY <1>1, <1>2 DEF Saving

\* What Restore finds in the file is what the run owes.
LEMMA RestoreSaving ==
  ASSUME TypeOK, Owed, Saving, Restore \/ RestoreNot \/ RestoreFails
  PROVE  Saving'
<1> USE DEF server, memory, backup, requests, ledger
<1>1. /\ phase = "restore" /\ writer = "schedule" /\ counters = EmptyMap
      /\ owed = IF restore THEN Restorable(file) ELSE Nothing
      /\ UNCHANGED <<flight, writer, applied>>
  BY DEF Restore, RestoreNot, RestoreFails, Owed, OwesFile
<1>2. \A c \in Clients : flight[c].at # "respond"
  BY <1>1 DEF Owed, AppliedIsThere
<1>3. ASSUME NEW n \in Names
      PROVE  Countable(flight, n) /\ Due(flight, n) = 0
  BY <1>2, NoneDue
<1>4. ASSUME NEW n \in Names
      PROVE  Count(counters'[n]) >= owed'.c[n]
  <2>1. CASE owed'.c[n] = 0
    <3>1. counters' = EmptyMap
             \/ counters' = ApplyBatch("accum", EmptyMap, file.c)
      BY <1>1 DEF Restore, RestoreNot, RestoreFails
    <3>2. file.c \in Map
      BY DEF TypeOK, Files
    <3>3. counters' \in Map
      BY <3>1, <3>2, EmptyMapType, BatchType
    <3>4. Count(counters'[n]) \in Nat
      BY <3>3, CountType
    <3> QED
      BY <2>1, <3>4
  <2>2. CASE owed'.c[n] # 0
    <3>1. Restore /\ owed' = Restorable(file)
      BY <1>1, <2>2, NothingOwed DEF Restore, RestoreNot, RestoreFails
    <3>2. file.c \in Map /\ Zero \in [Names -> Nat] /\ Zero[n] = 0
      BY DEF TypeOK, Files, Zero
    <3>3. CounterToken(file) = "ok" /\ owed'.c = Plus(Zero, file.c)
      BY <2>2, <3>1, NothingOwed, <3>2 DEF Restorable, Nothing
    <3>4. owed'.c[n] = Count(file.c[n])
      BY <3>2, <3>3, PlusType
    <3>5. counters' = ApplyBatch("accum", EmptyMap, file.c)
      BY <1>1, <3>1, <3>3 DEF Restore
    <3>6. ApplyBatch("accum", EmptyMap, file.c) = file.c
      BY <3>2 DEF ApplyBatch, EmptyMap, Merge, Map
    <3>7. Count(file.c[n]) \in Nat
      BY <3>2, CountType
    <3> QED
      BY <3>4, <3>5, <3>6, <3>7
  <2> QED
    BY <2>1, <2>2
<1>5. owed'.c \in [Names -> Nat]
  <2>1. Nothing.c \in [Names -> Nat]
    BY DEF Nothing, Zero
  <2> QED
    BY <2>1 DEF TypeOK, Ledger, Restore, RestoreNot, RestoreFails
<1>6. \A n \in Names : Covered(n)'
  BY <1>1, <1>3, <1>4, <1>5 DEF Covered
<1> QED
  BY <1>1, <1>3, <1>6 DEF Saving

\* Write takes the counters one by one and then the image of them.
LEMMA WriteSaving ==
  ASSUME TypeOK, TypeOK', Owed, Saving,
         MarshalGaugesEnd \/ MarshalCounter \/ WriteFile
  PROVE  Saving'
<1> USE DEF server, memory, backup, requests, ledger
<1>1. UNCHANGED <<phase, counters, applied, owed, flight>> /\ phase = "serve"
  BY DEF MarshalGaugesEnd, MarshalCounter, WriteFile
<1>2. ASSUME NEW n \in Names, Covered(n)
      PROVE  Covered(n)'
  <2>1. /\ Count(counters[n]) >= owed.c[n]
        /\ \A m \in {counters, image.c, file.c, image.c', file.c'} :
             Count(m[n]) \in Nat
        /\ owed.c[n] \in Nat
    <3>1. Due(flight, n) \in Nat /\ owed.c[n] \in Nat
          /\ Count(counters[n]) \in Nat
      BY Numbers DEF Saving
    <3>2. \A m \in {counters, image.c, file.c, image.c', file.c'} : m \in Map
      BY DEF TypeOK, Files
    <3>3. \A m \in {counters, image.c, file.c, image.c', file.c'} :
            Count(m[n]) \in Nat
      BY <3>2, CountType
    <3>4. Count(counters[n]) >= owed.c[n]
      BY <1>1, <1>2, <3>1 DEF Covered
    <3> QED
      BY <3>1, <3>3, <3>4
  <2>2. CASE MarshalGaugesEnd
    <3>1. n \notin Keys(counters) => owed.c[n] = 0
      BY <2>1 DEF Keys, Count
    <3> QED
      BY <1>1, <1>2, <2>1, <2>2, <3>1 DEF MarshalGaugesEnd, Covered
  <2>3. CASE MarshalCounter
    <3>1. PICK k \in todo : /\ image' = [image EXCEPT !.c[k] = counters[k]]
                            /\ todo' = todo \ {k} /\ UNCHANGED writer
      BY <2>3 DEF MarshalCounter
    <3>2. k \in Names /\ writer = "counters"
      BY <2>3, <3>1 DEF MarshalCounter, TypeOK
    <3>3. image'.c[n] = IF n = k THEN counters[n] ELSE image.c[n]
      BY <3>1, <3>2 DEF TypeOK, Files, Map
    <3> QED
      BY <1>1, <1>2, <2>1, <3>1, <3>2, <3>3 DEF Covered
  <2>4. CASE WriteFile
    <3>1. /\ todo = {} /\ writer = "counters"
          /\ writer' # "counters" /\ (writer' = "done" => file'.c = image.c)
      BY <2>4 DEF WriteFile, TypeOK, Files
    <3> QED
      BY <1>1, <1>2, <3>1 DEF Covered
  <2> QED
    BY <2>2, <2>3, <2>4
<1>3. writer' = "done" => owed.g \subseteq Keys(file'.g)
  BY DEF MarshalGaugesEnd, MarshalCounter, WriteFile, TypeOK, Files, Keys, Owed,
         OwesImage
<1>4. \A n \in Names : Countable(flight', n)
  BY <1>1 DEF Saving
<1> QED
  BY <1>1, <1>2, <1>3, <1>4 DEF Saving

\* A request goes from one place to the next.
LEMMA RequestSaving ==
  ASSUME TypeOK, TypeOK', Bounded, Bounded', Owed, Saving,
         NEW c \in Clients,
         SetGauges(c) \/ SetCounters(c) \/ Respond(c)
           \/ \E u \in Updates : Send(c, u)
  PROVE  Saving'
<1> USE DEF server, memory, backup, requests, ledger
<1>1. /\ phase = "serve"
      /\ UNCHANGED <<phase, writer, todo, image, file>>
      /\ flight \in Flights /\ flight' \in Flights
      /\ \A d \in Clients \ {c} : flight'[d] = flight[d]
  <2>1. /\ phase = "serve"
        /\ UNCHANGED <<phase, writer, todo, image, file>>
    BY DEF SetGauges, SetCounters, Respond, Send
  <2>2. flight \in Flights /\ flight' \in Flights
    BY DEF TypeOK, Flights
  <2>3. \A d \in Clients \ {c} : flight'[d] = flight[d]
    BY DEF SetGauges, SetCounters, Respond, Send, TypeOK
  <2> QED
    BY <2>1, <2>2, <2>3
<1>2. ASSUME NEW n \in Names
      PROVE  /\ Countable(flight', n)
             /\ Due(flight, n) \in Nat /\ Due(flight', n) \in Nat
             /\ Due(flight', n) + DueOf(flight, n)[c]
                  = Due(flight, n) + DueOf(flight', n)[c]
             /\ DueOf(flight, n)[c] \in Nat /\ DueOf(flight', n)[c] \in Nat
  <2>1. Countable(flight, n)
    BY DEF Saving
  <2>2. DueOf(flight, n) \in [Clients -> Nat] /\ DueOf(flight', n) \in [Clients -> Nat]
    BY <1>1, DueType
  <2> QED
    BY <1>1, <2>1, <2>2, DueChange
<1>3. writer = "done" => UNCHANGED owed
  BY DEF SetGauges, SetCounters, Respond, Send
<1>4. writer = "counters" => UNCHANGED owed
  BY DEF SetGauges, SetCounters, Respond, Send
<1>5. ASSUME NEW n \in Names
      PROVE  /\ applied[n] \in Nat /\ applied'[n] \in Nat
             /\ applied[n] <= applied'[n]
             /\ applied'[n] < W /\ Covered(n) =>
                  Count(counters'[n]) >= owed'.c[n] + Due(flight', n)
  <2>1. /\ Count(counters[n]) \in Nat /\ owed.c[n] \in Nat /\ applied[n] \in Nat
        /\ owed.c \in [Names -> Nat] /\ applied \in [Names -> Nat]
        /\ applied' \in [Names -> Nat]
    BY Numbers DEF TypeOK, Ledger
  <2>2. flight[c].c \in Map /\ counters \in Map
    BY DEF TypeOK
  <2>3. Count(flight[c].c[n]) \in Nat /\ Count(flight[c].c[n]) \in Val
    BY <2>2, CountType
  <2>4. Covered(n) => Count(counters[n]) >= owed.c[n] + Due(flight, n)
    BY <1>1 DEF Covered
  <2>5. CASE SetGauges(c) \/ \E u \in Updates : Send(c, u)
    <3>1. flight[c].at # "respond" /\ flight'[c].at # "respond"
          /\ UNCHANGED <<counters, applied, owed>>
      BY <2>5 DEF SetGauges, Send, Request, TypeOK
    <3>2. DueOf(flight, n)[c] = 0 /\ DueOf(flight', n)[c] = 0
      BY <3>1 DEF DueOf
    <3> QED
      BY <1>2, <2>1, <2>4, <3>1, <3>2
  <2>6. CASE SetCounters(c)
    <3>1. /\ flight[c].at = "counters" /\ flight'[c].at = "respond"
          /\ flight'[c].c = flight[c].c /\ UNCHANGED owed
          /\ counters' = ApplyBatch("accum", counters, flight[c].c)
          /\ applied' = Plus(applied, flight[c].c)
      BY <2>6 DEF SetCounters, TypeOK
    <3>2. DueOf(flight, n)[c] = 0
          /\ DueOf(flight', n)[c] = Count(flight[c].c[n])
      BY <3>1 DEF DueOf
    <3>3. applied'[n] = applied[n] + Count(flight[c].c[n])
      BY <2>1, <2>2, <3>1, PlusType
    <3>4. Count(counters[n]) <= applied[n]
      BY DEF Bounded, AtMostApplied
    <3>5. Count(counters'[n]) = (Count(counters[n]) + Count(flight[c].c[n])) % W
      BY <2>2, <3>1, BatchSum
    <3>6. applied'[n] < W =>
            Count(counters'[n]) = Count(counters[n]) + Count(flight[c].c[n])
      <4>1. Count(counters[n]) + Count(flight[c].c[n]) \in Nat
        BY <2>1, <2>3
      <4>2. applied'[n] < W => Count(counters[n]) + Count(flight[c].c[n]) < W
        BY <2>1, <2>3, <3>3, <3>4, Residue
      <4> QED
        BY <3>5, <4>1, <4>2, Residue
    <3> HIDE DEF Due, DueOf
    <3> QED
      BY <1>2, <2>1, <2>3, <2>4, <3>1, <3>2, <3>3, <3>6
  <2>7. CASE Respond(c)
    <3>1. /\ flight[c].at = "respond" /\ flight'[c].at # "respond"
          /\ UNCHANGED <<counters, applied>>
          /\ owed'.c = owed.c \/ owed'.c = Plus(owed.c, flight[c].c)
      BY <2>7 DEF Respond, NoRequest, TypeOK
    <3>2. DueOf(flight', n)[c] = 0
          /\ DueOf(flight, n)[c] = Count(flight[c].c[n])
      BY <3>1 DEF DueOf
    <3>3. owed'.c[n] <= owed.c[n] + Count(flight[c].c[n]) /\ owed'.c[n] \in Nat
      BY <2>1, <2>2, <2>3, <3>1, PlusType
    <3> QED
      BY <1>2, <2>1, <2>3, <2>4, <3>1, <3>2, <3>3
  <2> QED
    BY <2>5, <2>6, <2>7
<1>6. ASSUME NEW n \in Names, applied'[n] < W
      PROVE  Covered(n)'
  <2>1. Covered(n)
    BY <1>5, <1>6, Residue DEF Saving
  <2> QED
    BY <1>1, <1>3, <1>4, <1>5, <1>6, <2>1 DEF Covered
<1> QED
  BY <1>1, <1>2, <1>3, <1>6 DEF Saving

LEMMA StepSaving ==
  TypeOK /\ Bounded /\ Owed /\ Saving /\ [Next]_vars => Saving'
<1> SUFFICES ASSUME TypeOK, Bounded, Owed, Saving, [Next]_vars
             PROVE  Saving'
  OBVIOUS
<1> USE DEF server, memory, backup, requests, ledger
<1>1. TypeOK' /\ Bounded' /\ Owed'
  BY StepType, StepBounded, StepOwed
<1>2. ASSUME NEW r \in BOOLEAN, Start(r)
      PROVE  Saving'
  BY <1>2, NothingInFlight DEF Start, NoRequest
<1>3. CASE Crash \/ RestorePanics
  BY <1>3, NothingInFlight DEF Crash, RestorePanics, NoRequest
<1>4. CASE Exit
  BY <1>4, NothingInFlight DEF Exit, NoRequest
<1>5. CASE Restore \/ RestoreNot \/ RestoreFails
  BY <1>5, RestoreSaving
<1>6. CASE \/ Signal \/ Listen \/ ListenFails \/ ListenReturns \/ Shutdown
           \/ Tick \/ TickTaken \/ TruncateFails \/ MarshalBegin \/ MarshalGauge
  <2>1. /\ UNCHANGED <<phase, counters, applied, owed, flight, file>>
        /\ \/ writer' \notin {"counters", "done"}
           \/ UNCHANGED <<writer, todo, image>>
    BY <1>6 DEF Signal, Listen, ListenFails, ListenReturns, Shutdown, Tick,
       TickTaken, TruncateFails, MarshalBegin, MarshalGauge
  <2> QED
    BY <2>1, SameCovered
<1>7. CASE WriteBegin \/ WriteRefused \/ WriteOver \/ WriteFails
  <2>1. /\ UNCHANGED <<phase, counters, applied, owed, flight>>
        /\ writer' \in {"opened", "overlaid", "ioError"}
    BY <1>7 DEF WriteBegin, WriteRefused, WriteOver, WriteFails
  <2>2. \A n \in Names : Covered(n) => Covered(n)'
    BY <2>1 DEF Covered
  <2> QED
    BY <2>1, <2>2 DEF Saving
<1>8. CASE MarshalGaugesEnd \/ MarshalCounter \/ WriteFile
  BY <1>1, <1>8, WriteSaving
<1>9. ASSUME NEW c \in Clients,
             Handle(c) \/ \E u \in Updates : Send(c, u)
      PROVE  Saving'
  BY <1>1, <1>9, RequestSaving DEF Handle
<1>10. CASE UNCHANGED vars
  BY <1>10, SameCovered DEF vars
<1> QED
  BY <1>2, <1>3, <1>4, <1>5, <1>6, <1>7, <1>8, <1>9, <1>10 DEF Next, Run

\* The shutdown backup that reports success holds what the run's users were told
\* before Write asked for the data, after the signal too, and what it had
\* restored: each gauge has an entry, and each counter is as high, whatever other
\* handlers did while Write read the maps, and unless its deltas are more than an
\* int64 holds.
THEOREM Saved == Spec => []AcknowledgedSaved
<1>1. Init => Bounded /\ Owed
  BY InitType, NoneApplied DEF Init, Empty, Bounded, AtMostApplied, Owed,
     OwesFile, OwesMaps, OwesImage, AppliedIsThere, NoRequest
<1>2. Saving => AcknowledgedSaved
  BY DEF Saving, Covered, AcknowledgedSaved, Holds
<1> QED
  BY <1>1, <1>2, InitType, InitSaving, StepType, StepBounded, StepOwed, StepSaving,
     PTL DEF Spec

-----------------------------------------------------------------------------
(* A run keeps the backup it has found, or has taken it over and owes it.    *)

Kept ==
  /\ writer \in {"idle", "schedule"} => Restorable(file) = found
  /\ resumed => /\ found.g \subseteq owed.g
                /\ \A n \in Names : found.c[n] <= owed.c[n]

LEMMA InitKept == Init => Kept
BY DEF Init, Kept, Restorable, GaugeToken, CounterToken, Empty, Nothing

LEMMA StepKept == TypeOK /\ Owed /\ Kept /\ [Next]_vars => Kept'
<1> SUFFICES ASSUME TypeOK, Owed, Kept, [Next]_vars
             PROVE  Kept'
  OBVIOUS
<1> USE DEF server, memory, backup, requests, ledger
<1>1. CASE \E r \in BOOLEAN : Start(r)
  BY <1>1 DEF Start, Kept
<1>2. CASE \/ Crash \/ RestorePanics \/ Exit \/ Signal \/ RestoreNot
           \/ Listen \/ ListenFails \/ ListenReturns \/ Shutdown \/ Tick
           \/ TickTaken \/ TruncateFails \/ WriteBegin \/ WriteRefused
           \/ MarshalBegin \/ MarshalGauge \/ MarshalGaugesEnd
           \/ MarshalCounter \/ WriteFile \/ WriteOver \/ WriteFails
  <2>1. UNCHANGED ledger
    BY <1>2 DEF Crash, RestorePanics, Exit, Signal, RestoreNot, Listen,
       ListenFails, ListenReturns, Shutdown, Tick, TickTaken, TruncateFails,
       WriteBegin, WriteRefused, MarshalBegin, MarshalGauge, MarshalGaugesEnd,
       MarshalCounter, WriteFile, WriteOver, WriteFails
  <2>2. UNCHANGED <<writer, file>> \/ writer' \notin {"idle", "schedule"}
    BY <1>2 DEF Crash, RestorePanics, Exit, Signal, RestoreNot, Listen,
       ListenFails, ListenReturns, Shutdown, Tick, TickTaken, TruncateFails,
       WriteBegin, WriteRefused, MarshalBegin, MarshalGauge, MarshalGaugesEnd,
       MarshalCounter, WriteFile, WriteOver, WriteFails
  <2> QED
    BY <2>1, <2>2 DEF Kept
<1>3. CASE RestoreFails
  BY <1>3 DEF RestoreFails, Owed, OwesFile, Kept
<1>4. CASE Restore
  <2>1. found' = found /\ owed' = found /\ UNCHANGED <<writer, file>>
    BY <1>4 DEF Restore, Owed, OwesFile, Kept
  <2>2. \A n \in Names : found.c[n] <= found.c[n]
    BY DEF TypeOK, Ledger
  <2> QED
    BY <2>1, <2>2 DEF Kept
<1>5. ASSUME NEW c \in Clients, NEW u \in Updates, Send(c, u)
      PROVE  Kept'
  BY <1>5 DEF Send, Kept
<1>6. ASSUME NEW c \in Clients, SetGauges(c) \/ SetCounters(c)
      PROVE  Kept'
  BY <1>6 DEF SetGauges, SetCounters, Kept
<1>7. ASSUME NEW c \in Clients, Respond(c)
      PROVE  Kept'
  <2>1. UNCHANGED <<writer, file, found, resumed>>
    BY <1>7 DEF Respond
  <2>2. CASE UNCHANGED owed
    BY <2>1, <2>2 DEF Kept
  <2>3. CASE /\ owed'.g = owed.g \cup Keys(flight[c].g)
             /\ owed'.c = Plus(owed.c, flight[c].c)
    <3>1. ASSUME NEW n \in Names
          PROVE  found.c[n] <= owed.c[n] => found.c[n] <= owed'.c[n]
      <4>1. /\ owed'.c[n] = owed.c[n] + Count(flight[c].c[n])
            /\ Count(flight[c].c[n]) \in Nat
        BY <2>3, FlightType, PlusType DEF TypeOK, Ledger
      <4>2. found.c[n] \in Nat /\ owed.c[n] \in Nat
        BY DEF TypeOK, Ledger
      <4> QED
        BY <4>1, <4>2
    <3> QED
      BY <2>1, <2>3, <3>1 DEF Kept
  <2> QED
    BY <1>7, <2>2, <2>3 DEF Respond
<1>8. CASE UNCHANGED vars
  BY <1>8 DEF vars, Kept
<1> QED
  BY <1>1, <1>2, <1>3, <1>4, <1>5, <1>6, <1>7, <1>8 DEF Next, Run, Handle

\* What the run has taken over is in the file when Write is done.
LEMMA KeptOrSaved ==
  ASSUME TypeOK, Ending, Saving, Kept
  PROVE  BackupKept
<1>1. ASSUME writer \in {"done", "nothing"}, resumed
      PROVE  Holds(file, found)
  <2>1. ASSUME NEW n \in Names, applied[n] < W
        PROVE  Count(file.c[n]) >= found.c[n]
    <3>1. found.c[n] <= owed.c[n] /\ found.c[n] \in Nat /\ owed.c[n] \in Nat
      BY <1>1 DEF Kept, TypeOK, Ledger
    <3>2. Count(file.c[n]) \in Nat
      BY Numbers
    <3>3. Count(file.c[n]) >= owed.c[n]
      <4>1. CASE writer = "done"
        BY <2>1, <4>1 DEF Saving, Covered
      <4>2. CASE writer = "nothing"
        BY <3>2, <4>2, NothingOwed DEF Ending
      <4> QED
        BY <1>1, <4>1, <4>2
    <3> QED
      BY <3>1, <3>2, <3>3
  <2>2. found.g \subseteq Keys(file.g)
    BY <1>1, NothingOwed DEF Kept, Ending, Saving
  <2> QED
    BY <2>1, <2>2 DEF Holds
<1> QED
  BY <1>1 DEF Kept, BackupKept

\* A backup outlives the runs that find it: until Write begins the file offers
\* what it offered at the start, and when Write reports success, or has nothing to
\* write, what the run had taken over from it is there again.
THEOREM Keeps == Spec => []BackupKept
<1>1. Init => Bounded /\ Owed /\ Ending
  BY InitType, NoneApplied DEF Init, Empty, Bounded, AtMostApplied, Owed,
     OwesFile, OwesMaps, OwesImage, AppliedIsThere, NoRequest, Ending
<1>2. Init => TypeOK /\ Saving /\ Kept
  BY InitType, InitSaving, InitKept
<1>3. TypeOK /\ Ending /\ Saving /\ Kept => BackupKept
  BY KeptOrSaved
<1> QED
  BY <1>1, <1>2, <1>3, StepType, StepBounded, StepOwed, StepEnding, StepSaving,
     StepKept, PTL DEF Spec
=============================================================================
