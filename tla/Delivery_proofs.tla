--------------------------- MODULE Delivery_proofs ---------------------------
(***************************************************************************)
(* Proofs about AgentReports and about Delivery, which extends it, for any *)
(* pool, channel, number of retries and bounds.                            *)
(*                                                                         *)
(* Of the agent: the types, that no report is dropped, and that a worker   *)
(* on its own signs each request for its own body.  Of the agent, the      *)
(* network and the server: the agent in it is that of AgentReports, posts, *)
(* connections and handlers have their types, no report is counted twice,  *)
(* and one that is seen off was counted or is lost for a reason; none is   *)
(* overtaken by an earlier one of its worker but for a broken connection.  *)
(***************************************************************************)
EXTENDS Delivery, FiniteSetTheorems, TLAPS

-----------------------------------------------------------------------------
(* The agent, whatever the network and the server do. *)

\* Where every report is.
Accounted == made = reading + queue + Cardinality(Busy) + handled

\* The shutdown in its order: no readStats is left once the channel is closed,
\* a worker of the pool ends only on a closed channel that is empty, and
\* PollStatsBatch only when all workers have ended.
InOrder ==
  /\ reporter \in {"closed", "end"} => reading = 0
  /\ \A w \in pool :
       pc[w] = "end" => queue = 0 /\ reporter \in {"closed", "end"}
  /\ reporter = "end" => \A w \in Workers : pc[w] = "end"
  /\ exited = "clean" => reporter = "end"

\* What is signed, and what the hash has been fed when one worker is all that
\* feeds it.
HashSound ==
  /\ \A w \in Workers \ pool : pc[w] = "end"
  /\ \A w \in Workers : pc[w] = "write" => body[w] # 0
  /\ Cardinality(pool) = 1 =>
       \A w \in pool :
         /\ pc[w] \in {"idle", "build", "write", "send"} => hash = << >>
         /\ pc[w] = "sum" => hash = <<body[w]>>
         /\ pc[w] \in {"reset", "send"} => signed[w]

IInv == TypeOK /\ Accounted /\ InOrder /\ HashSound

-----------------------------------------------------------------------------
(* The workers that are busy, counted. *)

\* There are finitely many of them.
LEMMA BusyFinite ==
  IsFiniteSet(Busy) /\ Cardinality(Busy) \in Nat
<1>1. Busy \in SUBSET Workers /\ IsFiniteSet(Workers)
  BY AgentReportsAssumption DEF Busy
<1>2. IsFiniteSet(Busy)
  BY <1>1, FS_Subset
<1> QED
  BY <1>2, FS_CardinalityType

\* A step of one worker that changes neither its being busy nor another's place.
LEMMA BusySame ==
  ASSUME TypeOK, NEW w \in Workers, NEW l, pc' = [pc EXCEPT ![w] = l],
         pc[w] \in {"idle", "end"} <=> l \in {"idle", "end"}
  PROVE  Cardinality(Busy') = Cardinality(Busy)
<1>1. Busy' = Busy
  BY DEF TypeOK, Busy
<1> QED
  BY <1>1

\* Taking a report makes a worker busy.
LEMMA BusyMore ==
  ASSUME TypeOK, NEW w \in Workers, pc' = [pc EXCEPT ![w] = "build"],
         pc[w] = "idle"
  PROVE  Cardinality(Busy') = Cardinality(Busy) + 1
<1>1. Busy' = Busy \cup {w} /\ w \notin Busy
  BY DEF TypeOK, Busy
<1> QED
  BY <1>1, BusyFinite, FS_AddElement

\* Being done with one makes it idle.
LEMMA BusyLess ==
  ASSUME TypeOK, NEW w \in Workers, pc' = [pc EXCEPT ![w] = "idle"],
         pc[w] \notin {"idle", "end"}
  PROVE  Cardinality(Busy') = Cardinality(Busy) - 1
<1>1. Busy' = Busy \ {w} /\ w \in Busy
  BY DEF TypeOK, Busy
<1> QED
  BY <1>1, BusyFinite, FS_RemoveElement

-----------------------------------------------------------------------------
(* The inductive invariant. *)

\* A report that a worker is done with has been handled.
LEMMA HandledOneMore ==
  ASSUME IInv, Cardinality(Busy') = Cardinality(Busy) - 1,
         handled' = handled + 1, UNCHANGED reporting
  PROVE  Accounted'
<1>1. /\ made = reading + queue + Cardinality(Busy) + handled
      /\ reading \in Int /\ queue \in Int /\ handled \in Int
  BY DEF IInv, TypeOK, Accounted
<1>2. Cardinality(Busy) \in Int
  BY BusyFinite DEF IInv
<1>3. made' = made /\ reading' = reading /\ queue' = queue
  BY DEF reporting
<1>4. made' = reading' + queue' + Cardinality(Busy') + handled'
  BY <1>1, <1>2, <1>3
<1> QED
  BY <1>4 DEF Accounted

\* A sequence of old samples is one of samples.
LEMMA MoreSamples ==
  ASSUME NEW s \in Seq(1 .. taken), taken \in Nat, taken' = taken + 1
  PROVE  s \in Seq(1 .. taken')
<1>1. 1 .. taken \subseteq 1 .. taken'
  OBVIOUS
<1> QED
  BY <1>1

\* A pool of one has one worker.
LEMMA OneInPool ==
  ASSUME TypeOK, Cardinality(pool) = 1
  PROVE  \E w \in Workers : pool = {w}
<1>1. pool \in SUBSET Workers /\ IsFiniteSet(Workers)
  BY AgentReportsAssumption DEF TypeOK
<1>2. IsFiniteSet(pool)
  BY <1>1, FS_Subset
<1> QED
  BY <1>1, <1>2, FS_Singleton

\* The agent starts in the invariant and no step leaves it.
LEMMA InitIInv == Init => IInv
<1> SUFFICES ASSUME Init
             PROVE  IInv
  OBVIOUS
<1>1. TypeOK
  <2>1. /\ pc \in [Workers ->
                    {"idle", "build", "write", "sum", "reset", "send", "end"}]
        /\ body \in [Workers -> 0 .. taken]
        /\ signed \in [Workers -> BOOLEAN]
        /\ attempt \in [Workers -> 0 .. Retries]
    BY AgentReportsAssumption DEF Init
  <2>2. /\ queue \in 0 .. ChCap /\ made \in 0 .. MaxReports
        /\ taken \in 0 .. MaxSamples /\ hash \in Seq(1 .. taken)
    BY AgentReportsAssumption DEF Init
  <2>3. /\ samples \subseteq 1 .. taken /\ current \in 0 .. taken
        /\ reading \in Nat /\ handled \in Nat
    BY DEF Init
  <2>4. /\ stopped \in BOOLEAN /\ monitor = "run" /\ reporter = "run"
        /\ exited = "no" /\ pool \in Pools
    BY DEF Init
  <2> QED
    BY <2>1, <2>2, <2>3, <2>4 DEF TypeOK
<1>2. Busy = {}
  BY DEF Init, Busy
<1>3. Accounted
  BY <1>2, FS_EmptySet DEF Init, Accounted
<1>4. InOrder /\ HashSound
  BY AgentReportsAssumption DEF Init, InOrder, HashSound
<1> QED
  BY <1>1, <1>3, <1>4 DEF IInv

\* One step per action: where each report is, the order of the shutdown, the hash.
LEMMA StepIInv == IInv /\ [Next]_vars => IInv'
<1> SUFFICES ASSUME IInv, [Next]_vars
             PROVE  IInv'
  OBVIOUS
<1> USE DEF IInv, Goto, collecting, reporting, working
<1>0. CASE UNCHANGED vars
  BY <1>0 DEF vars, TypeOK, Accounted, InOrder,
              HashSound, Busy
<1>1. CASE Signal
  <2>1. TypeOK'
    BY <1>1 DEF Signal, TypeOK
  <2>2. Accounted'
    BY <1>1, BusyFinite DEF Signal, TypeOK, Accounted, Busy
  <2>3. InOrder'
    BY <1>1 DEF Signal, TypeOK, InOrder
  <2>4. HashSound'
    BY <1>1 DEF Signal, TypeOK, HashSound
  <2> QED
    BY <2>1, <2>2, <2>3, <2>4
<1>2. CASE Sample
  <2>1. TypeOK'
    BY <1>2, AgentReportsAssumption, MoreSamples DEF Sample, TypeOK
  <2>2. Accounted'
    BY <1>2, BusyFinite DEF Sample, TypeOK, Accounted, Busy
  <2>3. InOrder'
    BY <1>2 DEF Sample, TypeOK, InOrder
  <2>4. HashSound'
    BY <1>2 DEF Sample, TypeOK, HashSound
  <2> QED
    BY <2>1, <2>2, <2>3, <2>4
<1>3. CASE Store
  <2>1. TypeOK'
    BY <1>3 DEF Store, TypeOK
  <2>2. Accounted'
    BY <1>3, BusyFinite DEF Store, TypeOK, Accounted, Busy
  <2>3. InOrder'
    BY <1>3 DEF Store, TypeOK, InOrder
  <2>4. HashSound'
    BY <1>3 DEF Store, TypeOK, HashSound
  <2> QED
    BY <2>1, <2>2, <2>3, <2>4
<1>4. CASE MonitorStop
  <2>1. TypeOK'
    BY <1>4 DEF MonitorStop, TypeOK
  <2>2. Accounted'
    BY <1>4, BusyFinite DEF MonitorStop, TypeOK, Accounted, Busy
  <2>3. InOrder'
    BY <1>4 DEF MonitorStop, TypeOK, InOrder
  <2>4. HashSound'
    BY <1>4 DEF MonitorStop, TypeOK, HashSound
  <2> QED
    BY <2>1, <2>2, <2>3, <2>4
<1>5. CASE MonitorEnd
  <2>1. TypeOK'
    BY <1>5 DEF MonitorEnd, TypeOK
  <2>2. Accounted'
    BY <1>5, BusyFinite DEF MonitorEnd, TypeOK, Accounted, Busy
  <2>3. InOrder'
    BY <1>5 DEF MonitorEnd, TypeOK, InOrder
  <2>4. HashSound'
    BY <1>5 DEF MonitorEnd, TypeOK, HashSound
  <2> QED
    BY <2>1, <2>2, <2>3, <2>4
<1>6. CASE Tick
  <2>1. TypeOK'
    BY <1>6, AgentReportsAssumption DEF Tick, TypeOK
  <2>2. Accounted'
    BY <1>6, BusyFinite DEF Tick, TypeOK, Accounted, Busy
  <2>3. InOrder'
    BY <1>6 DEF Tick, TypeOK, InOrder
  <2>4. HashSound'
    BY <1>6 DEF Tick, TypeOK, HashSound
  <2> QED
    BY <2>1, <2>2, <2>3, <2>4
<1>7. CASE Enqueue
  <2>1. TypeOK'
    BY <1>7, AgentReportsAssumption DEF Enqueue, TypeOK
  <2>2. Accounted'
    BY <1>7, BusyFinite DEF Enqueue, TypeOK, Accounted, Busy
  <2>3. InOrder'
    BY <1>7 DEF Enqueue, TypeOK, InOrder
  <2>4. HashSound'
    BY <1>7 DEF Enqueue, TypeOK, HashSound
  <2> QED
    BY <2>1, <2>2, <2>3, <2>4
<1>8. CASE ReporterStop
  <2>1. TypeOK'
    BY <1>8 DEF ReporterStop, TypeOK
  <2>2. Accounted'
    BY <1>8, BusyFinite DEF ReporterStop, TypeOK, Accounted, Busy
  <2>3. InOrder'
    BY <1>8 DEF ReporterStop, TypeOK, InOrder
  <2>4. HashSound'
    BY <1>8 DEF ReporterStop, TypeOK, HashSound
  <2> QED
    BY <2>1, <2>2, <2>3, <2>4
<1>9. CASE CloseQueue
  <2>1. TypeOK'
    BY <1>9 DEF CloseQueue, TypeOK
  <2>2. Accounted'
    BY <1>9, BusyFinite DEF CloseQueue, TypeOK, Accounted, Busy
  <2>3. InOrder'
    BY <1>9 DEF CloseQueue, TypeOK, InOrder
  <2>4. HashSound'
    BY <1>9 DEF CloseQueue, TypeOK, HashSound
  <2> QED
    BY <2>1, <2>2, <2>3, <2>4
<1>10. CASE ReporterEnd
  <2>1. TypeOK'
    BY <1>10 DEF ReporterEnd, TypeOK
  <2>2. Accounted'
    BY <1>10, BusyFinite DEF ReporterEnd, TypeOK, Accounted, Busy
  <2>3. InOrder'
    BY <1>10 DEF ReporterEnd, TypeOK, InOrder
  <2>4. HashSound'
    BY <1>10 DEF ReporterEnd, TypeOK, HashSound
  <2> QED
    BY <2>1, <2>2, <2>3, <2>4
<1>11. CASE Exit
  <2>1. TypeOK'
    BY <1>11 DEF Exit, TypeOK
  <2>2. Accounted'
    BY <1>11, BusyFinite DEF Exit, TypeOK, Accounted, Busy
  <2>3. InOrder'
    BY <1>11 DEF Exit, TypeOK, InOrder
  <2>4. HashSound'
    BY <1>11 DEF Exit, TypeOK, HashSound
  <2> QED
    BY <2>1, <2>2, <2>3, <2>4
<1>12. ASSUME NEW w \in Workers, Take(w)
      PROVE  IInv'
  <2>1. TypeOK'
    BY <1>12, AgentReportsAssumption DEF Take, TypeOK, HashSound
  <2>2. Accounted'
    <3>1. Cardinality(Busy') = Cardinality(Busy) + 1
      <4>1. pc' = [pc EXCEPT ![w] = "build"] /\ pc[w] = "idle"
        BY <1>12 DEF Take
      <4> QED
        BY <4>1, BusyMore
    <3> QED
      BY <1>12, <3>1, BusyFinite DEF Take, TypeOK, Accounted
  <2>3. InOrder'
    BY <1>12 DEF Take, TypeOK, InOrder
  <2>4. HashSound'
    BY <1>12, OneInPool DEF Take, TypeOK, HashSound
  <2> QED
    BY <2>1, <2>2, <2>3, <2>4
<1>13. ASSUME NEW w \in Workers, WorkerEnd(w)
      PROVE  IInv'
  <2>1. TypeOK'
    BY <1>13 DEF WorkerEnd, TypeOK, HashSound
  <2>2. Accounted'
    BY <1>13, BusyFinite, BusySame DEF WorkerEnd, TypeOK, Accounted
  <2>3. InOrder'
    BY <1>13 DEF WorkerEnd, TypeOK, InOrder
  <2>4. HashSound'
    BY <1>13, OneInPool DEF WorkerEnd, TypeOK, HashSound
  <2> QED
    BY <2>1, <2>2, <2>3, <2>4
<1>14. ASSUME NEW w \in Workers, HashWrite(w)
      PROVE  IInv'
  <2>1. TypeOK'
    BY <1>14 DEF HashWrite, TypeOK, HashSound
  <2>2. Accounted'
    BY <1>14, BusyFinite, BusySame DEF HashWrite, TypeOK, Accounted
  <2>3. InOrder'
    BY <1>14 DEF HashWrite, TypeOK, InOrder
  <2>4. HashSound'
    <3>1. \A v \in Workers \ pool' : pc'[v] = "end"
      BY <1>14 DEF HashWrite, TypeOK, HashSound
    <3>2. \A v \in Workers : pc'[v] = "write" => body'[v] # 0
      BY <1>14 DEF HashWrite, TypeOK, HashSound
    <3>3. ASSUME Cardinality(pool') = 1, NEW v \in pool'
          PROVE  /\ pc'[v] \in {"idle", "build", "write", "send"} => hash' = << >>
                 /\ pc'[v] = "sum" => hash' = <<body'[v]>>
                 /\ pc'[v] \in {"reset", "send"} => signed'[v]
      <4>1. pool' = pool /\ pool = {w} /\ v = w
        BY <1>14, <3>3, OneInPool DEF HashWrite, HashSound
      <4> QED
        BY <1>14, <3>3, <4>1 DEF HashWrite, TypeOK, HashSound
    <3> QED
      BY <3>1, <3>2, <3>3 DEF HashSound
  <2> QED
    BY <2>1, <2>2, <2>3, <2>4
<1>15. ASSUME NEW w \in Workers, HashSum(w)
      PROVE  IInv'
  <2>1. TypeOK'
    BY <1>15 DEF HashSum, TypeOK, HashSound
  <2>2. Accounted'
    BY <1>15, BusyFinite, BusySame DEF HashSum, TypeOK, Accounted
  <2>3. InOrder'
    BY <1>15 DEF HashSum, TypeOK, InOrder
  <2>4. HashSound'
    BY <1>15, OneInPool DEF HashSum, TypeOK, HashSound
  <2> QED
    BY <2>1, <2>2, <2>3, <2>4
<1>16. ASSUME NEW w \in Workers, HashReset(w)
      PROVE  IInv'
  <2>1. TypeOK'
    BY <1>16 DEF HashReset, TypeOK, HashSound
  <2>2. Accounted'
    BY <1>16, BusyFinite, BusySame DEF HashReset, TypeOK, Accounted
  <2>3. InOrder'
    BY <1>16 DEF HashReset, TypeOK, InOrder
  <2>4. HashSound'
    BY <1>16, OneInPool DEF HashReset, TypeOK, HashSound
  <2> QED
    BY <2>1, <2>2, <2>3, <2>4
<1>17. ASSUME NEW w \in Workers, Answered(w)
      PROVE  IInv'
  <2>1. TypeOK'
    BY <1>17 DEF Answered, TypeOK, HashSound
  <2>2. Accounted'
    <3>1. Cardinality(Busy') = Cardinality(Busy) - 1
      BY <1>17, BusyLess DEF Answered
    <3> QED
      <4>1. handled' = handled + 1 /\ UNCHANGED reporting
        BY <1>17 DEF Answered
      <4> QED
        BY <3>1, <4>1, HandledOneMore
  <2>3. InOrder'
    BY <1>17 DEF Answered, TypeOK, InOrder
  <2>4. HashSound'
    BY <1>17, OneInPool DEF Answered, TypeOK, HashSound
  <2> QED
    BY <2>1, <2>2, <2>3, <2>4
<1>18. ASSUME NEW w \in Workers, Retry(w)
      PROVE  IInv'
  <2>1. TypeOK'
    BY <1>18, AgentReportsAssumption DEF Retry, TypeOK, HashSound
  <2>2. Accounted'
    BY <1>18, BusyFinite DEF Retry, TypeOK, Accounted, Busy
  <2>3. InOrder'
    BY <1>18 DEF Retry, TypeOK, InOrder
  <2>4. HashSound'
    BY <1>18, OneInPool DEF Retry, TypeOK, HashSound
  <2> QED
    BY <2>1, <2>2, <2>3, <2>4
<1>19. ASSUME NEW w \in Workers, Fatal(w)
      PROVE  IInv'
  <2>1. TypeOK'
    BY <1>19 DEF Fatal, TypeOK, HashSound
  <2>2. Accounted'
    BY <1>19, BusyFinite DEF Fatal, TypeOK, Accounted, Busy
  <2>3. InOrder'
    BY <1>19 DEF Fatal, TypeOK, InOrder
  <2>4. HashSound'
    BY <1>19, OneInPool DEF Fatal, TypeOK, HashSound
  <2> QED
    BY <2>1, <2>2, <2>3, <2>4
<1>20. ASSUME NEW w \in Workers, BuildFails(w)
      PROVE  IInv'
  <2>1. TypeOK'
    BY <1>20 DEF BuildFails, TypeOK, HashSound
  <2>2. Accounted'
    BY <1>20, BusyFinite DEF BuildFails, TypeOK, Accounted, Busy
  <2>3. InOrder'
    BY <1>20 DEF BuildFails, TypeOK, InOrder
  <2>4. HashSound'
    BY <1>20, OneInPool DEF BuildFails, TypeOK, HashSound
  <2> QED
    BY <2>1, <2>2, <2>3, <2>4
<1>21. ASSUME NEW w \in Workers, Build(w)
      PROVE  IInv'
  <2>1. TypeOK'
    <3>1. attempt' \in [Workers -> 0 .. Retries]
      BY <1>21, AgentReportsAssumption DEF Build, TypeOK
    <3>2. CASE current = 0
      <4>1. pc' \in [Workers ->
                      {"idle", "build", "write", "sum", "reset", "send", "end"}]
        BY <1>21, <3>2 DEF Build, TypeOK
      <4>2. handled' \in Nat /\ UNCHANGED <<body, signed>>
        BY <1>21, <3>2 DEF Build, TypeOK
      <4> QED
        BY <1>21, <3>1, <4>1, <4>2 DEF Build, TypeOK
    <3>3. CASE current # 0
      <4>1. /\ body' = [body EXCEPT ![w] = current]
            /\ signed' = [signed EXCEPT ![w] = ~Key]
        BY <1>21, <3>3 DEF Build
      <4>3. body' \in [Workers -> 0 .. taken]
        BY <4>1 DEF TypeOK
      <4>4. signed' \in [Workers -> BOOLEAN]
        BY <4>1, AgentReportsAssumption DEF TypeOK
      <4>2. pc' \in [Workers ->
                      {"idle", "build", "write", "sum", "reset", "send", "end"}]
        BY <1>21, <3>3 DEF Build, TypeOK
      <4> QED
        BY <1>21, <3>1, <3>3, <4>2, <4>3, <4>4 DEF Build, TypeOK
    <3> QED
      BY <3>2, <3>3
  <2>2. Accounted'
    <3>1. CASE current = 0
      <4>1. Cardinality(Busy') = Cardinality(Busy) - 1
        BY <1>21, <3>1, BusyLess DEF Build
      <4>2. handled' = handled + 1 /\ UNCHANGED reporting
        BY <1>21, <3>1 DEF Build
      <4> QED
        BY <4>1, <4>2, HandledOneMore
    <3>2. CASE current # 0
      <4>1. Cardinality(Busy') = Cardinality(Busy)
        BY <1>21, <3>2, BusySame DEF Build
      <4> QED
        BY <1>21, <3>2, <4>1, BusyFinite DEF Build, TypeOK, Accounted
    <3> QED
      BY <3>1, <3>2
  <2>3. InOrder'
    <3>1. pc' = [pc EXCEPT ![w] = pc'[w]] /\ pc[w] # "end" /\ pc'[w] # "end"
      BY <1>21 DEF Build, TypeOK
    <3>2. UNCHANGED <<pool, queue, reading, reporter, exited>>
      BY <1>21 DEF Build
    <3> QED
      BY <3>1, <3>2, AgentReportsAssumption DEF TypeOK, InOrder
  <2>4. HashSound'
    <3>1. \A v \in Workers \ pool' : pc'[v] = "end"
      BY <1>21 DEF Build, TypeOK, HashSound
    <3>2. \A v \in Workers : pc'[v] = "write" => body'[v] # 0
      BY <1>21 DEF Build, TypeOK, HashSound
    <3>3. ASSUME Cardinality(pool') = 1, NEW v \in pool'
          PROVE  /\ pc'[v] \in {"idle", "build", "write", "send"} => hash' = << >>
                 /\ pc'[v] = "sum" => hash' = <<body'[v]>>
                 /\ pc'[v] \in {"reset", "send"} => signed'[v]
      <4>1. pool' = pool /\ pool = {w} /\ v = w
        BY <1>21, <3>3, OneInPool DEF Build, HashSound
      <4> QED
        BY <1>21, <3>3, <4>1, AgentReportsAssumption
           DEF Build, TypeOK, HashSound
    <3> QED
      BY <3>1, <3>2, <3>3 DEF HashSound
  <2> QED
    BY <2>1, <2>2, <2>3, <2>4
<1>22. CASE SamplePanics
  <2>1. TypeOK'
    BY <1>22 DEF SamplePanics, TypeOK
  <2>2. Accounted'
    BY <1>22, BusyFinite DEF SamplePanics, TypeOK, Accounted, Busy
  <2>3. InOrder'
    BY <1>22 DEF SamplePanics, TypeOK, InOrder
  <2>4. HashSound'
    BY <1>22 DEF SamplePanics, TypeOK, HashSound
  <2> QED
    BY <2>1, <2>2, <2>3, <2>4
<1> QED
  BY <1>0, <1>1, <1>2, <1>3, <1>4, <1>5, <1>6, <1>7, <1>8, <1>9, <1>10,
     <1>11, <1>12, <1>13, <1>14, <1>15, <1>16, <1>17, <1>18, <1>19, <1>20,
     <1>21, <1>22 DEF Next, Worker

-----------------------------------------------------------------------------
(* The theorems. *)

\* The invariant holds always.
LEMMA Invariant == Spec => []IInv
BY InitIInv, StepIInv, PTL DEF Spec

\* Every variable keeps its type; the channel never holds more than it can.
THEOREM TypeCorrect == Spec => []TypeOK
<1>1. IInv => TypeOK
  BY DEF IInv
<1> QED
  BY <1>1, Invariant, PTL

\* No report is dropped between its tick and its last attempt, and a clean exit
\* leaves none behind, if there is a worker at all: PollStatsBatch closes the
\* channel once no readStats is left, and waits for those who empty it.
THEOREM ReportsKept ==
  ASSUME {} \notin Pools
  PROVE  Spec => []NothingDropped
<1>1. IInv => NothingDropped
  <2> SUFFICES ASSUME IInv
               PROVE  NothingDropped
    OBVIOUS
  <2>1. ASSUME exited = "clean"
        PROVE  handled = made
    <3>1. reporter = "end" /\ Busy = {}
      BY <2>1 DEF IInv, InOrder, Busy
    <3>2. PICK w \in pool : w \in Workers
      <4>1. pool \in Pools /\ pool # {}
        BY {} \notin Pools DEF IInv, TypeOK
      <4> QED
        BY <4>1, AgentReportsAssumption
    <3>3. queue = 0 /\ reading = 0
      BY <3>1, <3>2 DEF IInv, InOrder
    <3> QED
      BY <3>1, <3>3, FS_EmptySet DEF IInv, Accounted, TypeOK
  <2> QED
    BY <2>1 DEF IInv, Accounted, InOrder, NothingDropped
<1> QED
  BY <1>1, Invariant, PTL

\* With one worker each request carries the signature of its own body: Post
\* resets the hash it shares with no one before it sends.
THEOREM SignedForItself == Spec => []OneSignerSigns
<1>1. IInv => OneSignerSigns
  BY DEF IInv, HashSound, OneSignerSigns
<1> QED
  BY <1>1, Invariant, PTL

-----------------------------------------------------------------------------
(* The agent in Delivery. *)

\* Every step is one of the agent, or leaves it alone.
LEMMA AgentSteps == [DeliveryNext]_deliveryVars => [Next]_vars
<1> SUFFICES ASSUME [DeliveryNext]_deliveryVars
             PROVE  [Next]_vars
  OBVIOUS
<1>1. CASE exited = "no" /\ Local
  BY <1>1 DEF Local, Next, Worker
<1>2. ASSUME exited = "no", NEW w \in Workers,
             BuildPost(w) \/ Arrive(w) \/ Break(w) \/ Receive(w)
      PROVE  [Next]_vars
  BY <1>2 DEF BuildPost, Arrive, Break, Receive, Next, Worker, agent
<1>3. CASE Serve
  BY <1>3 DEF Serve, SetGauges, SetCounters, agent
<1>4. CASE UNCHANGED deliveryVars
  BY <1>4 DEF deliveryVars, agent
<1> QED
  BY <1>1, <1>2, <1>3, <1>4 DEF DeliveryNext

\* What the network and the server do to it, the agent may have done anyway: it
\* keeps what is said of it above.
THEOREM AgentKept == DeliverySpec => Spec
<1>1. DeliveryInit => Init
  BY DEF DeliveryInit
<1> QED
  BY <1>1, AgentSteps, PTL DEF DeliverySpec, Spec

-----------------------------------------------------------------------------
(* What is known of posts, buffers and handlers. *)

\* The types of it, without the bound of the number of posts.
NetType ==
  /\ posts \in Nat
  /\ post \in [Workers -> Nat]
  /\ whole \in [Workers -> BOOLEAN]
  /\ handler \in [Posts -> {"none", "gauges", "counters", "respond"}]
  /\ counted \in [Posts -> Nat]

\* A post is one worker's, and what has not been built has no handler.
Numbered ==
  /\ \A w \in Workers : post[w] <= posts
  /\ \A w, v \in Workers : post[w] = post[v] /\ post[w] # 0 => w = v
  /\ \A r \in Posts : handler[r] # "none" => r <= posts

\* While a buffer is whole, its post has had no handler.
Unread ==
  \A w \in Workers : whole[w] =>
    post[w] # 0 /\ (post[w] \in Posts => handler[post[w]] = "none")

\* What has been counted is what a handler has come to the end of.
CountedByHandler ==
  \A r \in Posts : counted[r] = IF handler[r] = "respond" THEN 1 ELSE 0

NetInv == NetType /\ Numbered /\ Unread /\ CountedByHandler

\* It holds at first ...
LEMMA InitNetInv == DeliveryInit => NetInv
BY DEF DeliveryInit, NetInv, NetType, Numbered, Unread, CountedByHandler

\* ... and a step that leaves posts, buffers and handlers alone keeps it.
LEMMA NetUnchanged ==
  ASSUME NetInv, UNCHANGED <<posts, post, whole, handler, counted>>
  PROVE  NetInv'
BY DEF NetInv, NetType, Numbered, Unread, CountedByHandler

\* A new post has a new number and no handler yet.
LEMMA BuildPostKeeps ==
  ASSUME NetInv, NEW w \in Workers, BuildPost(w)
  PROVE  NetInv'
<1> USE DEF NetInv
<1>1. CASE current = 0
  BY <1>1, NetUnchanged DEF BuildPost, client, service
<1>2. CASE current # 0
  <2>1. /\ posts' = posts + 1
        /\ post' = [post EXCEPT ![w] = posts + 1]
        /\ whole' = [whole EXCEPT ![w] = TRUE]
        /\ UNCHANGED <<handler, counted>>
    BY <1>2 DEF BuildPost, service
  <2>2. NetType'
    BY <2>1 DEF NetType
  <2>3. Numbered'
    BY <2>1 DEF NetType, Numbered, Posts
  <2>4. Unread'
    <3>1. posts + 1 \in Posts => handler[posts + 1] = "none"
      BY DEF NetType, Numbered, Posts
    <3> QED
      BY <2>1, <3>1 DEF NetType, Numbered, Unread, Posts
  <2>5. CountedByHandler'
    BY <2>1 DEF CountedByHandler, Posts
  <2> QED
    BY <2>2, <2>3, <2>4, <2>5
<1> QED
  BY <1>1, <1>2

\* An attempt that gets a handler had the whole buffer, and leaves nothing.
LEMMA ArriveKeeps ==
  ASSUME NetInv, NEW w \in Workers, Arrive(w)
  PROVE  NetInv'
<1> USE DEF NetInv
<1>1. /\ whole' = [whole EXCEPT ![w] = FALSE]
      /\ UNCHANGED <<posts, post, counted>>
  BY DEF Arrive
<1>2. CASE ~(whole[w] /\ signed[w])
  <2>1. UNCHANGED handler
    BY <1>2 DEF Arrive
  <2> QED
    BY <1>1, <2>1 DEF NetType, Numbered, Unread, CountedByHandler, Posts
<1>3. CASE whole[w] /\ signed[w]
  <2>1. handler' = [handler EXCEPT ![post[w]] = "gauges"]
    BY <1>3 DEF Arrive
  <2>2. post[w] # 0 /\ (post[w] \in Posts => handler[post[w]] = "none")
    BY <1>3 DEF Unread
  <2>3. NetType'
    BY <1>1, <2>1 DEF NetType, Posts
  <2>4. Numbered'
    BY <1>1, <2>1 DEF NetType, Numbered, Posts
  <2>5. Unread'
    <3> SUFFICES ASSUME NEW v \in Workers, whole'[v]
                 PROVE  post'[v] # 0
                        /\ (post'[v] \in Posts' => handler'[post'[v]] = "none")
      BY DEF Unread
    <3>1. v # w /\ whole[v]
      BY <1>1 DEF NetType
    <3>2. post[v] # post[w]
      BY <3>1, <2>2 DEF Numbered
    <3> QED
      BY <1>1, <2>1, <3>1, <3>2 DEF NetType, Unread, Posts
  <2>6. CountedByHandler'
    BY <1>1, <2>1, <2>2 DEF NetType, CountedByHandler, Posts
  <2> QED
    BY <2>3, <2>4, <2>5, <2>6
<1> QED
  BY <1>2, <1>3

\* A connection that breaks leaves no more in the buffer than there was.
LEMMA BreakKeeps ==
  ASSUME NetInv, NEW w \in Workers, Break(w)
  PROVE  NetInv'
<1>1. PICK b \in {whole[w], FALSE} : whole' = [whole EXCEPT ![w] = b]
  BY DEF Break
<1>2. UNCHANGED <<posts, post, handler, counted>>
  BY DEF Break, service
<1>3. \A v \in Workers : whole'[v] => whole[v]
  BY <1>1 DEF NetInv, NetType
<1>4. whole' \in [Workers -> BOOLEAN]
  BY <1>1 DEF NetInv, NetType
<1> QED
  BY <1>2, <1>3, <1>4
     DEF NetInv, NetType, Numbered, Unread, CountedByHandler, Posts

\* A handler counts its post once.
LEMMA ServeKeeps ==
  ASSUME NetInv, NEW r \in Posts, SetGauges(r) \/ SetCounters(r)
  PROVE  NetInv'
<1> USE DEF NetInv
<1>1. UNCHANGED <<posts, post, whole>>
  BY DEF SetGauges, SetCounters, client
<1>2. CASE SetGauges(r)
  BY <1>1, <1>2 DEF SetGauges, NetType, Numbered, Unread, CountedByHandler, Posts
<1>3. CASE SetCounters(r)
  <2>1. /\ handler[r] = "counters"
        /\ handler' = [handler EXCEPT ![r] = "respond"]
        /\ counted' = [counted EXCEPT ![r] = @ + 1]
    BY <1>3 DEF SetCounters
  <2>2. NetType'
    BY <1>1, <2>1 DEF NetType, Posts
  <2>3. Numbered' /\ Unread'
    BY <1>1, <2>1 DEF NetType, Numbered, Unread, Posts
  <2>4. CountedByHandler'
    BY <2>1 DEF NetType, CountedByHandler, Posts
  <2> QED
    BY <2>2, <2>3, <2>4
<1> QED
  BY <1>2, <1>3

\* All steps together.
LEMMA StepNetInv == NetInv /\ [DeliveryNext]_deliveryVars => NetInv'
<1> SUFFICES ASSUME NetInv, [DeliveryNext]_deliveryVars
             PROVE  NetInv'
  OBVIOUS
<1>1. CASE Local
  BY <1>1, NetUnchanged DEF Local, client, service
<1>2. ASSUME NEW w \in Workers,
             BuildPost(w) \/ Arrive(w) \/ Break(w)
      PROVE  NetInv'
  BY <1>2, BuildPostKeeps, ArriveKeeps, BreakKeeps
<1>3. ASSUME NEW w \in Workers, Receive(w)
      PROVE  NetInv'
  BY <1>3, NetUnchanged DEF Receive, service
<1>4. CASE Serve
  BY <1>4, ServeKeeps DEF Serve
<1>5. CASE UNCHANGED deliveryVars
  BY <1>5, NetUnchanged DEF deliveryVars, client, service
<1> QED
  BY <1>1, <1>2, <1>3, <1>4, <1>5 DEF DeliveryNext

\* No report is counted twice, however often Post tries again and whatever is
\* lost: Post's attempts share one buffer, and the attempt that had the whole of
\* it has left nothing for another.
THEOREM AtMostOnce == DeliverySpec => []CountedOnce
<1>1. NetInv => CountedOnce
  BY DEF NetInv, CountedByHandler, CountedOnce
<1> QED
  BY <1>1, InitNetInv, StepNetInv, PTL DEF DeliverySpec

-----------------------------------------------------------------------------
(* There are no more posts than reports. *)

\* The workers that have a post.
Sending == {w \in Workers : pc[w] \in {"write", "sum", "reset", "send"}}

\* Each post is with a worker or handled.
Bounded == posts <= handled + Cardinality(Sending)

\* There are finitely many such workers, and all of them are busy.
LEMMA SendingFinite ==
  ASSUME TypeOK
  PROVE  /\ IsFiniteSet(Sending) /\ Cardinality(Sending) \in Nat
         /\ Cardinality(Sending) <= Cardinality(Busy)
<1>1. Sending \subseteq Busy
  BY DEF Sending, Busy
<1>2. IsFiniteSet(Sending) /\ Cardinality(Sending) <= Cardinality(Busy)
  BY <1>1, BusyFinite, FS_Subset
<1> QED
  BY <1>2, FS_CardinalityType

\* A step of the agent alone starts no post and ends none.
LEMMA LocalBounded ==
  ASSUME IInv, NetInv, Bounded, Local
  PROVE  Bounded'
<1> USE DEF IInv, TypeOK, Goto, collecting, reporting, working
<1>1. UNCHANGED posts
  BY DEF Local, client
<1>2. handled' = handled
  BY DEF Local, Signal, Sample, Store, SamplePanics, MonitorStop, MonitorEnd,
         Tick, Enqueue, ReporterStop, CloseQueue, ReporterEnd, Take, WorkerEnd,
         BuildFails, HashWrite, HashSum, HashReset, Exit
<1>3. CASE UNCHANGED pc
  BY <1>1, <1>2, <1>3 DEF Bounded, Sending
<1>4. ASSUME NEW w \in Workers,
             \/ Take(w) \/ WorkerEnd(w)
             \/ HashWrite(w) \/ HashSum(w) \/ HashReset(w)
      PROVE  Bounded'
  <2>1. Sending' = Sending
    BY <1>4 DEF Take, WorkerEnd, HashWrite, HashSum, HashReset, Sending
  <2> QED
    BY <1>1, <1>2, <2>1 DEF Bounded
<1> QED
  BY <1>3, <1>4 DEF Local, Signal, Sample, Store, SamplePanics, MonitorStop,
     MonitorEnd, Tick, Enqueue, ReporterStop, CloseQueue, ReporterEnd,
     BuildFails, Exit

\* Building a body starts one, unless there is nothing to send.
LEMMA BuildPostBounded ==
  ASSUME IInv, NetInv, Bounded, NEW w \in Workers, BuildPost(w)
  PROVE  Bounded'
<1> USE DEF IInv, Goto
<1>1. pc \in [Workers -> {"idle", "build", "write", "sum", "reset", "send", "end"}]
      /\ handled \in Nat /\ posts \in Nat /\ pc[w] = "build"
  BY DEF TypeOK, NetInv, NetType, BuildPost, Build
<1>2. CASE current = 0
  <2>1. handled' = handled + 1 /\ posts' = posts /\ pc' = [pc EXCEPT ![w] = "idle"]
    BY <1>2 DEF BuildPost, Build, client
  <2>2. Sending' = Sending
    BY <1>1, <2>1 DEF Sending
  <2> QED
    BY <1>1, <2>1, <2>2, SendingFinite DEF Bounded
<1>3. CASE current # 0
  <2>1. /\ handled' = handled /\ posts' = posts + 1
        /\ pc' = [pc EXCEPT ![w] = IF Key THEN "write" ELSE "send"]
    BY <1>3 DEF BuildPost, Build
  <2>2. Sending' = Sending \cup {w} /\ w \notin Sending
    BY <1>1, <2>1 DEF Sending
  <2>3. Cardinality(Sending') = Cardinality(Sending) + 1
    BY <2>2, SendingFinite, FS_AddElement
  <2> QED
    BY <1>1, <2>1, <2>3, SendingFinite DEF Bounded
<1> QED
  BY <1>2, <1>3

\* An answer ends one.
LEMMA ReceiveBounded ==
  ASSUME IInv, NetInv, Bounded, NEW w \in Workers, Receive(w)
  PROVE  Bounded'
<1> USE DEF IInv, Goto
<1>1. pc \in [Workers -> {"idle", "build", "write", "sum", "reset", "send", "end"}]
      /\ handled \in Nat /\ posts \in Nat /\ pc[w] = "send"
  BY DEF TypeOK, NetInv, NetType, Receive, Answered
<1>2. handled' = handled + 1 /\ posts' = posts /\ pc' = [pc EXCEPT ![w] = "idle"]
  BY DEF Receive, Answered
<1>3. Sending' = Sending \ {w} /\ w \in Sending
  BY <1>1, <1>2 DEF Sending
<1>4. Cardinality(Sending') = Cardinality(Sending) - 1
  BY <1>3, SendingFinite, FS_RemoveElement
<1> QED
  BY <1>1, <1>2, <1>4, SendingFinite DEF Bounded

\* All steps together.
LEMMA StepBounded ==
  IInv /\ NetInv /\ Bounded /\ [DeliveryNext]_deliveryVars => Bounded'
<1> SUFFICES ASSUME IInv, NetInv, Bounded, [DeliveryNext]_deliveryVars
             PROVE  Bounded'
  OBVIOUS
<1>1. ASSUME UNCHANGED <<posts, handled, pc>>
      PROVE  Bounded'
  BY <1>1 DEF Bounded, Sending
<1>2. ASSUME NEW w \in Workers, Arrive(w) \/ Break(w)
      PROVE  Bounded'
  BY <1>1, <1>2 DEF Arrive, Break, Retry, Fatal, agent, vars, working
<1>3. CASE Serve
  BY <1>1, <1>3
     DEF Serve, SetGauges, SetCounters, agent, vars, working, client
<1>4. CASE UNCHANGED deliveryVars
  BY <1>1, <1>4 DEF deliveryVars, agent, vars, working, client
<1> QED
  BY <1>2, <1>3, <1>4, LocalBounded, BuildPostBounded, ReceiveBounded
     DEF DeliveryNext

\* So a post has a number below the bound.
LEMMA FewPosts ==
  ASSUME IInv, NetInv, Bounded
  PROVE  posts \in 0 .. MaxReports
<1>1. /\ posts \in Nat /\ handled \in Nat /\ reading \in Nat /\ queue \in Nat
      /\ made \in 0 .. MaxReports
  BY AgentReportsAssumption DEF IInv, TypeOK, NetInv, NetType
<1>2. posts <= handled + Cardinality(Busy)
  BY <1>1, SendingFinite, BusyFinite DEF IInv, Bounded
<1> QED
  BY <1>1, <1>2, BusyFinite, AgentReportsAssumption DEF IInv, Accounted

-----------------------------------------------------------------------------
(* Why a report is not counted. *)

\* What the lemmas above say of the agent and of posts, together.
Base == IInv /\ NetInv /\ Bounded

\* The types of the rest.
RestType ==
  /\ conn \in [Workers -> {"idle", "out", "refused"}]
  /\ fault \in [Posts -> SUBSET {"broken", "signature"}]
  /\ shown \in 0 .. posts

\* What may have befallen a post that is not counted.
Excused(r) == "broken" \in fault[r]
              \/ ("signature" \in fault[r] /\ Cardinality(pool) > 1)

\* A worker that is signing has touched nothing yet.
Placed ==
  \A w \in Workers : pc[w] \in {"write", "sum", "reset"} =>
    post[w] # 0 /\ whole[w] /\ conn[w] = "idle"

\* If a buffer is not whole, or its attempt is refused, there is an excuse, and
\* an attempt that is out has a handler.
Explained ==
  \A w \in Workers : pc[w] = "send" =>
    /\ post[w] # 0
    /\ conn[w] = "idle" => whole[w] \/ "broken" \in fault[post[w]]
    /\ conn[w] = "out" => handler[post[w]] # "none"
    /\ conn[w] = "refused" => Excused(post[w])

\* So is there for a post that is done and has not been counted.
Settled == \A r \in Done : handler[r] = "respond" \/ Excused(r)

Tale == RestType /\ Placed /\ Explained /\ Settled

\* Nothing has happened at first.
LEMMA InitTale == DeliveryInit => Tale
<1> SUFFICES ASSUME DeliveryInit
             PROVE  Tale
  OBVIOUS
<1>1. RestType
  BY DEF DeliveryInit, RestType
<1>2. Done = {}
  BY DEF DeliveryInit, Done
<1>3. Placed /\ Explained
  BY DEF DeliveryInit, Init, Placed, Explained
<1> QED
  BY <1>1, <1>2, <1>3 DEF Tale, Settled

\* The post of a worker has a number among the posts.
LEMMA PostNumber ==
  ASSUME Base, NEW w \in Workers, post[w] # 0
  PROVE  post[w] \in Posts
<1>1. posts \in 0 .. MaxReports
  BY FewPosts DEF Base
<1>2. post[w] \in Nat /\ post[w] <= posts
  BY DEF Base, NetInv, NetType, Numbered
<1> QED
  BY <1>1, <1>2, AgentReportsAssumption DEF Posts

\* A step of the agent alone: only signing ends in sending.
LEMMA LocalTale ==
  ASSUME Base, Tale, Local
  PROVE  Tale'
<1> USE DEF Base, Tale, Goto, collecting, reporting, working
<1>1. UNCHANGED <<post, posts, whole, conn, handler, shown, fault, pool>>
  BY DEF Local, client, service, Signal, Sample, Store, SamplePanics,
     MonitorStop, MonitorEnd, Tick, Enqueue, ReporterStop, CloseQueue,
     ReporterEnd, Take, WorkerEnd, BuildFails, HashWrite, HashSum, HashReset, Exit
<1>2. CASE UNCHANGED pc
  BY <1>1, <1>2 DEF RestType, Placed, Explained, Excused, Settled, Done, Posts
<1>3. ASSUME NEW w \in Workers,
             \/ Take(w) \/ WorkerEnd(w)
             \/ HashWrite(w) \/ HashSum(w) \/ HashReset(w)
      PROVE  Tale'
  <2>1. PICK l : /\ pc' = [pc EXCEPT ![w] = l]
                 /\ \/ pc[w] = "idle" /\ l \in {"build", "end"}
                    \/ /\ pc[w] \in {"write", "sum", "reset"}
                       /\ l \in {"sum", "reset", "send"}
    BY <1>3 DEF Take, WorkerEnd, HashWrite, HashSum, HashReset
  <2>2. pc \in [Workers ->
                 {"idle", "build", "write", "sum", "reset", "send", "end"}]
    BY DEF IInv, TypeOK
  <2>3. RestType'
    BY <1>1 DEF RestType, Posts
  <2>4. Placed' /\ Explained'
    BY <1>1, <2>1, <2>2 DEF Placed, Explained, Excused
  <2>5. Done' = Done
    BY <1>1, <2>1, <2>2 DEF Done
  <2>6. Settled'
    BY <1>1, <2>5 DEF Settled, Excused
  <2> QED
    BY <2>3, <2>4, <2>6
<1> QED
  BY <1>2, <1>3 DEF Local, Signal, Sample, Store, SamplePanics, MonitorStop,
     MonitorEnd, Tick, Enqueue, ReporterStop, CloseQueue, ReporterEnd,
     BuildFails, Exit

\* A new post starts with a whole buffer; the worker's last one was done before.
LEMMA BuildPostTale ==
  ASSUME Base, Tale, NEW w \in Workers, BuildPost(w)
  PROVE  Tale'
<1> USE DEF Base, Tale, Goto
<1>1. /\ pc \in [Workers ->
                   {"idle", "build", "write", "sum", "reset", "send", "end"}]
      /\ pc[w] = "build" /\ posts \in Nat
      /\ post \in [Workers -> Nat] /\ whole \in [Workers -> BOOLEAN]
      /\ UNCHANGED <<handler, shown, fault, pool>>
  BY DEF IInv, TypeOK, NetInv, NetType, BuildPost, Build, service
<1>2. CASE current = 0
  <2>1. pc' = [pc EXCEPT ![w] = "idle"] /\ UNCHANGED <<post, posts, whole, conn>>
    BY <1>2 DEF BuildPost, Build, client
  <2>2. Done' = Done
    BY <1>1, <2>1 DEF Done
  <2>3. RestType' /\ Placed' /\ Explained'
    BY <1>1, <2>1 DEF RestType, Placed, Explained, Excused, Posts
  <2> QED
    BY <1>1, <2>2, <2>3 DEF Settled, Excused
<1>3. CASE current # 0
  <2>1. /\ pc' = [pc EXCEPT ![w] = IF Key THEN "write" ELSE "send"]
        /\ posts' = posts + 1
        /\ post' = [post EXCEPT ![w] = posts + 1]
        /\ whole' = [whole EXCEPT ![w] = TRUE]
        /\ conn' = [conn EXCEPT ![w] = "idle"]
    BY <1>3 DEF BuildPost, Build
  <2>2. RestType'
    BY <1>1, <2>1 DEF RestType, Posts
  <2>3. Placed' /\ Explained'
    BY <1>1, <2>1 DEF RestType, Placed, Explained, Excused
  <2>4. \A v \in Workers : post[v] <= posts
    BY DEF NetInv, Numbered
  <2>5. Done' \subseteq Done
    <3> SUFFICES ASSUME NEW r \in Done'
                 PROVE  r \in Done
      OBVIOUS
    <3>1. r \in 1 .. posts + 1 /\ \A v \in Workers : post'[v] = r =>
            pc'[v] \in {"idle", "build", "end"}
      BY <2>1 DEF Done
    <3>2. r # posts + 1
      BY <1>1, <2>1, <3>1
    <3>3. \A v \in Workers : post[v] = r => pc[v] \in {"idle", "build", "end"}
      BY <1>1, <2>1, <3>1
    <3> QED
      BY <1>1, <3>1, <3>2, <3>3 DEF Done
  <2> QED
    BY <1>1, <2>2, <2>3, <2>5 DEF Settled, Excused
<1> QED
  BY <1>2, <1>3

\* Only a pool of several sends what is not signed for itself.
LEMMA Missigned ==
  ASSUME Base, NEW w \in Workers, pc[w] = "send", ~signed[w]
  PROVE  Cardinality(pool) > 1
<1> USE DEF Base, IInv
<1>1. w \in pool /\ Cardinality(pool) # 1
  BY DEF HashSound
<1>2. pool \subseteq Workers /\ IsFiniteSet(Workers)
  BY AgentReportsAssumption DEF TypeOK
<1>3. IsFiniteSet(pool) /\ Cardinality(pool) \in Nat
  BY <1>2, FS_Subset, FS_CardinalityType
<1>4. Cardinality(pool) # 0
  BY <1>1, <1>3, FS_EmptySet
<1> QED
  BY <1>1, <1>3, <1>4

\* A step that adds to the faults and moves no worker keeps the other posts'
\* tale.
LEMMA OthersTale ==
  ASSUME Base, Tale, UNCHANGED <<pc, pool, post, posts>>,
         \A r \in Posts : fault[r] \subseteq fault'[r],
         \A r \in Posts : handler[r] = "respond" => handler'[r] = "respond"
         \/ \E w \in Workers : pc[w] = "send" /\ post[w] = r
  PROVE  Settled'
<1>1. Done' = Done
  BY DEF Done
<1>2. Done \subseteq Posts
  <2>1. posts \in 0 .. MaxReports
    BY FewPosts DEF Base
  <2> QED
    BY <2>1, AgentReportsAssumption DEF Done, Posts
<1>3. \A r \in Done : Excused(r) => Excused(r)'
  BY <1>2 DEF Excused
<1>4. \A r \in Done : handler[r] = "respond" => handler'[r] = "respond"
  BY <1>2 DEF Done
<1> QED
  BY <1>1, <1>3, <1>4 DEF Tale, Settled

\* An attempt that is refused was not whole or not signed.
LEMMA ArriveTale ==
  ASSUME Base, Tale, NEW w \in Workers, Arrive(w)
  PROVE  Tale'
<1> USE DEF Base, Tale
<1>1. /\ pc[w] = "send" /\ conn[w] = "idle"
      /\ whole' = [whole EXCEPT ![w] = FALSE]
      /\ UNCHANGED <<pc, pool, post, posts, shown, signed>>
  BY DEF Arrive, agent, vars, working
<1>2. post[w] \in Posts /\ (whole[w] \/ "broken" \in fault[post[w]])
  BY <1>1, PostNumber DEF Explained
<1>3. \A v \in Workers : v # w /\ post[v] # 0 => post[v] # post[w]
  BY <1>2 DEF NetInv, Numbered, Posts
<1>4. fault' = IF signed[w] THEN fault
               ELSE [fault EXCEPT ![post[w]] = @ \cup {"signature"}]
  BY DEF Arrive, Befalls
<1>5. fault' \in [Posts -> SUBSET {"broken", "signature"}]
  BY <1>2, <1>4 DEF RestType
<1>6. \A r \in Posts : fault[r] \subseteq fault'[r]
  BY <1>2, <1>4 DEF RestType
<1>7. \A v \in Workers : post[v] # 0 => post[v] \in Posts
  BY PostNumber
<1>8. CASE whole[w] /\ signed[w]
  <2>1. /\ conn' = [conn EXCEPT ![w] = "out"]
        /\ handler' = [handler EXCEPT ![post[w]] = "gauges"]
    BY <1>8 DEF Arrive
  <2>2. RestType' /\ Placed'
    BY <1>1, <1>5, <2>1 DEF RestType, Placed, NetInv, NetType, Posts
  <2>3. Explained'
    BY <1>1, <1>2, <1>4, <1>7, <1>8, <2>1
       DEF RestType, Explained, Excused, NetInv, NetType
  <2>4. Settled'
    BY <1>1, <1>6, <2>1, OthersTale DEF NetInv, NetType
  <2> QED
    BY <2>2, <2>3, <2>4
<1>9. CASE ~(whole[w] /\ signed[w])
  <2>1. conn' = [conn EXCEPT ![w] = "refused"] /\ UNCHANGED handler
    BY <1>9 DEF Arrive
  <2>2. RestType' /\ Placed'
    BY <1>1, <1>5, <2>1 DEF RestType, Placed, NetInv, NetType, Posts
  <2>3. Excused(post[w])'
    BY <1>1, <1>2, <1>4, <1>6, <1>9, Missigned DEF RestType, Excused
  <2>4. Explained'
    <3> SUFFICES ASSUME NEW v \in Workers, pc'[v] = "send"
                 PROVE  /\ post'[v] # 0
                        /\ conn'[v] = "idle" =>
                             whole'[v] \/ "broken" \in fault'[post'[v]]
                        /\ conn'[v] = "out" => handler'[post'[v]] # "none"
                        /\ conn'[v] = "refused" => Excused(post[v])'
      BY <1>1 DEF Explained
    <3>1. CASE v = w
      BY <1>1, <1>2, <2>1, <2>3, <3>1 DEF RestType, Posts
    <3>2. CASE v # w
      <4>1. post[v] \in Posts /\ (Excused(post[v]) => Excused(post[v])')
        BY <1>1, <1>6, <1>7, <3>2 DEF Explained, Excused
      <4> QED
        BY <1>1, <1>6, <2>1, <3>2, <4>1
           DEF RestType, Explained, NetInv, NetType
    <3> QED
      BY <3>1, <3>2
  <2>5. Settled'
    BY <1>1, <1>6, <2>1, OthersTale
  <2> QED
    BY <2>2, <2>4, <2>5
<1> QED
  BY <1>8, <1>9

\* Whoever's connection breaks has an excuse from now on.
LEMMA BreakTale ==
  ASSUME Base, Tale, NEW w \in Workers, Break(w)
  PROVE  Tale'
<1> USE DEF Base, Tale
<1>1. /\ pc[w] = "send"
      /\ conn' = [conn EXCEPT ![w] = "idle"]
      /\ fault' = [fault EXCEPT ![post[w]] = @ \cup {"broken"}]
      /\ UNCHANGED <<pc, pool, post, posts, shown, handler>>
  BY DEF Break, Befalls, Retry, Fatal, working, service
<1>2. \A v \in Workers : v # w => whole'[v] = whole[v]
  BY DEF Break, NetInv, NetType
<1>3. post[w] \in Posts
  BY <1>1, PostNumber DEF Explained
<1>4. fault' \in [Posts -> SUBSET {"broken", "signature"}]
  BY <1>1, <1>3 DEF RestType
<1>5. \A r \in Posts : fault[r] \subseteq fault'[r]
  BY <1>1, <1>3 DEF RestType
<1>6. RestType' /\ Placed'
  BY <1>1, <1>2, <1>4 DEF RestType, Placed, Posts
<1>7. Explained'
  <2> SUFFICES ASSUME NEW v \in Workers, pc'[v] = "send"
               PROVE  /\ post'[v] # 0
                      /\ conn'[v] = "idle" =>
                           whole'[v] \/ "broken" \in fault'[post'[v]]
                      /\ conn'[v] = "out" => handler'[post'[v]] # "none"
                      /\ conn'[v] = "refused" => Excused(post[v])'
    BY <1>1 DEF Explained
  <2>1. CASE v = w
    BY <1>1, <1>3, <2>1 DEF RestType, Posts
  <2>2. CASE v # w
    <3>1. post[v] \in Posts /\ (Excused(post[v]) => Excused(post[v])')
      BY <1>1, <1>5, <2>2, PostNumber DEF Explained, Excused
    <3> QED
      BY <1>1, <1>2, <1>5, <2>2, <3>1 DEF RestType, Explained
  <2> QED
    BY <2>1, <2>2
<1>8. Settled'
  BY <1>1, <1>5, OthersTale
<1> QED
  BY <1>6, <1>7, <1>8

\* An answer comes from a handler at its end, or there is an excuse.
LEMMA ReceiveTale ==
  ASSUME Base, Tale, NEW w \in Workers, Receive(w)
  PROVE  Tale'
<1> USE DEF Base, Tale, Goto
<1>1. /\ pc[w] = "send" /\ pc' = [pc EXCEPT ![w] = "idle"]
      /\ conn' = [conn EXCEPT ![w] = "idle"]
      /\ UNCHANGED <<pool, post, posts, whole, shown, handler, fault>>
  BY DEF Receive, Answered, service
<1>2. pc \in [Workers ->
              {"idle", "build", "write", "sum", "reset", "send", "end"}]
  BY DEF IInv, TypeOK
<1>3. RestType' /\ Placed' /\ Explained'
  BY <1>1, <1>2 DEF RestType, Placed, Explained, Excused, Posts
<1>4. Done' \subseteq Done \cup {post[w]}
  BY <1>1, <1>2 DEF Done
<1>5. handler[post[w]] = "respond" \/ Excused(post[w])
  BY <1>1 DEF Receive, Explained
<1>6. Settled'
  BY <1>1, <1>4, <1>5 DEF Settled, Excused
<1> QED
  BY <1>3, <1>6

\* A handler goes on and never back.
LEMMA ServeTale ==
  ASSUME Base, Tale, NEW r \in Posts, SetGauges(r) \/ SetCounters(r)
  PROVE  Tale'
<1> USE DEF Base, Tale
<1>1. /\ handler[r] \in {"gauges", "counters"}
      /\ handler' \in {[handler EXCEPT ![r] = "counters"],
                       [handler EXCEPT ![r] = "respond"]}
      /\ shown' \in {shown, r}
      /\ UNCHANGED <<pc, pool, post, posts, whole, conn, fault>>
  BY DEF SetGauges, SetCounters, agent, vars, working, client
<1>2. handler \in [Posts -> {"none", "gauges", "counters", "respond"}]
      /\ posts \in Nat /\ r \in 0 .. posts
  BY <1>1 DEF NetInv, NetType, Numbered, Posts
<1>3. /\ \A q \in Posts : handler[q] # "none" => handler'[q] # "none"
      /\ \A q \in Posts : handler[q] = "respond" => handler'[q] = "respond"
  BY <1>1, <1>2
<1>4. RestType' /\ Placed'
  BY <1>1, <1>2 DEF RestType, Placed, Posts
<1>5. Explained'
  <2>1. \A w \in Workers : pc[w] = "send" => post[w] \in Posts
    BY PostNumber DEF Explained
  <2> QED
    BY <1>1, <1>3, <2>1 DEF Explained, Excused
<1>6. Settled'
  BY <1>1, <1>3, OthersTale
<1> QED
  BY <1>4, <1>5, <1>6

\* All steps together.
LEMMA StepTale == Base /\ Tale /\ [DeliveryNext]_deliveryVars => Tale'
<1> SUFFICES ASSUME Base, Tale, [DeliveryNext]_deliveryVars
             PROVE  Tale'
  OBVIOUS
<1>1. ASSUME NEW w \in Workers,
             BuildPost(w) \/ Arrive(w) \/ Break(w) \/ Receive(w)
      PROVE  Tale'
  BY <1>1, BuildPostTale, ArriveTale, BreakTale, ReceiveTale
<1>2. CASE Serve
  BY <1>2, ServeTale DEF Serve
<1>3. CASE UNCHANGED deliveryVars
  BY <1>3 DEF deliveryVars, agent, vars, working, client, service, Tale,
              RestType, Placed, Explained, Excused, Settled, Done, Posts
<1> QED
  BY <1>1, <1>2, <1>3, LocalTale DEF DeliveryNext

\* The invariant of the whole.
LEMMA Told == DeliverySpec => [](Base /\ Tale)
<1>1. DeliveryInit => Bounded
  <2> SUFFICES ASSUME DeliveryInit
               PROVE  Bounded
    OBVIOUS
  <2>1. Sending = {} /\ posts = 0 /\ handled = 0
    BY DEF DeliveryInit, Init, Sending
  <2> QED
    BY <2>1, FS_EmptySet DEF Bounded
<1>2. DeliveryInit => Base /\ Tale
  BY <1>1, InitIInv, InitNetInv, InitTale DEF DeliveryInit, Base
<1>3. Base /\ Tale /\ [DeliveryNext]_deliveryVars => (Base /\ Tale)'
  <2>1. Base /\ [DeliveryNext]_deliveryVars => Base'
    BY AgentSteps, StepIInv, StepNetInv, StepBounded DEF Base
  <2> QED
    BY <2>1, StepTale
<1> QED
  BY <1>2, <1>3, PTL DEF DeliverySpec

\* A report that Post has seen off has been counted, unless a connection of it
\* broke or another worker spoilt its signature.
THEOREM SeenOff == DeliverySpec => []LostForAReason
<1>1. Base /\ Tale => LostForAReason
  <2> SUFFICES ASSUME Base, Tale, NEW r \in Done
               PROVE  counted[r] = 1 \/ Excused(r)
    BY DEF LostForAReason, Excused
  <2>1. r \in Posts
    <3>1. posts \in 0 .. MaxReports
      BY FewPosts DEF Base
    <3> QED
      BY <3>1, AgentReportsAssumption DEF Done, Posts
  <2> QED
    BY <2>1 DEF Base, NetInv, CountedByHandler, Tale, Settled
<1> QED
  BY <1>1, Told, PTL

-----------------------------------------------------------------------------
(* A worker's posts are handled in their order while their connections hold. *)

\* Posts are one worker's, its current one the last of them.  A handler that has
\* yet to set the gauges is of a post the worker waits for, if its connection has
\* not broken.
InTurn ==
  /\ built \in [Workers -> SUBSET Posts]
  /\ \A w \in Workers : \A r \in built[w] : r <= post[w]
  /\ \A v, w \in Workers : post[w] \in built[v] => v = w
  /\ \A w \in Workers : \A r \in built[w] :
       handler[r] = "gauges" =>
         \/ "broken" \in fault[r]
         \/ r = post[w] /\ conn[w] = "out" /\ pc[w] = "send"
  /\ NoneOvertaken

\* What has befallen a post stays with it.
LEMMA FaultsStay ==
  ASSUME Tale, [DeliveryNext]_deliveryVars
  PROVE  \A r \in Posts : fault[r] \subseteq fault'[r]
<1>1. \/ UNCHANGED fault
      \/ \E r, f : fault' = [fault EXCEPT ![r] = @ \cup {f}]
  BY DEF DeliveryNext, deliveryVars, Local, BuildPost, Arrive, Break, Receive,
         Serve, SetGauges, SetCounters, Befalls
<1> QED
  BY <1>1 DEF Tale, RestType

\* A step leaves no more posts than there may be.
LEMMA FewPostsStill ==
  Base /\ [DeliveryNext]_deliveryVars => (posts \in 0 .. MaxReports)'
<1>1. Base => posts \in 0 .. MaxReports
  BY FewPosts DEF Base
<1>2. Base /\ [DeliveryNext]_deliveryVars => Base'
  BY AgentSteps, StepIInv, StepNetInv, StepBounded DEF Base
<1> QED
  BY <1>1, <1>2, PTL

\* A step that leaves posts, handlers and what is shown alone, and workers where
\* they wait.
LEMMA SameTurn ==
  ASSUME InTurn, UNCHANGED <<built, post, handler, shown>>,
         \A r \in Posts : fault[r] \subseteq fault'[r],
         \A w \in Workers : \A r \in built[w] :
           r = post[w] /\ handler[r] = "gauges" /\ "broken" \notin fault'[r]
             /\ conn[w] = "out" /\ pc[w] = "send" =>
               conn'[w] = "out" /\ pc'[w] = "send"
  PROVE  InTurn'
BY DEF InTurn, NoneOvertaken, Posts

LEMMA StepInTurn ==
  Base /\ Tale /\ InTurn /\ [DeliveryNext]_deliveryVars => InTurn'
<1> SUFFICES ASSUME Base, Tale, InTurn, [DeliveryNext]_deliveryVars
             PROVE  InTurn'
  OBVIOUS
<1>1. \A r \in Posts : fault[r] \subseteq fault'[r]
  BY FaultsStay
<1>2. /\ handler \in [Posts -> {"none", "gauges", "counters", "respond"}]
      /\ post \in [Workers -> Nat] /\ posts \in Nat /\ shown \in 0 .. posts
      /\ \A w \in Workers : post[w] <= posts
      /\ conn \in [Workers -> {"idle", "out", "refused"}]
      /\ fault \in [Posts -> SUBSET {"broken", "signature"}]
      /\ \A r \in Posts : handler[r] # "none" => r <= posts
      /\ pc \in [Workers ->
                   {"idle", "build", "write", "sum", "reset", "send", "end"}]
  BY DEF Base, IInv, TypeOK, NetInv, NetType, Numbered, Tale, RestType
<1>3. /\ built \in [Workers -> SUBSET Posts]
      /\ \A w \in Workers : \A r \in built[w] : r \in Posts /\ r <= post[w]
      /\ Posts \subseteq Nat
  BY DEF InTurn, Posts
<1>4. CASE Local
  <2>1. UNCHANGED <<built, post, conn, handler, shown>>
    BY <1>4 DEF Local, client, service
  <2>2. \A w \in Workers : pc[w] = "send" => pc'[w] = "send"
    BY <1>2, <1>4 DEF Local, Signal, Sample, Store, SamplePanics, MonitorStop,
       MonitorEnd, Tick, Enqueue, ReporterStop, CloseQueue, ReporterEnd, Take,
       WorkerEnd, BuildFails, HashWrite, HashSum, HashReset, Exit, Goto, working
  <2> QED
    BY <1>1, <2>1, <2>2, SameTurn
<1>5. ASSUME NEW w \in Workers, BuildPost(w)
      PROVE  InTurn'
  <2>1. pc[w] = "build" /\ UNCHANGED <<handler, shown, fault>>
        /\ \A v \in Workers \ {w} : pc'[v] = pc[v]
    BY <1>2, <1>5 DEF BuildPost, Build, Goto, service
  <2>2. CASE current = 0
    <3>1. UNCHANGED <<built, post, conn>>
      BY <1>5, <2>2 DEF BuildPost, client
    <3> QED
      BY <1>1, <2>1, <3>1, SameTurn
  <2>3. CASE current # 0
    <3>1. /\ post' = [post EXCEPT ![w] = posts + 1]
          /\ conn' = [conn EXCEPT ![w] = "idle"]
          /\ built' = [built EXCEPT ![w] = @ \cup {posts + 1}]
          /\ posts' = posts + 1
      BY <1>5, <2>3 DEF BuildPost
    <3>2. posts + 1 \in Posts
      <4>1. posts' \in 0 .. MaxReports
        BY FewPostsStill
      <4> QED
        BY <1>2, <3>1, <4>1, AgentReportsAssumption DEF Posts
    <3>3. handler[posts + 1] = "none"
      BY <1>2, <3>2
    <3>4. built' \in [Workers -> SUBSET Posts]
      BY <1>3, <3>1, <3>2
    <3>5. \A v \in Workers : \A r \in built'[v] : r <= post'[v]
      BY <1>2, <1>3, <3>1
    <3>6. \A u, v \in Workers : post'[v] \in built'[u] => u = v
      <4>1. \A u \in Workers : posts + 1 \notin built[u]
        BY <1>2, <1>3
      <4>2. \A v \in Workers : post[v] # posts + 1
        BY <1>2
      <4> QED
        BY <1>2, <1>3, <3>1, <4>1, <4>2 DEF InTurn
    <3>7. \A v \in Workers : \A r \in built'[v] : handler'[r] = "gauges" =>
            \/ "broken" \in fault'[r]
            \/ r = post'[v] /\ conn'[v] = "out" /\ pc'[v] = "send"
      BY <1>2, <1>3, <2>1, <3>1, <3>3 DEF InTurn
    <3>8. NoneOvertaken'
      <4>1. \A v \in Workers : \A q, r \in built'[v] :
              /\ shown = q => q \in built[v]
              /\ handler[r] \in {"counters", "respond"} => r \in built[v]
        BY <1>2, <1>3, <3>1, <3>3
      <4> QED
        BY <2>1, <4>1 DEF InTurn, NoneOvertaken
    <3> QED
      BY <3>4, <3>5, <3>6, <3>7, <3>8 DEF InTurn, Posts
  <2> QED
    BY <2>2, <2>3
<1>6. ASSUME NEW w \in Workers, Arrive(w)
      PROVE  InTurn'
  <2>1. /\ pc[w] = "send" /\ conn[w] = "idle"
        /\ UNCHANGED <<pc, post, shown, built>>
        /\ \A v \in Workers \ {w} : conn'[v] = conn[v]
    BY <1>2, <1>6 DEF Arrive, agent, vars, working
  <2>2. CASE UNCHANGED handler
    BY <1>1, <2>1, <2>2, SameTurn
  <2>3. CASE handler' # handler
    <3>1. /\ conn'[w] = "out" /\ fault' = fault
          /\ handler' = [handler EXCEPT ![post[w]] = "gauges"]
      BY <1>2, <1>6, <2>3 DEF Arrive
    <3>2. \A v \in Workers : \A r \in built[v] :
            handler'[r] = IF r = post[w] THEN "gauges" ELSE handler[r]
      BY <1>2, <1>3, <3>1
    <3>3. \A v \in Workers : \A r \in built[v] : handler'[r] = "gauges" =>
            \/ "broken" \in fault'[r]
            \/ r = post'[v] /\ conn'[v] = "out" /\ pc'[v] = "send"
      BY <2>1, <3>1, <3>2 DEF InTurn
    <3>4. NoneOvertaken'
      BY <2>1, <3>1, <3>2 DEF InTurn, NoneOvertaken
    <3> QED
      BY <2>1, <3>3, <3>4 DEF InTurn, Posts
  <2> QED
    BY <2>2, <2>3
<1>7. ASSUME NEW w \in Workers, Break(w)
      PROVE  InTurn'
  <2>1. /\ pc[w] = "send"
        /\ fault' = [fault EXCEPT ![post[w]] = @ \cup {"broken"}]
        /\ UNCHANGED <<post, handler, shown, built>>
        /\ \A v \in Workers \ {w} : conn'[v] = conn[v] /\ pc'[v] = pc[v]
    BY <1>2, <1>7 DEF Break, Retry, Fatal, Befalls, Goto, service, working
  <2>2. post[w] \in Posts
    BY <2>1, PostNumber DEF Tale, Explained
  <2>3. "broken" \in fault'[post[w]]
    BY <1>2, <2>1, <2>2
  <2> QED
    BY <1>1, <2>1, <2>3, SameTurn
<1>8. ASSUME NEW w \in Workers, Receive(w)
      PROVE  InTurn'
  <2>1. /\ UNCHANGED <<post, handler, shown, built>>
        /\ \A v \in Workers \ {w} : conn'[v] = conn[v] /\ pc'[v] = pc[v]
    BY <1>2, <1>8 DEF Receive, Answered, Goto, service
  <2>2. conn[w] = "refused" \/ handler[post[w]] = "respond"
    BY <1>8 DEF Receive
  <2> QED
    BY <1>1, <2>1, <2>2, SameTurn
<1>9. ASSUME NEW s \in Posts, SetGauges(s)
      PROVE  InTurn'
  <2>1. /\ handler[s] = "gauges"
        /\ handler' = [handler EXCEPT ![s] = "counters"]
        /\ shown' = s /\ UNCHANGED <<pc, post, conn, built, fault>>
    BY <1>9 DEF SetGauges, agent, vars, working, client
  <2>2. \A w \in Workers : s \in built[w] =>
          "broken" \in fault[s] \/ s = post[w]
    BY <2>1 DEF InTurn
  <2>3. NoneOvertaken'
    BY <1>3, <2>1, <2>2 DEF NoneOvertaken
  <2>4. \A w \in Workers : \A r \in built[w] :
          handler'[r] = "gauges" => handler[r] = "gauges"
    BY <1>2, <1>3, <2>1
  <2> QED
    BY <2>1, <2>3, <2>4 DEF InTurn, Posts
<1>10. ASSUME NEW s \in Posts, SetCounters(s)
       PROVE  InTurn'
  <2>1. /\ handler[s] = "counters"
        /\ handler' = [handler EXCEPT ![s] = "respond"]
        /\ UNCHANGED <<pc, post, conn, shown, built, fault>>
    BY <1>10 DEF SetCounters, agent, vars, working, client
  <2>2. \A r \in Posts :
          /\ handler'[r] = "gauges" => handler[r] = "gauges"
          /\ handler'[r] \in {"counters", "respond"} =>
               handler[r] \in {"counters", "respond"}
    BY <1>2, <2>1
  <2>3. NoneOvertaken'
    BY <1>3, <2>1, <2>2 DEF InTurn, NoneOvertaken
  <2> QED
    BY <1>3, <2>1, <2>2, <2>3 DEF InTurn, Posts
<1>11. CASE UNCHANGED deliveryVars
  BY <1>1, <1>11, SameTurn
     DEF deliveryVars, agent, vars, working, client, service
<1> QED
  BY <1>4, <1>5, <1>6, <1>7, <1>8, <1>9, <1>10, <1>11 DEF DeliveryNext, Serve

LEMMA Turns == DeliverySpec => [](Base /\ Tale /\ InTurn)
<1>1. DeliveryInit => InTurn
  <2> SUFFICES ASSUME DeliveryInit
               PROVE  InTurn
    OBVIOUS
  <2>1. built = [w \in Workers |-> {}]
    BY DEF DeliveryInit
  <2> QED
    BY <2>1 DEF InTurn, NoneOvertaken
<1> QED
  BY <1>1, Told, StepInTurn, PTL DEF DeliverySpec

\* What the network and the server are at keeps its type: there is a handler or
\* none for every post there may be.
THEOREM NetTypeCorrect == DeliverySpec => []DeliveryTypeOK
<1>1. Base /\ Tale /\ InTurn => DeliveryTypeOK
  <2> SUFFICES ASSUME Base, Tale, InTurn
               PROVE  DeliveryTypeOK
    OBVIOUS
  <2>1. posts \in 0 .. MaxReports
    BY FewPosts DEF Base
  <2>2. post \in [Workers -> 0 .. posts]
    BY DEF Base, NetInv, NetType, Numbered
  <2> QED
    BY <2>1, <2>2
    DEF Base, NetInv, NetType, Tale, RestType, InTurn, DeliveryTypeOK
<1> QED
  BY <1>1, Turns, PTL

\* Of the posts of one worker, of any number of workers, none whose connection has
\* held puts its gauges in the place of a later one's: the worker waits for the
\* answer before it builds the next.
THEOREM InOrderOfPosts == DeliverySpec => []NoneOvertaken
<1>1. InTurn => NoneOvertaken
  BY DEF InTurn
<1> QED
  BY <1>1, Turns, PTL
=============================================================================
