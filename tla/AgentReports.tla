---------------------------- MODULE AgentReports -----------------------------
(***************************************************************************)
(* The agent: Collector.Monitor takes samples of the system's metrics;     *)
(* MonClient.PollStatsBatch starts a readStats at each tick, which puts a  *)
(* report into a channel; workers take reports from it and Post them to a  *)
(* server; a signal makes both stop.                                       *)
(*                                                                         *)
(* A report is not a copy: it refers to the collector's live maps, which   *)
(* the worker reads when it builds the body.  So reports in the channel    *)
(* are all alike and only their number matters, and a body is the number   *)
(* of the sample the maps held.  (What the runtime may do about a map that *)
(* is written while it is read is NeverCrashes in SafeRepo.)               *)
(***************************************************************************)
EXTENDS Integers, Sequences, FiniteSets

CONSTANTS Workers,      \* whoever may be in the pool
          Pools,        \* the pools there may be: -l, RateLimit, is their size
          ChCap,        \* the channel's capacity, clientPollCap in main
          Retries,      \* retryCount of NewInstance
          Key,          \* -k: requests are signed
          MaxSamples,   \* bound: samples taken
          MaxReports    \* bound: reports made

ASSUME AgentReportsAssumption ==
  /\ IsFiniteSet(Workers) /\ Pools \subseteq SUBSET Workers
  /\ ChCap \in Nat \ {0} /\ Retries \in Nat
  /\ Key \in BOOLEAN
  /\ MaxSamples \in Nat /\ MaxReports \in Nat

VARIABLES pool,       \* the workers PollStatsBatch has started
          stopped,    \* the context is done
          monitor,    \* Monitor: "run", "drain" (waits for Stats) or "end"
          samples,    \* samples taken and not stored yet
          taken,      \* the number of samples taken
          current,    \* the sample the maps hold, 0 when they are empty
          reporter,   \* PollStatsBatch: "run", "drain" (waits for readStats),
                      \* "closed" (waits for the workers) or "end"
          reading,    \* the readStats that have not put their report yet
          queue,      \* the reports in repsCh
          pc,         \* where each worker is
          body,       \* the body of its request
          signed,     \* whether the signature it sends is that of its body
          attempt,    \* the retries it has made
          hash,       \* what m.h has been fed since the last Reset
          made,       \* history: reports made
          handled,    \* history: reports a worker is done with
          exited      \* "no", "clean" or "fatal"

collecting == <<monitor, samples, taken, current>>
reporting == <<reporter, reading, queue, made>>
working == <<pool, pc, body, signed, attempt, hash, handled>>
vars == <<stopped, collecting, reporting, working, exited>>

Init ==
  /\ stopped = FALSE
  /\ monitor = "run" /\ samples = {} /\ taken = 0 /\ current = 0
  /\ reporter = "run" /\ reading = 0 /\ queue = 0 /\ made = 0
  /\ pool \in Pools
  /\ pc = [w \in Workers |-> IF w \in pool THEN "idle" ELSE "end"]
  /\ body = [w \in Workers |-> 0]
  /\ signed = [w \in Workers |-> FALSE]
  /\ attempt = [w \in Workers |-> 0]
  /\ hash = << >> /\ handled = 0
  /\ exited = "no"

Signal ==
  /\ ~stopped
  /\ stopped' = TRUE
  /\ UNCHANGED <<collecting, reporting, working, exited>>

-----------------------------------------------------------------------------
(* Collector.Monitor and Collector.Stats. *)

\* A tick starts Stats, whose goroutines sample first ...
Sample ==
  /\ monitor = "run" /\ taken < MaxSamples
  /\ taken' = taken + 1
  /\ samples' = samples \cup {taken + 1}
  /\ UNCHANGED <<stopped, monitor, current, reporting, working, exited>>

\* ... and lock the maps to store later: an older sample may come last.
Store ==
  /\ \E s \in samples : current' = s /\ samples' = samples \ {s}
  /\ UNCHANGED <<stopped, monitor, taken, reporting, working, exited>>

\* GopsStats drops the errors of gopsutil: without memory statistics, or with
\* fewer cores in use than were counted, it panics.
SamplePanics ==
  /\ samples # {}
  /\ exited' = "fatal"
  /\ UNCHANGED <<stopped, collecting, reporting, working>>

MonitorStop ==
  /\ monitor = "run" /\ stopped
  /\ monitor' = "drain"
  /\ UNCHANGED <<stopped, samples, taken, current, reporting, working, exited>>

MonitorEnd ==
  /\ monitor = "drain" /\ samples = {}
  /\ monitor' = "end"
  /\ UNCHANGED <<stopped, samples, taken, current, reporting, working, exited>>

-----------------------------------------------------------------------------
(* PollStatsBatch and readStats. *)

\* A tick of the report interval starts a readStats.  It may be taken even if
\* the context is done already: select chooses among what is ready.
Tick ==
  /\ reporter = "run" /\ made < MaxReports
  /\ made' = made + 1
  /\ reading' = reading + 1
  /\ UNCHANGED <<stopped, collecting, reporter, queue, working, exited>>

\* Mutant of Enqueue: the channel takes any number of reports.
EnqueueUnbounded ==
  /\ reading > 0
  /\ reading' = reading - 1 /\ queue' = queue + 1
  /\ UNCHANGED <<stopped, collecting, reporter, made, working, exited>>

\* readStats takes the maps and blocks while the channel is full.
Enqueue ==
  /\ reading > 0 /\ queue < ChCap
  /\ reading' = reading - 1 /\ queue' = queue + 1
  /\ UNCHANGED <<stopped, collecting, reporter, made, working, exited>>

ReporterStop ==
  /\ reporter = "run" /\ stopped
  /\ reporter' = "drain"
  /\ UNCHANGED <<stopped, collecting, reading, queue, made, working, exited>>

\* Mutants of CloseQueue: the channel is closed under a readStats; it is closed
\* only when the workers have ended.
CloseQueueEarly ==
  /\ reporter = "drain"
  /\ reporter' = "closed" /\ reading' = 0
  /\ UNCHANGED <<stopped, collecting, queue, made, working, exited>>
CloseQueueLast ==
  /\ reporter = "drain" /\ reading = 0 /\ \A w \in Workers : pc[w] = "end"
  /\ reporter' = "closed"
  /\ UNCHANGED <<stopped, collecting, reading, queue, made, working, exited>>

\* tickerWG.Wait, then close(repsCh).
CloseQueue ==
  /\ reporter = "drain" /\ reading = 0
  /\ reporter' = "closed"
  /\ UNCHANGED <<stopped, collecting, reading, queue, made, working, exited>>

\* poolWG.Wait.
ReporterEnd ==
  /\ reporter = "closed" /\ \A w \in Workers : pc[w] = "end"
  /\ reporter' = "end"
  /\ UNCHANGED <<stopped, collecting, reading, queue, made, working, exited>>

-----------------------------------------------------------------------------
(* PollWorker and Post. *)

Goto(w, l) == pc' = [pc EXCEPT ![w] = l]

Take(w) ==
  /\ pc[w] = "idle" /\ queue > 0
  /\ queue' = queue - 1
  /\ Goto(w, "build")
  /\ UNCHANGED <<stopped, collecting, reporter, reading, made, pool, body, signed,
                 attempt, hash, handled, exited>>

\* range over a channel that is closed and empty ends.
WorkerEnd(w) ==
  /\ pc[w] = "idle" /\ queue = 0 /\ reporter = "closed"
  /\ Goto(w, "end")
  /\ UNCHANGED <<stopped, collecting, reporting, pool, body, signed, attempt,
                 hash, handled, exited>>

\* buildReqBatchBody ranges over the live maps; empty ones are not sent.
Build(w) ==
  /\ pc[w] = "build"
  /\ IF current = 0
       THEN /\ Goto(w, "idle") /\ handled' = handled + 1
            /\ UNCHANGED <<body, signed>>
       ELSE /\ Goto(w, IF Key THEN "write" ELSE "send")
            /\ body' = [body EXCEPT ![w] = current]
            /\ signed' = [signed EXCEPT ![w] = ~Key]
            /\ UNCHANGED handled
  /\ attempt' = [attempt EXCEPT ![w] = 0]
  /\ UNCHANGED <<stopped, collecting, reporting, pool, hash, exited>>

\* A body JSON cannot express or a key too short to encrypt with ends the agent.
BuildFails(w) ==
  /\ pc[w] = "build" /\ current # 0
  /\ exited' = "fatal"
  /\ UNCHANGED <<stopped, collecting, reporting, working>>

\* Post signs with m.h, which all workers share: Write ...
HashWrite(w) ==
  /\ pc[w] = "write"
  /\ hash' = Append(hash, body[w])
  /\ Goto(w, "sum")
  /\ UNCHANGED <<stopped, collecting, reporting, pool, body, signed, attempt,
                 handled, exited>>

\* ... Sum ...
HashSum(w) ==
  /\ pc[w] = "sum"
  /\ signed' = [signed EXCEPT ![w] = (hash = <<body[w]>>)]
  /\ Goto(w, "reset")
  /\ UNCHANGED <<stopped, collecting, reporting, pool, body, attempt, hash,
                 handled, exited>>

\* Mutant of HashReset: m.h goes on from the last message.
HashKept(w) ==
  /\ pc[w] = "reset"
  /\ Goto(w, "send")
  /\ UNCHANGED <<stopped, collecting, reporting, pool, body, signed, attempt,
                 hash, handled, exited>>

\* ... and Reset.
HashReset(w) ==
  /\ pc[w] = "reset"
  /\ hash' = << >>
  /\ Goto(w, "send")
  /\ UNCHANGED <<stopped, collecting, reporting, pool, body, signed, attempt,
                 handled, exited>>

\* The server answers: any status will do, Post looks at none.
Answered(w) ==
  /\ pc[w] = "send"
  /\ Goto(w, "idle")
  /\ handled' = handled + 1
  /\ UNCHANGED <<stopped, collecting, reporting, pool, body, signed, attempt,
                 hash, exited>>

\* The request fails on its way there or back and is made again after a delay.
Retry(w) ==
  /\ pc[w] = "send" /\ attempt[w] < Retries
  /\ attempt' = [attempt EXCEPT ![w] = @ + 1]
  /\ UNCHANGED <<stopped, collecting, reporting, pool, pc, body, signed, hash,
                 handled, exited>>

\* After the last one log.Fatal ends the agent.
Fatal(w) ==
  /\ pc[w] = "send" /\ attempt[w] = Retries
  /\ exited' = "fatal"
  /\ UNCHANGED <<stopped, collecting, reporting, working>>

\* main: g.Wait returns once Monitor and PollStatsBatch have.
Exit ==
  /\ monitor = "end" /\ reporter = "end"
  /\ exited' = "clean"
  /\ UNCHANGED <<stopped, collecting, reporting, working>>

-----------------------------------------------------------------------------
\* What the agent's goroutines do on their own, ticks excepted.
Worker(w) ==
  \/ Take(w) \/ WorkerEnd(w) \/ Build(w)
  \/ HashWrite(w) \/ HashSum(w) \/ HashReset(w)

Next ==
  /\ exited = "no"
  /\ \/ Signal
     \/ Sample \/ Store \/ SamplePanics \/ MonitorStop \/ MonitorEnd
     \/ Tick \/ Enqueue \/ ReporterStop \/ CloseQueue \/ ReporterEnd
     \/ \E w \in Workers : \/ Worker(w) \/ Answered(w) \/ Retry(w)
                          \/ Fatal(w) \/ BuildFails(w)
     \/ Exit

Spec == Init /\ [][Next]_vars

(***************************************************************************)
(* Goroutines that can run do run.  The select of Monitor and that of      *)
(* PollStatsBatch take the done context in the end, although ticks come.   *)
(***************************************************************************)
Running(A) == exited = "no" /\ A

AgentFairness ==
  /\ WF_vars(Running(Store)) /\ WF_vars(Running(MonitorStop))
  /\ WF_vars(Running(MonitorEnd))
  /\ WF_vars(Running(Enqueue)) /\ WF_vars(Running(ReporterStop))
  /\ WF_vars(Running(CloseQueue)) /\ WF_vars(Running(ReporterEnd))
  /\ \A w \in Workers : WF_vars(Running(Worker(w)))
  /\ WF_vars(Running(Exit))

\* The server, or the network in its place, lets every request end.  The agent
\* sees to it by no timeout; Delivery shows when it holds.
NetworkFairness ==
  \A w \in Workers : WF_vars(Running(Answered(w) \/ Retry(w) \/ Fatal(w)))

-----------------------------------------------------------------------------
(* Properties. *)

\* Every variable has its type; the channel never holds more than it can.
TypeOK ==
  /\ stopped \in BOOLEAN
  /\ monitor \in {"run", "drain", "end"}
  /\ samples \subseteq 1 .. taken /\ taken \in 0 .. MaxSamples
  /\ current \in 0 .. taken
  /\ reporter \in {"run", "drain", "closed", "end"}
  /\ reading \in Nat /\ queue \in 0 .. ChCap
  /\ pool \in Pools
  /\ pc \in [Workers -> {"idle", "build", "write", "sum", "reset", "send", "end"}]
  /\ body \in [Workers -> 0 .. taken]
  /\ signed \in [Workers -> BOOLEAN]
  /\ attempt \in [Workers -> 0 .. Retries]
  /\ hash \in Seq(1 .. taken)
  /\ made \in 0 .. MaxReports /\ handled \in Nat
  /\ exited \in {"no", "clean", "fatal"}

Busy == {w \in Workers : pc[w] \notin {"idle", "end"}}

\* No report is dropped between its tick and its last attempt: it is with a
\* readStats, in the channel or with one worker, and a graceful shutdown closes
\* the channel under no readStats and leaves none of them behind.
NothingDropped ==
  /\ made = reading + queue + Cardinality(Busy) + handled
  /\ reporter \in {"closed", "end"} => reading = 0
  /\ exited = "clean" => handled = made

\* With one worker a request carries the signature of its own body, whatever
\* was sent before.
OneSignerSigns ==
  Cardinality(pool) = 1 => \A w \in pool : pc[w] = "send" => signed[w]

\* A request carries the signature of its own body.
SignatureMatches == \A w \in Workers : pc[w] = "send" => signed[w]

\* After a signal the agent ends.
ExitsOnSignal == stopped ~> exited # "no"
=============================================================================
