-------------------------- MODULE MetricsAPI_proofs --------------------------
(***************************************************************************)
(* Proofs about MetricsAPI, for any clients, messages, configurations and  *)
(* number of requests and retries: the types, that a refused request       *)
(* leaves no trace, that one answered with 200 has been applied as a whole *)
(* and how often, that counters add up, and that answers can be read.      *)
(***************************************************************************)
EXTENDS MetricsAPI, Metrics_proofs

-----------------------------------------------------------------------------
(* What a call of the repository does. *)

\* It succeeds; or, with PostgreSQL only, it has an effect nobody is told of, or
\* fails without one.
LEMMA OutcomesAre ==
  ASSUME NEW v, NEW r, NEW o \in Outcomes(v, r)
  PROVE  \/ o[1] /\ o[2] = "ok" /\ InDoubt(o) = 0
         \/ /\ conf.backend # "memory"
            /\ o[1] /\ o[2] \in {"error", "again"} /\ InDoubt(o) = 1
         \/ /\ conf.backend # "memory"
            /\ ~o[1] /\ o[2] = "error" /\ InDoubt(o) = 0
<1>1. \/ o = <<TRUE, "ok">>
      \/ /\ conf.backend # "memory"
         /\ \/ o = <<TRUE, "error">> \/ o = <<TRUE, "again">>
            \/ o = <<FALSE, "error">>
  <2>1. CASE conf.backend = "memory"
    BY <2>1 DEF Outcomes
  <2>2. CASE conf.backend # "memory"
    BY <2>2 DEF Outcomes
  <2> QED
    BY <2>1, <2>2
<1>2. CASE o = <<TRUE, "ok">>
  BY <1>2 DEF InDoubt
<1>3. CASE conf.backend # "memory" /\ o = <<TRUE, "error">>
  BY <1>3 DEF InDoubt
<1>4. CASE conf.backend # "memory" /\ o = <<TRUE, "again">>
  BY <1>4 DEF InDoubt
<1>5. CASE conf.backend # "memory" /\ o = <<FALSE, "error">>
  BY <1>5 DEF InDoubt
<1> QED
  BY <1>1, <1>2, <1>3, <1>4, <1>5

LEMMA GaugesCalled ==
  ASSUME NEW c \in Clients, SetGauges(c)
  PROVE  /\ at[c] = "gauges"
         /\ UNCHANGED <<conf, counters, msg, batch, sends, total, told, floor,
                        seen>>
         /\ \/ /\ batch[c].g = EmptyMap
               /\ UNCHANGED <<gauges, effect, commits, lost, code>>
               /\ at' = [at EXCEPT ![c] = "counters"]
            \/ /\ batch[c].g # EmptyMap
               /\ gauges' = ApplyBatch("set", gauges, batch[c].g)
               /\ effect' = [effect EXCEPT ![c].g = batch[c].g]
               /\ commits' = [commits EXCEPT ![c].g = @ + 1]
               /\ \/ /\ lost' = [lost EXCEPT ![c].g = @ + 0]
                     /\ code' = [code EXCEPT ![c] = @]
                     /\ at' = [at EXCEPT ![c] = "counters"]
                  \/ /\ lost' = [lost EXCEPT ![c].g = @ + 1]
                     /\ conf.backend # "memory"
                     /\ \/ /\ code' = [code EXCEPT ![c] = 500]
                           /\ at' = [at EXCEPT ![c] = "answer"]
                        \/ /\ code' = [code EXCEPT ![c] = @]
                           /\ at' = [at EXCEPT ![c] = "gauges"]
            \/ /\ UNCHANGED <<gauges, effect, commits>>
               /\ lost' = [lost EXCEPT ![c].g = @ + 0]
               /\ conf.backend # "memory"
               /\ code' = [code EXCEPT ![c] = 500]
               /\ at' = [at EXCEPT ![c] = "answer"]
<1>1. /\ at[c] = "gauges"
      /\ UNCHANGED <<conf, counters, msg, batch, sends, total, told, floor, seen>>
  BY DEF SetGauges
<1>2. CASE batch[c].g = EmptyMap
  BY <1>1, <1>2 DEF SetGauges, history
<1>3. CASE batch[c].g # EmptyMap
  <2>1. PICK o \in Outcomes(FALSE, lost[c].g) :
          /\ IF o[1]
               THEN /\ gauges' = ApplyBatch("set", gauges, batch[c].g)
                    /\ effect' = [effect EXCEPT ![c].g = batch[c].g]
                    /\ commits' = [commits EXCEPT ![c].g = @ + 1]
               ELSE UNCHANGED <<gauges, effect, commits>>
          /\ lost' = [lost EXCEPT ![c].g = @ + InDoubt(o)]
          /\ code' = [code EXCEPT ![c] = IF o[2] = "error" THEN 500 ELSE @]
          /\ at' = [at EXCEPT ![c] = CASE o[2] = "ok" -> "counters"
                                       [] o[2] = "error" -> "answer"
                                       [] o[2] = "again" -> "gauges"]
    BY <1>3 DEF SetGauges
  <2>2. CASE o[1] /\ o[2] = "ok" /\ InDoubt(o) = 0
    BY <1>1, <1>3, <2>1, <2>2
  <2>3. CASE /\ conf.backend # "memory"
             /\ o[1] /\ o[2] = "error" /\ InDoubt(o) = 1
    BY <1>1, <1>3, <2>1, <2>3
  <2>4. CASE /\ conf.backend # "memory"
             /\ o[1] /\ o[2] = "again" /\ InDoubt(o) = 1
    BY <1>1, <1>3, <2>1, <2>4
  <2>5. CASE /\ conf.backend # "memory"
             /\ ~o[1] /\ o[2] = "error" /\ InDoubt(o) = 0
    BY <1>1, <2>1, <2>5
  <2> QED
    BY <2>2, <2>3, <2>4, <2>5, OutcomesAre
<1> QED
  BY <1>2, <1>3

LEMMA CountersCalled ==
  ASSUME NEW c \in Clients, SetCounters(c)
  PROVE  /\ at[c] = "counters"
         /\ UNCHANGED <<conf, gauges, msg, batch, sends, told, floor, seen>>
         /\ \/ /\ batch[c].c = EmptyMap
               /\ UNCHANGED <<counters, effect, commits, lost, code, total>>
               /\ at' = [at EXCEPT ![c] = "answer"]
            \/ /\ batch[c].c # EmptyMap
               /\ counters' = ApplyBatch("accum", counters, batch[c].c)
               /\ effect' = [effect EXCEPT ![c].c = batch[c].c]
               /\ commits' = [commits EXCEPT ![c].c = @ + 1]
               /\ total' = Plus(total, Promised(msg[c]).c)
               /\ \/ /\ lost' = [lost EXCEPT ![c].c = @ + 0]
                     /\ code' = [code EXCEPT ![c] = @]
                     /\ at' = [at EXCEPT ![c] = "answer"]
                  \/ /\ lost' = [lost EXCEPT ![c].c = @ + 1]
                     /\ conf.backend # "memory"
                     /\ \/ /\ code' = [code EXCEPT ![c] = 500]
                           /\ at' = [at EXCEPT ![c] = "answer"]
                        \/ /\ code' = [code EXCEPT ![c] = @]
                           /\ at' = [at EXCEPT ![c] = "counters"]
            \/ /\ UNCHANGED <<counters, effect, commits, total>>
               /\ lost' = [lost EXCEPT ![c].c = @ + 0]
               /\ conf.backend # "memory"
               /\ code' = [code EXCEPT ![c] = 500]
               /\ at' = [at EXCEPT ![c] = "answer"]
<1>1. /\ at[c] = "counters"
      /\ UNCHANGED <<conf, gauges, msg, batch, sends, told, floor, seen>>
  BY DEF SetCounters
<1>2. CASE batch[c].c = EmptyMap
  BY <1>1, <1>2 DEF SetCounters, history
<1>3. CASE batch[c].c # EmptyMap
  <2>1. PICK o \in Outcomes(Overflows(batch[c].c), lost[c].c) :
          /\ IF o[1]
               THEN /\ counters' = ApplyBatch("accum", counters, batch[c].c)
                    /\ effect' = [effect EXCEPT ![c].c = batch[c].c]
                    /\ commits' = [commits EXCEPT ![c].c = @ + 1]
                    /\ total' = Plus(total, Promised(msg[c]).c)
               ELSE UNCHANGED <<counters, effect, commits, total>>
          /\ lost' = [lost EXCEPT ![c].c = @ + InDoubt(o)]
          /\ code' = [code EXCEPT ![c] = IF o[2] = "error" THEN 500 ELSE @]
          /\ at' = [at EXCEPT ![c] = IF o[2] = "again" THEN "counters"
                                     ELSE "answer"]
    BY <1>3 DEF SetCounters
  <2>2. CASE o[1] /\ o[2] = "ok" /\ InDoubt(o) = 0
    BY <1>1, <1>3, <2>1, <2>2
  <2>3. CASE /\ conf.backend # "memory"
             /\ o[1] /\ o[2] = "error" /\ InDoubt(o) = 1
    BY <1>1, <1>3, <2>1, <2>3
  <2>4. CASE /\ conf.backend # "memory"
             /\ o[1] /\ o[2] = "again" /\ InDoubt(o) = 1
    BY <1>1, <1>3, <2>1, <2>4
  <2>5. CASE /\ conf.backend # "memory"
             /\ ~o[1] /\ o[2] = "error" /\ InDoubt(o) = 0
    BY <1>1, <2>1, <2>5
  <2> QED
    BY <2>2, <2>3, <2>4, <2>5, OutcomesAre
<1> QED
  BY <1>2, <1>3

-----------------------------------------------------------------------------
(* A refused request leaves no trace. *)

\* What is kept of each client is a function of them.
PerClient ==
  /\ DOMAIN at = Clients /\ DOMAIN code = Clients
  /\ DOMAIN msg = Clients /\ DOMAIN effect = Clients

\* The codes a request may have that has had an effect.
Affecting(c) ==
  \/ code[c] = 200
  \/ code[c] = 500 /\ (DecryptFails(msg[c]) \/ conf.backend # "memory")

\* A handler that is about to call the repository was let through by all
\* middlewares, with a failed decryption at most, and has refused nothing.
Passed(c) ==
  code[c] = 200 \/ (code[c] = 500 /\ DecryptFails(msg[c]))

NoTraceYet ==
  \A c \in Clients :
    /\ at[c] \in {"idle", "sent"} => effect[c] = Nothing
    /\ at[c] \in {"gauges", "counters"} => Passed(c)
    /\ at[c] = "answer" => effect[c] = Nothing \/ Affecting(c)

IInv == PerClient /\ NoTraceYet

\* It is enough to look at the client that takes the step.
LEMMA OneClient ==
  ASSUME IInv, NEW c \in Clients, UNCHANGED conf, PerClient',
         \A d \in Clients \ {c} :
           /\ at'[d] = at[d] /\ code'[d] = code[d]
           /\ msg'[d] = msg[d] /\ effect'[d] = effect[d],
         at'[c] \in {"idle", "sent"} => effect'[c] = Nothing,
         at'[c] \in {"gauges", "counters"} => Passed(c)',
         at'[c] = "answer" => effect'[c] = Nothing \/ Affecting(c)'
  PROVE  IInv'
BY DEF IInv, NoTraceYet, Passed, Affecting, DecryptFails, Update

LEMMA StepIInv == IInv /\ [Next]_vars => IInv'
<1> SUFFICES ASSUME IInv, [Next]_vars
             PROVE  IInv'
  OBVIOUS
<1>1. ASSUME NEW c \in Clients, NEW m \in Messages, Send(c, m)
      PROVE  IInv'
  <2>1. PerClient' /\ at'[c] = "sent" /\ effect'[c] = Nothing
    BY <1>1 DEF Send, history, IInv, PerClient, NoTraceYet
  <2>2. \A d \in Clients \ {c} : /\ at'[d] = at[d] /\ code'[d] = code[d]
                                 /\ msg'[d] = msg[d] /\ effect'[d] = effect[d]
    BY <1>1 DEF Send, history, IInv, PerClient
  <2>3. UNCHANGED conf
    BY <1>1 DEF Send, history
  <2> QED
    BY <2>1, <2>2, <2>3, OneClient
<1>2. ASSUME NEW c \in Clients, HandleUpdate(c)
      PROVE  IInv'
  <2> DEFINE m == msg[c]
             v == IF Stopped(m) # 0 THEN Refuse(Stopped(m))
                  ELSE IF DecryptPanics(m) THEN Refuse(Aborted)
                  ELSE Judge(m)
  <2>1. /\ at' = [at EXCEPT ![c] = IF v.code = 200 THEN "gauges" ELSE "answer"]
        /\ code' = [code EXCEPT ![c] =
                      IF Stopped(m) = 0 /\ DecryptFails(m) /\ v.code # Aborted
                        THEN 500 ELSE v.code]
        /\ at[c] = "sent" /\ UNCHANGED <<conf, msg, effect>>
    BY <1>2 DEF HandleUpdate, history
  <2> HIDE DEF v
  <2>2. PerClient' /\ effect'[c] = Nothing
    BY <2>1 DEF IInv, PerClient, NoTraceYet
  <2>3. \A d \in Clients \ {c} : /\ at'[d] = at[d] /\ code'[d] = code[d]
                                 /\ msg'[d] = msg[d] /\ effect'[d] = effect[d]
    BY <2>1 DEF IInv, PerClient
  <2>4. at'[c] \in {"gauges", "answer"}
    BY <2>1 DEF IInv, PerClient
  <2>5. at'[c] = "gauges" => Passed(c)'
    BY <2>1 DEF IInv, PerClient, Passed, DecryptFails, Update
  <2> QED
    BY <2>1, <2>2, <2>3, <2>4, <2>5, OneClient
<1>3. ASSUME NEW c \in Clients, SetGauges(c)
      PROVE  IInv'
  <2>1. at[c] = "gauges" /\ Passed(c) /\ UNCHANGED <<conf, msg>>
    BY <1>3, GaugesCalled DEF IInv, NoTraceYet
  <2>2. /\ \E x : at' = [at EXCEPT ![c] = x]
        /\ code' = code \/ \E x : code' = [code EXCEPT ![c] = x]
        /\ effect' = effect \/ effect' = [effect EXCEPT ![c].g = batch[c].g]
    BY <1>3, GaugesCalled
  <2>3. \/ at'[c] \in {"gauges", "counters"} /\ code'[c] = code[c]
        \/ at'[c] = "answer" /\ code'[c] = 500 /\ conf.backend # "memory"
    <3>1. \/ /\ \/ code' = code \/ code' = [code EXCEPT ![c] = @]
             /\ \/ at' = [at EXCEPT ![c] = "gauges"]
                \/ at' = [at EXCEPT ![c] = "counters"]
          \/ /\ code' = [code EXCEPT ![c] = 500]
             /\ at' = [at EXCEPT ![c] = "answer"] /\ conf.backend # "memory"
      BY <1>3, GaugesCalled
    <3> QED
      BY <3>1 DEF IInv, PerClient
  <2>4. at'[c] \in {"gauges", "counters"} => Passed(c)'
    BY <2>1, <2>3 DEF Passed, DecryptFails, Update
  <2>5. at'[c] = "answer" => Affecting(c)'
    BY <2>1, <2>3 DEF Affecting
  <2>6. PerClient' /\ \A d \in Clients \ {c} :
                        /\ at'[d] = at[d] /\ code'[d] = code[d]
                        /\ msg'[d] = msg[d] /\ effect'[d] = effect[d]
    BY <2>1, <2>2 DEF IInv, PerClient
  <2> QED
    BY <2>1, <2>3, <2>4, <2>5, <2>6, OneClient
<1>4. ASSUME NEW c \in Clients, SetCounters(c)
      PROVE  IInv'
  <2>1. at[c] = "counters" /\ Passed(c) /\ UNCHANGED <<conf, msg>>
    BY <1>4, CountersCalled DEF IInv, NoTraceYet
  <2>2. /\ \E x : at' = [at EXCEPT ![c] = x]
        /\ code' = code \/ \E x : code' = [code EXCEPT ![c] = x]
        /\ effect' = effect \/ effect' = [effect EXCEPT ![c].c = batch[c].c]
    BY <1>4, CountersCalled
  <2>3. /\ at'[c] \in {"counters", "answer"}
        /\ \/ code'[c] = code[c]
           \/ at'[c] = "answer" /\ code'[c] = 500 /\ conf.backend # "memory"
    <3>1. \/ /\ \/ code' = code \/ code' = [code EXCEPT ![c] = @]
             /\ \/ at' = [at EXCEPT ![c] = "counters"]
                \/ at' = [at EXCEPT ![c] = "answer"]
          \/ /\ code' = [code EXCEPT ![c] = 500]
             /\ at' = [at EXCEPT ![c] = "answer"] /\ conf.backend # "memory"
      BY <1>4, CountersCalled
    <3> QED
      BY <3>1 DEF IInv, PerClient
  <2>4. at'[c] = "counters" => Passed(c)'
    BY <2>1, <2>3 DEF Passed, DecryptFails, Update
  <2>5. at'[c] = "answer" => Affecting(c)'
    BY <2>1, <2>3 DEF Affecting, Passed, DecryptFails, Update
  <2>6. PerClient' /\ \A d \in Clients \ {c} :
                        /\ at'[d] = at[d] /\ code'[d] = code[d]
                        /\ msg'[d] = msg[d] /\ effect'[d] = effect[d]
    BY <2>1, <2>2 DEF IInv, PerClient
  <2> QED
    BY <2>1, <2>3, <2>4, <2>5, <2>6, OneClient
<1>5. ASSUME NEW c \in Clients, HandleValue(c)
      PROVE  IInv'
  <2>1. /\ at[c] = "sent" /\ at' = [at EXCEPT ![c] = "answer"]
        /\ UNCHANGED <<conf, msg, effect>>
        /\ \E answer : code' = [code EXCEPT ![c] = answer]
    BY <1>5 DEF HandleValue, history
  <2>2. PerClient' /\ at'[c] = "answer" /\ effect'[c] = Nothing
    BY <2>1 DEF IInv, PerClient, NoTraceYet
  <2>3. \A d \in Clients \ {c} : /\ at'[d] = at[d] /\ code'[d] = code[d]
                                 /\ msg'[d] = msg[d] /\ effect'[d] = effect[d]
    BY <2>1 DEF IInv, PerClient
  <2> QED
    BY <2>1, <2>2, <2>3, OneClient
<1>6. ASSUME NEW c \in Clients, Answer(c)
      PROVE  IInv'
  <2>1. PerClient' /\ at'[c] = "idle" /\ effect'[c] = Nothing
    BY <1>6 DEF Answer, IInv, PerClient
  <2>2. \A d \in Clients \ {c} : /\ at'[d] = at[d] /\ code'[d] = code[d]
                                 /\ msg'[d] = msg[d] /\ effect'[d] = effect[d]
    BY <1>6 DEF Answer, IInv, PerClient
  <2>3. UNCHANGED conf
    BY <1>6 DEF Answer
  <2> QED
    BY <2>1, <2>2, <2>3, OneClient
<1>7. CASE UNCHANGED vars
  BY <1>7 DEF vars, history, IInv, PerClient, NoTraceYet, Passed, Affecting,
              DecryptFails, Update
<1> QED
  BY <1>1, <1>2, <1>3, <1>4, <1>5, <1>6, <1>7 DEF Next

\* A client that is told 400 or 404, whose connection breaks, or that is told
\* 500 by a server with the in-memory repository which could read the message,
\* has changed nothing, whatever others do meanwhile.
THEOREM NoTrace == Spec => []RefusedLeavesNoTrace
<1>1. Init => IInv
  BY DEF Init, IInv, PerClient, NoTraceYet
<1>2. IInv => RefusedLeavesNoTrace
  BY DEF IInv, NoTraceYet, Affecting, RefusedLeavesNoTrace, Aborted
<1> QED
  BY <1>1, <1>2, StepIInv, PTL DEF Spec

-----------------------------------------------------------------------------
(* The loop over a batch, and what it promises. *)

\* The maps there are after each turn of the loop exist, one after the other.
LEMMA Turns ==
  ASSUME NEW rs, Len(rs) \in Nat
  PROVE  \E maps : /\ maps[0] = Nothing
                   /\ \A i \in 1 .. Len(rs) :
                        maps[i] = Aggregate(maps[i - 1], rs[i])
                   /\ Aggregated(rs) = maps[Len(rs)]
<1> DEFINE n == Len(rs)
           Are(f, k) == f = [i \in 0 .. k |-> IF i = 0 THEN Nothing
                                             ELSE Aggregate(f[i - 1], rs[i])]
           Reached == {k \in 0 .. n : \E f : Are(f, k)}
<1>1. 0 \in Reached
  <2> DEFINE f == [i \in 0 .. 0 |-> Nothing]
  <2>1. Are(f, 0)
    <3>1. \A i \in 0 .. 0 : i = 0
      OBVIOUS
    <3> QED
      BY <3>1
  <2>2. \E h : Are(h, 0)
    <3> HIDE DEF Are, f
    <3> QED
      BY <2>1
  <2> QED
    BY <2>2
<1>2. ASSUME NEW k \in 0 .. n - 1, k \in Reached
      PROVE  k + 1 \in Reached
  <2>1. PICK f : Are(f, k)
    BY <1>2
  <2> DEFINE g == [i \in 0 .. k + 1 |-> IF i <= k THEN f[i]
                                       ELSE Aggregate(f[k], rs[k + 1])]
  <2>2. \A i \in 0 .. k : f[i] = IF i = 0 THEN Nothing
                                 ELSE Aggregate(f[i - 1], rs[i])
    BY <2>1
  <2>3. ASSUME NEW i \in 0 .. k + 1
        PROVE  g[i] = IF i = 0 THEN Nothing ELSE Aggregate(g[i - 1], rs[i])
    <3>1. CASE i <= k
      <4>1. g[i] = f[i] /\ (i # 0 => g[i - 1] = f[i - 1])
        BY <3>1
      <4> HIDE DEF g
      <4> QED
        BY <2>2, <3>1, <4>1
    <3>2. CASE ~(i <= k)
      <4>1. i = k + 1 /\ i # 0 /\ i - 1 = k
        BY <3>2
      <4>2. g[i] = Aggregate(f[k], rs[k + 1]) /\ g[k] = f[k]
        BY <4>1
      <4> HIDE DEF g
      <4> QED
        BY <4>1, <4>2
    <3> QED
      BY <3>1, <3>2
  <2>4. Are(g, k + 1)
    <3>1. g = [i \in 0 .. k + 1 |-> g[i]]
      OBVIOUS
    <3> HIDE DEF g
    <3> QED
      BY <2>3, <3>1
  <2>5. \E h : Are(h, k + 1)
    <3> HIDE DEF Are, g
    <3> QED
      BY <2>4
  <2> QED
    BY <2>5
<1>3. n \in Reached
  <2>1. n \in Nat
    OBVIOUS
  <2>2. \A k \in 0 .. n - 1 : k \in Reached => k + 1 \in Reached
    BY <1>2
  <2> HIDE DEF Reached, n
  <2> QED
    BY <1>1, <2>1, <2>2, UpTo
<1>4. \E f : Are(f, n)
  BY <1>3
<1> DEFINE maps == CHOOSE f : Are(f, n)
<1>5. Are(maps, n)
  BY <1>4
<1>6. Aggregated(rs) = maps[n]
  BY DEF Aggregated
<1> HIDE DEF maps
<1>7. maps[0] = Nothing /\ \A i \in 1 .. n : maps[i] = Aggregate(maps[i - 1], rs[i])
  BY <1>5
<1> QED
  BY <1>6, <1>7

Maps == [g : Map, c : Map]

\* Records none of which makes the handler panic.
Usable(rs) ==
  /\ Len(rs) \in Nat
  /\ \A i \in 1 .. Len(rs) :
       /\ rs[i].id \in Names \cup {NoName}
       /\ rs[i].type \in {"gauge", "counter", "other"}
       /\ rs[i].id # NoName /\ rs[i].type # "other" => rs[i].val \in Val

\* Which of the first k records are of type t and have name n, and the sum of
\* the deltas among them.
Among(rs, k, n, t) == {i \in 1 .. k : rs[i].id = n /\ rs[i].type = t}
Deltas(rs, k, n) ==
  [i \in 1 .. Len(rs) |->
     IF i \in Among(rs, k, n, "counter") THEN rs[i].val ELSE 0]
DeltaUnits(rs, k, n) == Units(1 .. Len(rs), Deltas(rs, k, n))

LastGauge(rs, k, n, v) ==
  \/ Among(rs, k, n, "gauge") = {} /\ v = Absent
  \/ \E i \in Among(rs, k, n, "gauge") :
       /\ \A j \in Among(rs, k, n, "gauge") : j <= i
       /\ v = rs[i].val

SumOfDeltas(rs, k, n, v) ==
  /\ IsFiniteSet(DeltaUnits(rs, k, n))
  /\ v = IF Among(rs, k, n, "counter") = {} THEN Absent
         ELSE Cardinality(DeltaUnits(rs, k, n)) % W

\* The maps m keep the promise for the first k records.
Keep(rs, k, m) ==
  /\ m \in Maps
  /\ \A n \in Names : /\ LastGauge(rs, k, n, m.g[n])
                      /\ SumOfDeltas(rs, k, n, m.c[n])

LEMMA DeltasType ==
  ASSUME NEW rs, Usable(rs), NEW n \in Names, NEW k \in 0 .. Len(rs)
  PROVE  Deltas(rs, k, n) \in [1 .. Len(rs) -> Nat]
<1>1. ASSUME NEW i \in 1 .. Len(rs)
      PROVE  (IF i \in Among(rs, k, n, "counter") THEN rs[i].val ELSE 0) \in Nat
  <2>1. i \in Among(rs, k, n, "counter") => rs[i].val \in Val
    BY MetricsAPIAssumption DEF Usable, Among
  <2> QED
    BY <2>1, Residue
<1> QED
  BY <1>1 DEF Deltas

\* One turn more, for the names and types that are not its record's, and for
\* those that are.
LEMMA AmongNext ==
  ASSUME NEW rs, NEW n, NEW t, NEW k \in Nat, NEW j \in Nat, k = j - 1
  PROVE  /\ rs[j].id # n \/ rs[j].type # t => Among(rs, j, n, t) = Among(rs, k, n, t)
         /\ rs[j].id = n /\ rs[j].type = t =>
              /\ Among(rs, j, n, t) = Among(rs, k, n, t) \cup {j}
              /\ j \notin Among(rs, k, n, t)
<1>1. \A i : i \in 1 .. j <=> i \in 1 .. k \/ i = j
  OBVIOUS
<1>2. j \notin 1 .. k
  OBVIOUS
<1> QED
  BY <1>1, <1>2 DEF Among

LEMMA DeltasSame ==
  ASSUME NEW rs, NEW n, NEW k \in Nat, NEW j \in Nat, k = j - 1, NEW v,
         ~(rs[j].id = n /\ rs[j].type = "counter"),
         SumOfDeltas(rs, k, n, v)
  PROVE  SumOfDeltas(rs, j, n, v)
<1>1. Among(rs, j, n, "counter") = Among(rs, k, n, "counter")
  BY AmongNext
<1> QED
  BY <1>1 DEF SumOfDeltas, DeltaUnits, Deltas

LEMMA DeltasMore ==
  ASSUME NEW rs, Usable(rs), NEW n \in Names, NEW k \in Nat, k < Len(rs),
         NEW j \in Nat, k = j - 1, NEW v \in Val \cup {Absent}, rs[j].id = n,
         rs[j].type = "counter", SumOfDeltas(rs, k, n, v)
  PROVE  SumOfDeltas(rs, j, n, Merge("accum", v, rs[j].val))
<1> DEFINE d == rs[j].val
           f == Deltas(rs, k, n)
           g == Deltas(rs, j, n)
           D == 1 .. Len(rs)
<1>1. d \in Val /\ d \in Nat /\ d % W = d /\ j \in D
  <2>1. j \in D /\ n # NoName
    BY MetricsAPIAssumption DEF Usable
  <2>2. d \in Val
    BY <2>1 DEF Usable
  <2>3. d \in Nat /\ d % W = d
    BY <2>2, Below
  <2> QED
    BY <2>1, <2>2, <2>3
<1>2. /\ Among(rs, j, n, "counter") = Among(rs, k, n, "counter") \cup {j}
      /\ j \notin Among(rs, k, n, "counter")
  <2> HIDE DEF d, f, g, D
  <2>1. rs[j].id = n /\ rs[j].type = "counter"
    OBVIOUS
  <2> QED
    BY <2>1, AmongNext
<1>3. f \in [D -> Nat] /\ g \in [D -> Nat]
  <2>1. k \in 0 .. Len(rs) /\ j \in 0 .. Len(rs)
    BY DEF Usable
  <2> QED
    BY <2>1, DeltasType
<1>4. f[j] = 0 /\ g[j] = d /\ \A i \in D \ {j} : g[i] = f[i]
  BY <1>1, <1>2 DEF Deltas
<1>5. IsFiniteSet(Units(D, f)) /\ Units(D, f) = DeltaUnits(rs, k, n)
      /\ Units(D, g) = DeltaUnits(rs, j, n)
  BY DEF SumOfDeltas, DeltaUnits
<1>6. Among(rs, k, n, "counter") = {} => Cardinality(Units(D, f)) = 0
  <2> SUFFICES ASSUME Among(rs, k, n, "counter") = {}
               PROVE  Cardinality(Units(D, f)) = 0
    OBVIOUS
  <2>1. \A i \in D : f[i] = 0
    BY DEF Deltas
  <2> HIDE DEF D, f
  <2> QED
    BY <2>1, NoUnits
<1> HIDE DEF D, f, g
<1>7. /\ IsFiniteSet(Units(D, g)) /\ Cardinality(Units(D, f)) \in Nat
      /\ Cardinality(Units(D, g)) + 0 = Cardinality(Units(D, f)) + d
  <2> HIDE DEF d
  <2>1. f \in [D -> Nat] /\ g \in [D -> Nat] /\ IsFiniteSet(Units(D, f))
    BY <1>3, <1>5
  <2>2. ASSUME NEW e \in D, \A i \in D \ {e} : g[i] = f[i]
        PROVE  /\ IsFiniteSet(Units(D, g)) /\ Cardinality(Units(D, f)) \in Nat
               /\ Cardinality(Units(D, g)) + f[e] = Cardinality(Units(D, f)) + g[e]
    BY ONLY <2>1, <2>2, UnitsChange
  <2>3. j \in D /\ \A i \in D \ {j} : g[i] = f[i]
    BY <1>1, <1>4
  <2>4. Cardinality(Units(D, g)) + f[j] = Cardinality(Units(D, f)) + g[j]
    BY <2>2, <2>3, Zenon
  <2> QED
    BY <1>4, <2>2, <2>3, <2>4
<1>8. Merge("accum", v, d) = Cardinality(Units(D, g)) % W
  <2>1. CASE Among(rs, k, n, "counter") = {}
    <3>1. v = Absent
      BY <2>1 DEF SumOfDeltas
    <3>2. Cardinality(Units(D, g)) \in Nat
      BY <1>7, FS_CardinalityType
    <3>3. Cardinality(Units(D, g)) = d
      BY <1>1, <1>6, <1>7, <2>1, <3>2
    <3> QED
      BY <1>1, <3>1, <3>3 DEF Merge
  <2>2. CASE Among(rs, k, n, "counter") # {}
    <3>1. v = Cardinality(Units(D, f)) % W
      BY <1>5, <2>2 DEF SumOfDeltas
    <3>2. v \in Val /\ v # Absent
      BY <1>7, <3>1, Residue
    <3>3. Merge("accum", v, d) = (v + d) % W
      BY <3>2 DEF Merge
    <3>4. (v + d) % W = (Cardinality(Units(D, f)) + d) % W
      BY <1>1, <1>7, <3>1, SumWraps
    <3>5. Cardinality(Units(D, g)) = Cardinality(Units(D, f)) + d
      BY <1>7, FS_CardinalityType
    <3> QED
      BY <3>3, <3>4, <3>5
  <2> QED
    BY <2>1, <2>2
<1> QED
  BY <1>2, <1>5, <1>7, <1>8 DEF SumOfDeltas, d

LEMMA GaugeSame ==
  ASSUME NEW rs, NEW n, NEW k \in Nat, NEW j \in Nat, k = j - 1, NEW v,
         ~(rs[j].id = n /\ rs[j].type = "gauge"), LastGauge(rs, k, n, v)
  PROVE  LastGauge(rs, j, n, v)
<1>1. Among(rs, j, n, "gauge") = Among(rs, k, n, "gauge")
  BY AmongNext
<1> QED
  BY <1>1 DEF LastGauge

LEMMA GaugeMore ==
  ASSUME NEW rs, NEW n, NEW k \in Nat, NEW j \in Nat, k = j - 1,
         rs[j].id = n, rs[j].type = "gauge"
  PROVE  LastGauge(rs, j, n, rs[j].val)
<1>1. j \in Among(rs, j, n, "gauge") /\ \A i \in Among(rs, j, n, "gauge") : i <= j
  BY DEF Among
<1> QED
  BY <1>1 DEF LastGauge

\* Each turn of the loop keeps the promise.
LEMMA TurnKeeps ==
  ASSUME NEW rs, Usable(rs), NEW k \in Nat, NEW j \in Nat, k = j - 1,
         k < Len(rs), NEW m, Keep(rs, k, m)
  PROVE  Keep(rs, j, Aggregate(m, rs[j]))
<1> DEFINE r == rs[j]
           new == Aggregate(m, r)
<1> SUFFICES Keep(rs, j, new)
  OBVIOUS
<1>1. /\ r.id \in Names \cup {NoName} /\ r.type \in {"gauge", "counter", "other"}
      /\ r.id # NoName /\ r.type # "other" => r.val \in Val
  BY DEF Usable
<1>2. /\ m.g \in Map /\ m.c \in Map /\ m = [g |-> m.g, c |-> m.c]
      /\ \A n \in Names : LastGauge(rs, k, n, m.g[n]) /\ SumOfDeltas(rs, k, n, m.c[n])
  BY DEF Keep, Maps
<1>3. NoName \notin Names
  BY MetricsAPIAssumption
<1>4. CASE r.id = NoName \/ r.type = "other"
  <2>1. new = m
    BY <1>4 DEF Aggregate
  <2>2. ASSUME NEW n \in Names
        PROVE  LastGauge(rs, j, n, m.g[n]) /\ SumOfDeltas(rs, j, n, m.c[n])
    <3>1. ~(rs[j].id = n /\ rs[j].type = "gauge")
      BY <1>3, <1>4
    <3>2. ~(rs[j].id = n /\ rs[j].type = "counter")
      BY <1>3, <1>4
    <3> QED
      BY <1>2, <3>1, <3>2, GaugeSame, DeltasSame
  <2> HIDE DEF new, r
  <2> QED
    BY <2>1, <2>2 DEF Keep
<1>5. CASE r.id \in Names /\ r.type = "gauge"
  <2>1. /\ new.g = [m.g EXCEPT ![r.id] = r.val] /\ new.c = m.c
        /\ new = [g |-> new.g, c |-> new.c]
    BY <1>2, <1>3, <1>5 DEF Aggregate
  <2>2. r.val \in Val
    BY <1>1, <1>3, <1>5
  <2>3. new \in Maps
    <3>1. new.g \in Map
      BY <1>2, <2>1, <2>2 DEF Map
    <3> QED
      BY <1>2, <2>1, <3>1 DEF Maps
  <2>4. ASSUME NEW n \in Names
        PROVE  LastGauge(rs, j, n, new.g[n]) /\ SumOfDeltas(rs, j, n, new.c[n])
    <3>1. SumOfDeltas(rs, j, n, m.c[n])
      BY <1>2, <1>5, DeltasSame
    <3>2. CASE n = r.id
      <4>1. new.g[n] = r.val
        BY <1>2, <2>1, <3>2 DEF Map
      <4>2. LastGauge(rs, j, n, r.val)
        BY <1>5, <3>2, GaugeMore
      <4> QED
        BY <2>1, <3>1, <4>1, <4>2
    <3>3. CASE n # r.id
      <4>1. new.g[n] = m.g[n]
        BY <1>2, <2>1, <3>3 DEF Map
      <4>2. LastGauge(rs, j, n, m.g[n])
        BY <1>2, <3>3, GaugeSame
      <4> QED
        BY <2>1, <3>1, <4>1, <4>2
    <3> QED
      BY <3>2, <3>3
  <2> HIDE DEF new, r
  <2> QED
    BY <2>3, <2>4 DEF Keep
<1>6. CASE r.id \in Names /\ r.type = "counter"
  <2> DEFINE sum == Merge("accum", m.c[r.id], r.val)
  <2>1. /\ new.g = m.g /\ new.c = [m.c EXCEPT ![r.id] = sum]
        /\ new = [g |-> new.g, c |-> new.c]
    BY <1>2, <1>3, <1>6 DEF Aggregate
  <2>2. r.val \in Val /\ m.c[r.id] \in Val \cup {Absent}
    BY <1>1, <1>2, <1>3, <1>6 DEF Map
  <2>3. sum \in Val
    <3>1. CASE m.c[r.id] = Absent
      BY <2>2, <3>1 DEF Merge
    <3>2. CASE m.c[r.id] # Absent
      <4>1. sum = (m.c[r.id] + r.val) % W
        BY <3>2 DEF Merge
      <4>2. m.c[r.id] \in Val /\ r.val \in Val
        BY <2>2, <3>2
      <4>3. m.c[r.id] + r.val \in Nat
        BY <4>2, Below
      <4> HIDE DEF sum
      <4> QED
        BY <4>1, <4>3, Residue
    <3> QED
      BY <3>1, <3>2
  <2>4. SumOfDeltas(rs, j, r.id, sum)
    BY <1>2, <1>6, <2>2, DeltasMore
  <2> HIDE DEF sum
  <2>5. new \in Maps
    <3>1. new.c \in Map
      BY <1>2, <2>1, <2>3 DEF Map
    <3> QED
      BY <1>2, <2>1, <3>1 DEF Maps
  <2>6. ASSUME NEW n \in Names
        PROVE  LastGauge(rs, j, n, new.g[n]) /\ SumOfDeltas(rs, j, n, new.c[n])
    <3>1. LastGauge(rs, j, n, m.g[n])
      BY <1>2, <1>6, GaugeSame
    <3>2. CASE n = r.id
      <4>1. new.c[n] = sum
        BY <1>2, <2>1, <3>2 DEF Map
      <4> QED
        BY <2>1, <2>4, <3>1, <3>2, <4>1
    <3>3. CASE n # r.id
      <4>1. new.c[n] = m.c[n]
        BY <1>2, <2>1, <3>3 DEF Map
      <4>2. SumOfDeltas(rs, j, n, m.c[n])
        BY <1>2, <3>3, DeltasSame
      <4> QED
        BY <2>1, <3>1, <4>1, <4>2
    <3> QED
      BY <3>2, <3>3
  <2> HIDE DEF new, r
  <2> QED
    BY <2>5, <2>6 DEF Keep
<1> QED
  BY <1>1, <1>4, <1>5, <1>6

\* Before the first turn there is nothing to promise, and after the last one
\* the promise is kept for all records.
LEMMA LoopKeeps ==
  ASSUME NEW rs, Usable(rs)
  PROVE  Keep(rs, Len(rs), Aggregated(rs))
<1> DEFINE n == Len(rs)
<1>1. PICK maps : /\ maps[0] = Nothing
                  /\ \A i \in 1 .. n : maps[i] = Aggregate(maps[i - 1], rs[i])
                  /\ Aggregated(rs) = maps[n]
  <2>1. Len(rs) \in Nat
    BY DEF Usable
  <2> QED
    BY <2>1, Turns
<1> DEFINE T == {k \in 0 .. n : Keep(rs, k, maps[k])}
<1>2. n \in Nat
  BY DEF Usable
<1>3. Keep(rs, 0, Nothing)
  <2>1. Nothing \in Maps /\ Nothing.g = EmptyMap /\ Nothing.c = EmptyMap
    BY EmptyMapType DEF Nothing, Maps
  <2>2. ASSUME NEW x \in Names
        PROVE  LastGauge(rs, 0, x, Absent) /\ SumOfDeltas(rs, 0, x, Absent)
    <3>1. \A t : Among(rs, 0, x, t) = {}
      BY DEF Among
    <3>2. \A i \in 1 .. n : Deltas(rs, 0, x)[i] = 0
      BY <3>1 DEF Deltas
    <3>3. DeltaUnits(rs, 0, x) = {} /\ IsFiniteSet({})
      BY <3>2, NoUnits DEF DeltaUnits
    <3> QED
      BY <3>1, <3>3 DEF LastGauge, SumOfDeltas
  <2> QED
    BY <2>1, <2>2 DEF Keep, EmptyMap
<1>4. 0 \in T
  BY <1>1, <1>2, <1>3
<1>5. ASSUME NEW k \in 0 .. n - 1, k \in T
      PROVE  k + 1 \in T
  <2> DEFINE j == k + 1
  <2>1. j \in Nat /\ k \in Nat /\ k = j - 1 /\ k < n /\ j \in 1 .. n
    BY <1>2
  <2>2. Keep(rs, k, maps[k])
    BY <1>5
  <2> HIDE DEF j, T
  <2>3. Keep(rs, j, Aggregate(maps[k], rs[j]))
    BY <2>1, <2>2, TurnKeeps
  <2>4. maps[j] = Aggregate(maps[k], rs[j])
    BY <1>1, <2>1
  <2> QED
    BY <2>1, <2>3, <2>4 DEF T, j
<1>6. n \in T
  <2>1. \A k \in 0 .. n - 1 : k \in T => k + 1 \in T
    BY <1>5
  <2> HIDE DEF T, n
  <2> QED
    BY <1>2, <1>4, <2>1, UpTo
<1> QED
  BY <1>1, <1>6

\* What a message can be.
LEMMA RecordsOf ==
  ASSUME NEW m \in Messages
  PROVE  /\ Len(m.records) \in Nat /\ DOMAIN m.records = 1 .. Len(m.records)
         /\ \A i \in 1 .. Len(m.records) : m.records[i] \in Records
         /\ m.route # "batch" => Len(m.records) = 1
         /\ m.route # "path" =>
              \A i \in 1 .. Len(m.records) : m.records[i].val # Garbled
<1>1. m \in MessageType /\ m.records \in Seq(Records)
  BY MetricsAPIAssumption DEF MessageType
<1>2. /\ Len(m.records) \in Nat /\ DOMAIN m.records = 1 .. Len(m.records)
      /\ \A i \in 1 .. Len(m.records) : m.records[i] \in Records
  BY <1>1
<1>3. /\ m.route # "batch" => Len(m.records) = 1
      /\ m.route # "path" => \A i \in DOMAIN m.records : m.records[i].val # Garbled
  BY MetricsAPIAssumption
<1> QED
  BY <1>2, <1>3

\* The loop over the records of a message leaves what is promised.
LEMMA LoopPromised ==
  ASSUME NEW m \in Messages, Usable(m.records)
  PROVE  /\ Promised(m) = Aggregated(m.records)
         /\ Aggregated(m.records) \in Maps
<1> DEFINE rs == m.records
           k == Len(rs)
           a == Aggregated(rs)
           p == Promised(m)
           of(n, t) == {i \in DOMAIN rs : rs[i].id = n /\ rs[i].type = t}
           units(n) == {u \in of(n, "counter") \X (1 .. W) :
                          u[2] <= rs[u[1]].val}
<1>1. Keep(rs, k, a)
  BY LoopKeeps
<1>2. \A n, t : of(n, t) = Among(rs, k, n, t)
  BY RecordsOf DEF Among
<1>3. p = [g |-> [n \in Names |->
                    IF of(n, "gauge") = {} THEN Absent
                    ELSE rs[CHOOSE i \in of(n, "gauge") :
                              \A j \in of(n, "gauge") : j <= i].val],
           c |-> [n \in Names |->
                    IF of(n, "counter") = {} THEN Absent
                    ELSE Cardinality(units(n)) % W]]
  BY DEF Promised
<1>4. k \in Nat
  BY RecordsOf
<1>5. ASSUME NEW n \in Names
      PROVE  a.g[n] = p.g[n]
  <2> DEFINE S == of(n, "gauge")
  <2>1. LastGauge(rs, k, n, a.g[n]) /\ S = Among(rs, k, n, "gauge")
    BY <1>1, <1>2 DEF Keep
  <2>2. p.g[n] = IF S = {} THEN Absent
                 ELSE rs[CHOOSE i \in S : \A j \in S : j <= i].val
    BY <1>3
  <2>3. S \subseteq 1 .. k
    BY <2>1 DEF Among
  <2> HIDE DEF S, a, p, rs, k
  <2>4. CASE S = {}
    BY <2>1, <2>2, <2>4 DEF LastGauge
  <2>5. CASE S # {}
    <3>1. PICK i \in S : (\A j \in S : j <= i) /\ a.g[n] = rs[i].val
      BY <2>1, <2>5 DEF LastGauge
    <3> DEFINE last == CHOOSE l \in S : \A j \in S : j <= l
    <3>2. last \in S /\ \A j \in S : j <= last
      BY <3>1
    <3> HIDE DEF last
    <3>3. last = i
      BY <1>4, <2>3, <3>1, <3>2
    <3> QED
      BY <2>2, <2>5, <3>1, <3>3 DEF last
  <2> QED
    BY <2>4, <2>5
<1>6. ASSUME NEW n \in Names
      PROVE  a.c[n] = p.c[n]
  <2>1. SumOfDeltas(rs, k, n, a.c[n])
    BY <1>1 DEF Keep
  <2>2. units(n) = DeltaUnits(rs, k, n)
    <3> DEFINE S == Among(rs, k, n, "counter")
               f == Deltas(rs, k, n)
    <3>1. S \subseteq 1 .. k /\ \A i \in S : rs[i].val \in Val
      BY MetricsAPIAssumption DEF Among, Usable
    <3>2. \A i \in 1 .. k : f[i] = IF i \in S THEN rs[i].val ELSE 0
      BY DEF Deltas
    <3>3. \A x \in Val : x \in Nat /\ x < W
      BY Below
    <3>4. units(n) = {u \in S \X (1 .. W) : u[2] <= rs[u[1]].val}
      BY <1>2
    <3>5. DeltaUnits(rs, k, n) = {u \in (1 .. k) \X Nat : u[2] \in 1 .. f[u[1]]}
      BY DEF DeltaUnits, Units
    <3> HIDE DEF S, f, rs, k, units
    <3>6. W \in Nat
      BY MetricsAssumption
    <3>7. ASSUME NEW i, NEW x
          PROVE  (i \in S /\ x \in 1 .. W /\ x <= rs[i].val)
                   <=> (i \in 1 .. k /\ x \in Nat /\ x \in 1 .. f[i])
      <4>1. CASE i \in S
        <5>1. /\ rs[i].val \in Nat /\ rs[i].val < W
              /\ i \in 1 .. k /\ f[i] = rs[i].val
          BY <3>1, <3>2, <3>3, <4>1
        <5> QED
          BY <3>6, <4>1, <5>1
      <4>2. CASE i \notin S
        <5>1. i \in 1 .. k => f[i] = 0
          BY <3>2, <4>2
        <5> QED
          BY <4>2, <5>1
      <4> QED
        BY <4>1, <4>2
    <3> QED
      BY <3>4, <3>5, <3>7
  <2>3. p.c[n] = IF of(n, "counter") = {} THEN Absent
                 ELSE Cardinality(units(n)) % W
    BY <1>3
  <2> HIDE DEF units, of, p, a, rs, k
  <2> QED
    BY <1>2, <2>1, <2>2, <2>3 DEF SumOfDeltas
<1>7. a \in Maps
  BY <1>1 DEF Keep
<1>8. /\ a = [g |-> a.g, c |-> a.c] /\ p = [g |-> p.g, c |-> p.c]
      /\ a.g = [n \in Names |-> a.g[n]] /\ a.c = [n \in Names |-> a.c[n]]
      /\ p.g = [n \in Names |-> p.g[n]] /\ p.c = [n \in Names |-> p.c[n]]
  <2> HIDE DEF a
  <2>1. /\ a = [g |-> a.g, c |-> a.c]
        /\ a.g = [n \in Names |-> a.g[n]] /\ a.c = [n \in Names |-> a.c[n]]
    BY <1>7 DEF Maps, Map
  <2>2. /\ p = [g |-> p.g, c |-> p.c]
        /\ p.g = [n \in Names |-> p.g[n]] /\ p.c = [n \in Names |-> p.c[n]]
    <3> HIDE DEF p, of, units, rs
    <3> QED
      BY <1>3
  <2> QED
    BY <2>1, <2>2
<1>9. a = p
  <2>1. a.g = p.g
    <3> HIDE DEF a, p
    <3> QED
      BY <1>5, <1>8
  <2>2. a.c = p.c
    <3> HIDE DEF a, p
    <3> QED
      BY <1>6, <1>8
  <2> HIDE DEF a, p
  <2> QED
    BY <1>8, <2>1, <2>2
<1> QED
  BY <1>7, <1>9

\* What a message promises of its counters is a map, whatever its records.
LEMMA PromisedType ==
  ASSUME NEW m \in Messages
  PROVE  Promised(m).c \in Map
<1> DEFINE rs == m.records
           k == Len(rs)
           of(n, t) == {i \in DOMAIN rs : rs[i].id = n /\ rs[i].type = t}
           units(n) == {u \in of(n, "counter") \X (1 .. W) :
                          u[2] <= rs[u[1]].val}
<1>1. Promised(m).c = [n \in Names |->
                         IF of(n, "counter") = {} THEN Absent
                         ELSE Cardinality(units(n)) % W]
  BY DEF Promised
<1>2. ASSUME NEW n \in Names
      PROVE  Cardinality(units(n)) % W \in Val
  <2>1. k \in Nat /\ DOMAIN rs = 1 .. k /\ W \in Nat
    BY RecordsOf, Residue
  <2> HIDE DEF k, rs
  <2>2. IsFiniteSet(1 .. k) /\ IsFiniteSet(1 .. W)
    BY <2>1, FS_Interval
  <2>3. IsFiniteSet((1 .. k) \X (1 .. W))
    BY <2>2, FS_Product
  <2>4. units(n) \in SUBSET ((1 .. k) \X (1 .. W))
    BY <2>1
  <2> HIDE DEF units
  <2>5. Cardinality(units(n)) \in Nat
    BY <2>3, <2>4, FS_Subset, FS_CardinalityType
  <2> QED
    BY <2>5, Residue
<1> HIDE DEF of, units
<1> QED
  BY <1>1, <1>2 DEF Map

-----------------------------------------------------------------------------
(* The verdicts of the handlers. *)

Codes == {Aborted, 200, 400, 404, 500}

LEMMA NothingType == Nothing \in Maps
BY EmptyMapType DEF Nothing, Maps

LEMMA Refused ==
  ASSUME NEW x \in Codes
  PROVE  Refuse(x).code = x /\ Refuse(x).batch = Nothing /\ Refuse(x).batch \in Maps
BY NothingType DEF Refuse, Verdict

LEMMA ReadCodes == \A m : Read(m) \in {200, 400, 500}
BY DEF Read

\* A metric that is set or increased alone is a batch of one.
LEMMA OneVerdict ==
  ASSUME NEW r \in Records
  PROVE  /\ UpdateMetrics(r).code \in Codes /\ UpdateMetrics(r).batch \in Maps
         /\ UpdateMetrics(r).code = 200 =>
              /\ r.id \in Names /\ r.type \in {"gauge", "counter"}
              /\ r.val \in Val
              /\ UpdateMetrics(r).batch = Aggregate(Nothing, r)
<1> DEFINE v == UpdateMetrics(r)
           Good == /\ r.id \in Names /\ r.type \in {"gauge", "counter"}
                   /\ r.val \in Val /\ v.batch = Aggregate(Nothing, r)
<1> SUFFICES /\ v.code \in Codes /\ v.batch \in Maps
             /\ v.code = 200 => Good
  OBVIOUS
<1>1. /\ r.id \in Names \cup {NoName} /\ r.type \in {"gauge", "counter", "other"}
      /\ r.val \in Val \cup {Absent, Garbled}
  BY DEF Records
<1>2. CASE r.id = NoName
  <2>1. v = Refuse(404)
    BY <1>2 DEF UpdateMetrics
  <2> HIDE DEF v
  <2> QED
    BY <2>1, Refused DEF Codes
<1>3. CASE r.id # NoName /\ (r.type = "other" \/ r.val = Garbled)
  <2>1. v = Refuse(400)
    BY <1>3, MetricsAPIAssumption DEF UpdateMetrics
  <2> HIDE DEF v
  <2> QED
    BY <2>1, Refused DEF Codes
<1>4. CASE r.id # NoName /\ r.type # "other" /\ r.val # Garbled /\ r.val = Absent
  <2>1. v = Refuse(Aborted)
    BY <1>4, MetricsAPIAssumption DEF UpdateMetrics
  <2> HIDE DEF v
  <2> QED
    BY <2>1, Refused DEF Codes, Aborted
<1>5. CASE r.id # NoName /\ r.type # "other" /\ r.val # Garbled /\ r.val # Absent
  <2>1. v = Verdict(200, Single(r))
    BY <1>5 DEF UpdateMetrics
  <2>2. /\ r.id \in Names /\ r.type \in {"gauge", "counter"} /\ r.val \in Val
        /\ NoName \notin Names
    BY <1>1, <1>5, MetricsAPIAssumption
  <2>3. v.code = 200 /\ v.batch = Single(r)
    BY <2>1 DEF Verdict
  <2> DEFINE one == [n \in Names |-> IF n = r.id THEN r.val ELSE Absent]
  <2>4. one \in Map /\ one = [EmptyMap EXCEPT ![r.id] = r.val]
    BY <2>2 DEF Map, EmptyMap
  <2>5. /\ r.type = "gauge" => Single(r) = [g |-> one, c |-> EmptyMap]
        /\ r.type = "counter" => Single(r) = [g |-> EmptyMap, c |-> one]
    BY DEF Single, Nothing
  <2>6. Merge("accum", EmptyMap[r.id], r.val) = r.val
    BY <2>2 DEF Merge, EmptyMap
  <2> HIDE DEF one
  <2>7. Single(r) = Aggregate(Nothing, r)
    <3>1. CASE r.type = "gauge"
      <4>1. Aggregate(Nothing, r) = [Nothing EXCEPT !.g = [Nothing.g EXCEPT ![r.id] = r.val]]
        BY <2>2, <3>1 DEF Aggregate
      <4> QED
        BY <2>4, <2>5, <3>1, <4>1 DEF Nothing
    <3>2. CASE r.type = "counter"
      <4>1. Aggregate(Nothing, r)
              = [Nothing EXCEPT !.c = [Nothing.c EXCEPT ![r.id] =
                                         Merge("accum", Nothing.c[r.id], r.val)]]
        BY <2>2, <3>2 DEF Aggregate
      <4>2. Nothing.c = EmptyMap
        BY DEF Nothing
      <4> QED
        BY <2>4, <2>5, <2>6, <3>2, <4>1, <4>2 DEF Nothing
    <3> QED
      BY <2>2, <3>1, <3>2
  <2>8. Single(r) \in Maps
    <3>1. EmptyMap \in Map /\ Single(r) \in {[g |-> one, c |-> EmptyMap],
                                            [g |-> EmptyMap, c |-> one]}
      BY <2>2, <2>5, EmptyMapType
    <3>2. one \in Map
      BY <2>4
    <3>3. [g |-> one, c |-> EmptyMap] \in Maps /\ [g |-> EmptyMap, c |-> one] \in Maps
      BY <3>1, <3>2 DEF Maps
    <3> QED
      BY <3>1, <3>3
  <2> HIDE DEF v
  <2> QED
    BY <2>2, <2>3, <2>7, <2>8 DEF Codes, v
<1> QED
  BY <1>2, <1>3, <1>4, <1>5

\* An update that gets as far as the repository brings what 200 promises.
LEMMA Judged ==
  ASSUME NEW m \in Messages, Update(m)
  PROVE  /\ Judge(m).code \in Codes /\ Judge(m).batch \in Maps
         /\ Judge(m).code = 200 => Judge(m).batch = Promised(m)
<1> DEFINE rs == m.records
<1>1. m.route \in {"path", "single", "batch"}
  BY MetricsAPIAssumption DEF Update, MessageType
<1>2. CASE m.route = "path" \/ (m.route = "single" /\ Read(m) = 200)
  <2>1. Judge(m) = UpdateMetrics(rs[1])
    BY <1>2 DEF Judge
  <2>2. Len(rs) = 1 /\ rs[1] \in Records
    BY <1>2, RecordsOf
  <2>3. Judge(m).code \in Codes /\ Judge(m).batch \in Maps
    BY <2>1, <2>2, OneVerdict
  <2>4. ASSUME Judge(m).code = 200
        PROVE  Judge(m).batch = Promised(m)
    <3>1. /\ rs[1].id \in Names /\ rs[1].type \in {"gauge", "counter"}
          /\ rs[1].val \in Val
          /\ Judge(m).batch = Aggregate(Nothing, rs[1])
      BY <2>1, <2>2, <2>4, OneVerdict
    <3>2. Usable(rs)
      BY <2>2, <3>1 DEF Usable
    <3>3. Aggregated(rs) = Aggregate(Nothing, rs[1])
      <4>1. PICK maps : /\ maps[0] = Nothing
                        /\ \A i \in 1 .. Len(rs) :
                             maps[i] = Aggregate(maps[i - 1], rs[i])
                        /\ Aggregated(rs) = maps[Len(rs)]
        <5>1. Len(rs) \in Nat
          BY RecordsOf
        <5> HIDE DEF rs
        <5> QED
          BY <5>1, Turns
      <4>2. maps[1] = Aggregate(maps[1 - 1], rs[1]) /\ 1 - 1 = 0
        BY <2>2, <4>1
      <4> QED
        BY <2>2, <4>1, <4>2
    <3> QED
      BY <3>1, <3>2, <3>3, LoopPromised
  <2> QED
    BY <2>3, <2>4
<1>3. CASE m.route = "batch" /\ Read(m) = 200
  <2>1. Judge(m) = UpdateBatch(rs)
    BY <1>3 DEF Judge
  <2>2. CASE \E i \in DOMAIN rs : /\ rs[i].id # NoName /\ rs[i].type # "other"
                                  /\ rs[i].val = Absent
    <3>1. Judge(m) = Refuse(Aborted)
      BY <2>1, <2>2 DEF UpdateBatch
    <3> QED
      BY <3>1, Refused DEF Codes, Aborted
  <2>3. CASE \A i \in DOMAIN rs : ~(/\ rs[i].id # NoName /\ rs[i].type # "other"
                                    /\ rs[i].val = Absent)
    <3>1. Usable(rs)
      <4>1. ASSUME NEW i \in 1 .. Len(rs)
            PROVE  /\ rs[i].id \in Names \cup {NoName}
                   /\ rs[i].type \in {"gauge", "counter", "other"}
                   /\ rs[i].id # NoName /\ rs[i].type # "other" => rs[i].val \in Val
        <5>1. rs[i] \in Records /\ rs[i].val # Garbled /\ i \in DOMAIN rs
          BY <1>3, RecordsOf
        <5> QED
          BY <2>3, <5>1 DEF Records
      <4>2. Len(rs) \in Nat
        BY RecordsOf
      <4> HIDE DEF rs
      <4> QED
        BY <4>1, <4>2 DEF Usable
    <3>2. Promised(m) = Aggregated(rs) /\ Aggregated(rs) \in Maps
      BY <3>1, LoopPromised
    <3>3. \/ Judge(m) = Refuse(400)
          \/ Judge(m) = Verdict(200, Aggregated(rs))
      BY <2>1, <2>3 DEF UpdateBatch
    <3>4. CASE Judge(m) = Refuse(400)
      BY <3>4, Refused DEF Codes
    <3>5. CASE Judge(m) = Verdict(200, Aggregated(rs))
      BY <3>2, <3>5 DEF Codes, Verdict
    <3> QED
      BY <3>3, <3>4, <3>5
  <2> QED
    BY <2>2, <2>3
<1>4. CASE m.route \in {"single", "batch"} /\ Read(m) # 200
  <2>1. Judge(m) = Refuse(Read(m))
    BY <1>4 DEF Judge
  <2>2. Read(m) \in Codes
    BY ReadCodes DEF Codes
  <2> QED
    BY <1>4, <2>1, <2>2, Refused
<1> QED
  BY <1>1, <1>2, <1>3, <1>4

-----------------------------------------------------------------------------
(* Types. *)

\* Whoever is not idle has sent a message.
Loaded == \A c \in Clients : at[c] # "idle" => msg[c] \in Messages

Typed == TypeOK /\ Loaded

Times == [g : Nat, c : Nat]

\* One more commit, or one more in doubt, of the one part of a batch or the
\* other.
LEMMA OnceMore ==
  ASSUME NEW f \in [Clients -> Times], NEW c \in Clients, NEW k \in Nat
  PROVE  /\ LET h == [f EXCEPT ![c].g = @ + k]
            IN /\ h \in [Clients -> Times]
               /\ h[c].g = f[c].g + k /\ h[c].c = f[c].c
               /\ \A d \in Clients \ {c} : h[d] = f[d]
         /\ LET h == [f EXCEPT ![c].c = @ + k]
            IN /\ h \in [Clients -> Times]
               /\ h[c].c = f[c].c + k /\ h[c].g = f[c].g
               /\ \A d \in Clients \ {c} : h[d] = f[d]
<1>1. f[c] \in Times /\ f[c].g \in Nat /\ f[c].c \in Nat
  BY DEF Times
<1>2. /\ [f[c] EXCEPT !.g = f[c].g + k] \in Times
      /\ [f[c] EXCEPT !.c = f[c].c + k] \in Times
  BY <1>1 DEF Times
<1>3. /\ [f[c] EXCEPT !.g = f[c].g + k].g = f[c].g + k
      /\ [f[c] EXCEPT !.g = f[c].g + k].c = f[c].c
      /\ [f[c] EXCEPT !.c = f[c].c + k].c = f[c].c + k
      /\ [f[c] EXCEPT !.c = f[c].c + k].g = f[c].g
  BY <1>1 DEF Times
<1>4. /\ [f EXCEPT ![c].g = @ + k]
           = [f EXCEPT ![c] = [f[c] EXCEPT !.g = f[c].g + k]]
      /\ [f EXCEPT ![c].c = @ + k]
           = [f EXCEPT ![c] = [f[c] EXCEPT !.c = f[c].c + k]]
  OBVIOUS
<1>5. ASSUME NEW r \in Times
      PROVE  /\ [f EXCEPT ![c] = r] \in [Clients -> Times]
             /\ [f EXCEPT ![c] = r][c] = r
             /\ \A d \in Clients \ {c} : [f EXCEPT ![c] = r][d] = f[d]
  OBVIOUS
<1> QED
  BY <1>2, <1>3, <1>4, <1>5

\* What a call does to the counts of commits.
LEMMA CountsTyped ==
  ASSUME Typed, NEW c \in Clients, SetGauges(c) \/ SetCounters(c)
  PROVE  commits' \in [Clients -> Times] /\ lost' \in [Clients -> Times]
<1>1. commits \in [Clients -> Times] /\ lost \in [Clients -> Times]
  BY DEF Typed, TypeOK, Times
<1>2. /\ \/ commits' = commits \/ commits' = [commits EXCEPT ![c].g = @ + 1]
         \/ commits' = [commits EXCEPT ![c].c = @ + 1]
      /\ \/ lost' = lost
         \/ lost' = [lost EXCEPT ![c].g = @ + 0]
         \/ lost' = [lost EXCEPT ![c].g = @ + 1]
         \/ lost' = [lost EXCEPT ![c].c = @ + 0]
         \/ lost' = [lost EXCEPT ![c].c = @ + 1]
  <2>1. CASE SetGauges(c)
    BY <2>1, GaugesCalled
  <2>2. CASE SetCounters(c)
    BY <2>2, CountersCalled
  <2> QED
    BY <2>1, <2>2
<1>3. 0 \in Nat /\ 1 \in Nat
  OBVIOUS
<1>4. ASSUME NEW f \in [Clients -> Times], NEW k \in Nat
      PROVE  /\ [f EXCEPT ![c].g = @ + k] \in [Clients -> Times]
             /\ [f EXCEPT ![c].c = @ + k] \in [Clients -> Times]
  BY OnceMore
<1>5. /\ [commits EXCEPT ![c].g = @ + 1] \in [Clients -> Times]
      /\ [commits EXCEPT ![c].c = @ + 1] \in [Clients -> Times]
  BY <1>1, <1>3, <1>4
<1>6. /\ [lost EXCEPT ![c].g = @ + 0] \in [Clients -> Times]
      /\ [lost EXCEPT ![c].g = @ + 1] \in [Clients -> Times]
      /\ [lost EXCEPT ![c].c = @ + 0] \in [Clients -> Times]
      /\ [lost EXCEPT ![c].c = @ + 1] \in [Clients -> Times]
  <2>1. /\ [lost EXCEPT ![c].g = @ + 0] \in [Clients -> Times]
        /\ [lost EXCEPT ![c].c = @ + 0] \in [Clients -> Times]
    BY <1>1, <1>3, <1>4
  <2>2. /\ [lost EXCEPT ![c].g = @ + 1] \in [Clients -> Times]
        /\ [lost EXCEPT ![c].c = @ + 1] \in [Clients -> Times]
    BY <1>1, <1>3, <1>4
  <2> QED
    BY <2>1, <2>2
<1> QED
  BY <1>1, <1>2, <1>5, <1>6

LEMMA StoppedCodes == \A m : Stopped(m) \in {0, 400, 500}
BY DEF Stopped

\* An update that is handled gets a verdict: with 200 it goes on, to apply what
\* 200 promises.
LEMMA UpdateHandled ==
  ASSUME Typed, NEW c \in Clients, HandleUpdate(c)
  PROVE  /\ msg[c] \in Messages /\ Update(msg[c]) /\ at[c] = "sent"
         /\ \E v \in [code : Codes, batch : Maps] :
              /\ v.code = 200 => v.batch = Promised(msg[c])
              /\ Stopped(msg[c]) # 0 => v.code = Stopped(msg[c])
              /\ code' = [code EXCEPT ![c] =
                            IF /\ Stopped(msg[c]) = 0 /\ DecryptFails(msg[c])
                               /\ v.code # Aborted
                              THEN 500 ELSE v.code]
              /\ batch' = [batch EXCEPT ![c] = v.batch]
              /\ at' = [at EXCEPT ![c] =
                          IF v.code = 200 THEN "gauges" ELSE "answer"]
<1> DEFINE m == msg[c]
           v == IF Stopped(m) # 0 THEN Refuse(Stopped(m))
                ELSE IF DecryptPanics(m) THEN Refuse(Aborted)
                ELSE Judge(m)
<1>1. /\ at[c] = "sent" /\ Update(m)
      /\ code' = [code EXCEPT ![c] =
                    IF Stopped(m) = 0 /\ DecryptFails(m) /\ v.code # Aborted
                      THEN 500 ELSE v.code]
      /\ batch' = [batch EXCEPT ![c] = v.batch]
      /\ at' = [at EXCEPT ![c] = IF v.code = 200 THEN "gauges" ELSE "answer"]
  BY DEF HandleUpdate, history
<1>2. m \in Messages
  BY <1>1 DEF Typed, Loaded
<1>3. /\ v.code \in Codes /\ v.batch \in Maps
      /\ v.code = 200 => v.batch = Promised(m)
      /\ Stopped(m) # 0 => v.code = Stopped(m)
  <2>1. CASE Stopped(m) # 0
    <3>1. v = Refuse(Stopped(m))
      BY <2>1
    <3>2. Stopped(m) \in Codes /\ Stopped(m) # 200
      BY <2>1, StoppedCodes DEF Codes
    <3> HIDE DEF v
    <3> QED
      BY <3>1, <3>2, Refused
  <2>2. CASE Stopped(m) = 0 /\ DecryptPanics(m)
    <3>1. v = Refuse(Aborted)
      BY <2>2
    <3>2. Aborted \in Codes /\ Aborted # 200
      BY DEF Codes, Aborted
    <3> HIDE DEF v
    <3> QED
      BY <2>2, <3>1, <3>2, Refused
  <2>3. CASE Stopped(m) = 0 /\ ~DecryptPanics(m)
    <3>1. v = Judge(m)
      BY <2>3
    <3> HIDE DEF v
    <3> QED
      BY <1>1, <1>2, <2>3, <3>1, Judged
  <2> QED
    BY <2>1, <2>2, <2>3
<1>4. v \in [code : Codes, batch : Maps]
  <2>1. v = [code |-> v.code, batch |-> v.batch]
    <3>1. ASSUME NEW x \in Messages, Update(x)
          PROVE  Judge(x) = [code |-> Judge(x).code, batch |-> Judge(x).batch]
      BY DEF Judge, UpdateMetrics, UpdateBatch, Refuse, Verdict
    <3> QED
      BY <1>1, <1>2, <3>1 DEF Refuse, Verdict
  <2> HIDE DEF v
  <2> QED
    BY <1>3, <2>1
<1> HIDE DEF v
<1> QED
  BY <1>1, <1>2, <1>3, <1>4

\* A read that is handled changes nothing but its answer.
LEMMA ValueHandled ==
  ASSUME Typed, NEW c \in Clients, HandleValue(c)
  PROVE  /\ at[c] = "sent" /\ msg[c] \in Messages /\ ~Update(msg[c])
         /\ at' = [at EXCEPT ![c] = "answer"]
         /\ UNCHANGED <<conf, gauges, counters, msg, batch, history, sends,
                        total, told, floor>>
         /\ \E x \in Codes \ {Aborted} :
              /\ code' = [code EXCEPT ![c] = x]
              /\ Stopped(msg[c]) # 0 => x = Stopped(msg[c])
         /\ \/ seen' = seen
            \/ /\ msg[c].records[1].id \in Names
               /\ counters[msg[c].records[1].id] \in Val
               /\ seen' = [seen EXCEPT ![c] = counters[msg[c].records[1].id]]
<1> DEFINE m == msg[c]
           r == m.records[1]
           found == IF r.type = "gauge" THEN gauges[r.id] ELSE counters[r.id]
           answer == IF Stopped(m) # 0 THEN Stopped(m)
                     ELSE IF m.route = "value" /\ Read(m) # 200 THEN Read(m)
                     ELSE IF r.id = NoName THEN 404
                     ELSE IF r.type = "other" THEN 400
                     ELSE IF found = Absent THEN 404 ELSE 200
<1>1. /\ at[c] = "sent" /\ ~Update(m)
      /\ \/ code' = [code EXCEPT ![c] = answer]
         \/ /\ answer \in {200, 404}
            /\ code' = [code EXCEPT ![c] = 500]
      /\ seen' = IF code'[c] = 200 /\ r.type = "counter"
                   THEN [seen EXCEPT ![c] = found] ELSE seen
      /\ at' = [at EXCEPT ![c] = "answer"]
      /\ UNCHANGED <<conf, gauges, counters, msg, batch, history, sends, total,
                     told, floor>>
  BY DEF HandleValue, history
<1>2. m \in Messages
  BY <1>1 DEF Typed, Loaded
<1>3. r \in Records
  <2>1. m.route # "batch"
    BY <1>1 DEF Update
  <2> HIDE DEF m
  <2> QED
    BY <1>2, <2>1, RecordsOf
<1>4. answer \in Codes \ {Aborted}
  BY StoppedCodes, ReadCodes DEF Codes, Aborted
<1>5. Stopped(m) # 0 => answer = Stopped(m) /\ answer \notin {200, 404}
  BY StoppedCodes
<1>6. \E x \in Codes \ {Aborted} : /\ code' = [code EXCEPT ![c] = x]
                                   /\ Stopped(m) # 0 => x = Stopped(m)
  <2> HIDE DEF answer, m
  <2>1. CASE code' = [code EXCEPT ![c] = answer]
    BY <1>4, <1>5, <2>1
  <2>2. CASE answer \in {200, 404} /\ code' = [code EXCEPT ![c] = 500]
    <3> DEFINE x == 500
    <3>1. x \in Codes \ {Aborted} /\ code' = [code EXCEPT ![c] = x]
      BY <2>2 DEF Codes, Aborted
    <3>2. Stopped(m) = 0
      BY <1>5, <2>2
    <3> HIDE DEF x
    <3> QED
      BY <3>1, <3>2
  <2> QED
    BY <1>1, <2>1, <2>2
<1>7. \/ seen' = seen
      \/ r.id \in Names /\ counters[r.id] \in Val
         /\ seen' = [seen EXCEPT ![c] = counters[r.id]]
  <2>1. CASE code'[c] = 200 /\ r.type = "counter"
    <3>1. answer = 200
      <4> HIDE DEF answer
      <4>1. code \in [Clients -> Codes]
        BY DEF Typed, TypeOK, Codes
      <4> QED
        BY <1>1, <2>1, <4>1
    <3>2. /\ r.id # NoName /\ found # Absent /\ found = counters[r.id]
      BY <2>1, <3>1, StoppedCodes, ReadCodes
    <3>3. r.id \in Names
      BY <1>3, <3>2 DEF Records
    <3>4. counters \in Map
      BY DEF Typed, TypeOK
    <3>5. counters[r.id] \in Val
      BY <3>2, <3>3, <3>4 DEF Map
    <3> HIDE DEF answer, found, r, m
    <3> QED
      BY <1>1, <2>1, <3>2, <3>3, <3>5
  <2>2. CASE ~(code'[c] = 200 /\ r.type = "counter")
    BY <1>1, <2>2
  <2> QED
    BY <2>1, <2>2
<1> HIDE DEF answer, found
<1> QED
  BY <1>1, <1>2, <1>6, <1>7

LEMMA InitTyped == ASSUME Init PROVE Typed
<1>1. EmptyMap \in Map /\ Nothing \in Maps /\ Zero \in [Names -> Nat]
  BY EmptyMapType, NothingType DEF Zero
<1>2. TypeOK
  <2>1. 0 \in 0 .. MaxSends
    BY MetricsAPIAssumption
  <2> QED
    BY <1>1, <2>1 DEF Init, TypeOK, Maps, Aborted, NoTimes
<1>3. Loaded
  BY DEF Init, Loaded
<1> QED
  BY <1>2, <1>3 DEF Typed

LEMMA StepTyped == Typed /\ [Next]_vars => Typed'
<1> SUFFICES ASSUME Typed, [Next]_vars
             PROVE  Typed'
  OBVIOUS
<1> USE DEF Typed
<1>1. ASSUME NEW c \in Clients, NEW m \in Messages, Send(c, m)
      PROVE  Typed'
  <2>1. sends' \in 0 .. MaxSends
    <3>1. sends \in 0 .. MaxSends /\ sends < MaxSends /\ sends' = sends + 1
      BY <1>1 DEF TypeOK, Send, history
    <3> QED
      BY <3>1, MetricsAPIAssumption
  <2>2. /\ msg' \in [Clients -> Messages \cup {Absent}]
        /\ at' \in [Clients -> {"idle", "sent", "gauges", "counters", "answer"}]
        /\ floor' \in [Clients -> [Names -> Nat]]
    BY <1>1 DEF TypeOK, Send, history
  <2>3. TypeOK'
    BY <1>1, <2>1, <2>2 DEF TypeOK, Send, history
  <2>4. Loaded'
    BY <1>1 DEF TypeOK, Loaded, Send, history
  <2> QED
    BY <2>3, <2>4
<1>2. ASSUME NEW c \in Clients, HandleUpdate(c)
      PROVE  Typed'
  <2>1. PICK v \in [code : Codes, batch : Maps] :
          /\ code' = [code EXCEPT ![c] =
                        IF /\ Stopped(msg[c]) = 0 /\ DecryptFails(msg[c])
                           /\ v.code # Aborted
                          THEN 500 ELSE v.code]
          /\ batch' = [batch EXCEPT ![c] = v.batch]
          /\ at' = [at EXCEPT ![c] =
                      IF v.code = 200 THEN "gauges" ELSE "answer"]
    BY <1>2, UpdateHandled
  <2>2. /\ code' \in [Clients -> Codes] /\ batch' \in [Clients -> Maps]
        /\ at' \in [Clients -> {"idle", "sent", "gauges", "counters", "answer"}]
    <3>1. 500 \in Codes
      BY DEF Codes
    <3>2. code \in [Clients -> Codes] /\ batch \in [Clients -> Maps]
      BY DEF TypeOK, Codes, Maps
    <3> QED
      BY <2>1, <3>1, <3>2 DEF TypeOK
  <2>3. TypeOK'
    BY <1>2, <2>2 DEF TypeOK, HandleUpdate, history, Codes, Maps
  <2>4. Loaded'
    <3>1. at[c] = "sent" /\ UNCHANGED msg
      BY <1>2 DEF HandleUpdate, history
    <3> QED
      BY <2>1, <3>1 DEF TypeOK, Loaded
  <2> QED
    BY <2>3, <2>4
<1>3. ASSUME NEW c \in Clients, SetGauges(c)
      PROVE  Typed'
  <2>1. gauges' \in Map
    <3>1. batch[c].g \in Map /\ gauges \in Map
      BY DEF TypeOK
    <3>2. ApplyBatch("set", gauges, batch[c].g) \in Map
      BY <3>1, BatchType
    <3> QED
      BY <1>3, <3>1, <3>2, GaugesCalled
  <2>2. effect' \in [Clients -> Maps]
    <3>1. batch[c].g \in Map /\ effect \in [Clients -> Maps]
      BY DEF TypeOK, Maps
    <3>2. [effect EXCEPT ![c].g = batch[c].g] \in [Clients -> Maps]
      BY <3>1 DEF Maps
    <3> QED
      BY <1>3, <3>1, <3>2, GaugesCalled
  <2>3. /\ code' \in [Clients -> Codes]
        /\ at' \in [Clients -> {"idle", "sent", "gauges", "counters", "answer"}]
    <3>1. code \in [Clients -> Codes] /\ 500 \in Codes
      BY DEF TypeOK, Codes
    <3>2. \/ code' = code \/ code' = [code EXCEPT ![c] = @]
          \/ code' = [code EXCEPT ![c] = 500]
      BY <1>3, GaugesCalled
    <3>3. code' \in [Clients -> Codes]
      BY <3>1, <3>2
    <3>4. \/ at' = [at EXCEPT ![c] = "gauges"]
          \/ at' = [at EXCEPT ![c] = "counters"]
          \/ at' = [at EXCEPT ![c] = "answer"]
      BY <1>3, GaugesCalled
    <3> QED
      BY <3>3, <3>4 DEF TypeOK
  <2>4. UNCHANGED <<conf, counters, msg, batch, sends, total, told, floor, seen>>
    BY <1>3, GaugesCalled
  <2>5. TypeOK'
    BY <1>3, <2>1, <2>2, <2>3, <2>4, CountsTyped DEF TypeOK, Codes, Maps, Times
  <2>6. Loaded'
    <3>1. /\ at[c] = "gauges"
          /\ \E x : at' = [at EXCEPT ![c] = x]
      BY <1>3, GaugesCalled
    <3> QED
      BY <2>4, <3>1 DEF TypeOK, Loaded
  <2> QED
    BY <2>5, <2>6
<1>4. ASSUME NEW c \in Clients, SetCounters(c)
      PROVE  Typed'
  <2>1. counters' \in Map
    <3>1. batch[c].c \in Map /\ counters \in Map
      BY DEF TypeOK
    <3>2. ApplyBatch("accum", counters, batch[c].c) \in Map
      BY <3>1, BatchType
    <3> QED
      BY <1>4, <3>1, <3>2, CountersCalled
  <2>2. effect' \in [Clients -> Maps]
    <3>1. batch[c].c \in Map /\ effect \in [Clients -> Maps]
      BY DEF TypeOK, Maps
    <3>2. [effect EXCEPT ![c].c = batch[c].c] \in [Clients -> Maps]
      BY <3>1 DEF Maps
    <3> QED
      BY <1>4, <3>1, <3>2, CountersCalled
  <2>3. total' \in [Names -> Nat]
    <3>1. total \in [Names -> Nat] /\ Promised(msg[c]).c \in Map
      <4>1. at[c] = "counters"
        BY <1>4, CountersCalled
      <4> QED
        BY <4>1, PromisedType DEF TypeOK, Loaded
    <3>2. Plus(total, Promised(msg[c]).c) \in [Names -> Nat]
      BY <3>1, PlusType
    <3> QED
      BY <1>4, <3>1, <3>2, CountersCalled
  <2>4. /\ code' \in [Clients -> Codes]
        /\ at' \in [Clients -> {"idle", "sent", "gauges", "counters", "answer"}]
    <3>1. code \in [Clients -> Codes] /\ 500 \in Codes
      BY DEF TypeOK, Codes
    <3>2. \/ code' = code \/ code' = [code EXCEPT ![c] = @]
          \/ code' = [code EXCEPT ![c] = 500]
      BY <1>4, CountersCalled
    <3>3. code' \in [Clients -> Codes]
      BY <3>1, <3>2
    <3>4. \/ at' = [at EXCEPT ![c] = "counters"]
          \/ at' = [at EXCEPT ![c] = "answer"]
      BY <1>4, CountersCalled
    <3> QED
      BY <3>3, <3>4 DEF TypeOK
  <2>5. UNCHANGED <<conf, gauges, msg, batch, sends, told, floor, seen>>
    BY <1>4, CountersCalled
  <2>6. TypeOK'
    BY <1>4, <2>1, <2>2, <2>3, <2>4, <2>5, CountsTyped
       DEF TypeOK, Codes, Maps, Times
  <2>7. Loaded'
    <3>1. at[c] = "counters" /\ \E x : at' = [at EXCEPT ![c] = x]
      BY <1>4, CountersCalled
    <3> QED
      BY <2>5, <3>1 DEF TypeOK, Loaded
  <2> QED
    BY <2>6, <2>7
<1>5. ASSUME NEW c \in Clients, HandleValue(c)
      PROVE  Typed'
  <2>1. /\ code' \in [Clients -> Codes]
        /\ at' \in [Clients -> {"idle", "sent", "gauges", "counters", "answer"}]
    <3>1. code \in [Clients -> Codes]
      BY DEF TypeOK, Codes
    <3>2. PICK x \in Codes : code' = [code EXCEPT ![c] = x]
      BY <1>5, ValueHandled
    <3>3. at' = [at EXCEPT ![c] = "answer"]
      BY <1>5, ValueHandled
    <3> QED
      BY <3>1, <3>2, <3>3 DEF TypeOK
  <2>2. seen' \in [Clients -> Val \cup {Absent}]
    <3>1. \/ seen' = seen
          \/ \E x \in Val : seen' = [seen EXCEPT ![c] = x]
      BY <1>5, ValueHandled
    <3>2. seen \in [Clients -> Val \cup {Absent}]
      BY DEF TypeOK
    <3> QED
      BY <3>1, <3>2
  <2>3. UNCHANGED <<conf, gauges, counters, msg, batch, history, sends, total,
                    told, floor>>
    BY <1>5, ValueHandled
  <2>4. TypeOK'
    BY <2>1, <2>2, <2>3 DEF TypeOK, history, Codes
  <2>5. Loaded'
    <3>1. at[c] = "sent" /\ at' = [at EXCEPT ![c] = "answer"]
      BY <1>5, ValueHandled
    <3> QED
      BY <2>3, <3>1 DEF TypeOK, Loaded
  <2> QED
    BY <2>4, <2>5
<1>6. ASSUME NEW c \in Clients, Answer(c)
      PROVE  Typed'
  <2>1. Nothing \in Maps /\ Zero \in [Names -> Nat] /\ Aborted \in Codes
    BY NothingType DEF Zero, Codes
  <2>2. told' \in [Names -> Nat]
    <3>1. effect[c].c \in Map /\ told \in [Names -> Nat]
      BY DEF TypeOK
    <3>2. Plus(told, effect[c].c) \in [Names -> Nat]
      BY <3>1, PlusType
    <3> QED
      BY <1>6, <3>1, <3>2 DEF Answer
  <2>3. /\ code' \in [Clients -> Codes] /\ batch' \in [Clients -> Maps]
        /\ effect' \in [Clients -> Maps]
        /\ commits' \in [Clients -> Times] /\ lost' \in [Clients -> Times]
    BY <1>6, <2>1 DEF Answer, TypeOK, Codes, Maps, Times, NoTimes
  <2>4. /\ at' \in [Clients -> {"idle", "sent", "gauges", "counters", "answer"}]
        /\ msg' \in [Clients -> Messages \cup {Absent}]
        /\ floor' \in [Clients -> [Names -> Nat]]
        /\ seen' \in [Clients -> Val \cup {Absent}]
    BY <1>6, <2>1 DEF Answer, TypeOK
  <2>5. UNCHANGED <<conf, gauges, counters, sends, total>>
    BY <1>6 DEF Answer
  <2>6. TypeOK'
    BY <2>2, <2>3, <2>4, <2>5 DEF TypeOK, Codes, Maps, Times
  <2>7. Loaded'
    BY <1>6 DEF Answer, TypeOK, Loaded
  <2> QED
    BY <2>6, <2>7
<1>7. CASE UNCHANGED vars
  BY <1>7 DEF vars, history, TypeOK, Loaded
<1> QED
  BY <1>1, <1>2, <1>3, <1>4, <1>5, <1>6, <1>7 DEF Next

\* Every variable has its type, whatever the messages: no counter leaves its
\* int64, and no handler looks at a metric there is not.
THEOREM TypeCorrect == Spec => []TypeOK
<1>1. Typed => TypeOK
  BY DEF Typed
<1> QED
  BY <1>1, InitTyped, StepTyped, PTL DEF Spec

-----------------------------------------------------------------------------
(* What is answered with 200 has been applied. *)

\* Effect e is what an update of message m may leave behind under
\* configuration f.
Left(f, m, e) ==
  \/ e = Nothing \/ e = Promised(m)
  \/ f.backend # "memory" /\ e = [Promised(m) EXCEPT !.c = EmptyMap]

\* How far a handler has come: what it brings to the repository is what 200
\* promises; of that the gauges are set first, and where a COMMIT is repeated
\* the same once more.
Progress(f, s, m, k, b, e) ==
  /\ s \in {"idle", "sent"} => e = Nothing
  /\ s \in {"gauges", "counters"} => Update(m) /\ b = Promised(m)
  /\ s = "gauges" => \/ e = Nothing
                     \/ f.backend # "memory" /\ e = [g |-> b.g, c |-> EmptyMap]
  /\ s = "counters" => \/ e = [g |-> b.g, c |-> EmptyMap]
                       \/ f.backend # "memory" /\ e = b
  /\ s = "answer" /\ k = 200 /\ Update(m) => e = Promised(m)
  /\ s = "answer" /\ Update(m) => Left(f, m, e)

Applying ==
  \A c \in Clients :
    Progress(conf, at[c], msg[c], code[c], batch[c], effect[c])

LEMMA StepApplying == Typed /\ Applying /\ [Next]_vars => Applying'
<1> SUFFICES ASSUME Typed, Applying, [Next]_vars
             PROVE  Applying'
  OBVIOUS
<1>1. /\ DOMAIN at = Clients /\ DOMAIN msg = Clients /\ DOMAIN code = Clients
      /\ batch \in [Clients -> Maps] /\ effect \in [Clients -> Maps]
  BY DEF Typed, TypeOK, Maps
<1>0. conf' = conf
  BY DEF Next, Send, HandleUpdate, SetGauges, SetCounters, HandleValue, Answer, vars
<1>2. ASSUME NEW c \in Clients,
             \A d \in Clients \ {c} :
               /\ at'[d] = at[d] /\ msg'[d] = msg[d] /\ code'[d] = code[d]
               /\ batch'[d] = batch[d] /\ effect'[d] = effect[d],
             Progress(conf', at'[c], msg'[c], code'[c], batch'[c], effect'[c])
      PROVE  Applying'
  <2>1. ASSUME NEW d \in Clients
        PROVE  Progress(conf', at'[d], msg'[d], code'[d], batch'[d], effect'[d])
    <3>1. CASE d = c
      BY <1>2, <3>1
    <3>2. CASE d # c
      BY <1>2, <1>0, <3>2 DEF Applying
    <3> QED
      BY <3>1, <3>2
  <2> QED
    BY <2>1 DEF Applying
<1>3. ASSUME NEW c \in Clients, NEW m \in Messages, Send(c, m)
      PROVE  Applying'
  <2>1. /\ at[c] = "idle" /\ at'[c] = "sent" /\ effect' = effect
        /\ \A d \in Clients \ {c} :
             /\ at'[d] = at[d] /\ msg'[d] = msg[d] /\ code'[d] = code[d]
             /\ batch'[d] = batch[d] /\ effect'[d] = effect[d]
    BY <1>1, <1>3 DEF Send, history
  <2> QED
    BY <1>2, <2>1 DEF Applying, Progress
<1>4. ASSUME NEW c \in Clients, HandleUpdate(c)
      PROVE  Applying'
  <2>1. PICK v :
          /\ v.code = 200 => v.batch = Promised(msg[c])
          /\ code' = [code EXCEPT ![c] =
                        IF /\ Stopped(msg[c]) = 0 /\ DecryptFails(msg[c])
                           /\ v.code # Aborted
                          THEN 500 ELSE v.code]
          /\ batch' = [batch EXCEPT ![c] = v.batch]
          /\ at' = [at EXCEPT ![c] =
                      IF v.code = 200 THEN "gauges" ELSE "answer"]
    BY <1>4, UpdateHandled
  <2>2. at[c] = "sent" /\ Update(msg[c]) /\ UNCHANGED <<msg, effect>>
    BY <1>4 DEF HandleUpdate, history
  <2>3. /\ effect'[c] = Nothing
        /\ at'[c] = IF v.code = 200 THEN "gauges" ELSE "answer"
        /\ batch'[c] = v.batch /\ code'[c] \in {500, v.code}
    BY <1>1, <2>1, <2>2 DEF Applying, Progress
  <2>4. \A d \in Clients \ {c} :
          /\ at'[d] = at[d] /\ msg'[d] = msg[d] /\ code'[d] = code[d]
          /\ batch'[d] = batch[d] /\ effect'[d] = effect[d]
    BY <1>1, <2>1, <2>2
  <2>5. Progress(conf', at'[c], msg'[c], code'[c], batch'[c], effect'[c])
    BY <2>1, <2>2, <2>3 DEF Progress, Left
  <2> QED
    BY <1>2, <2>4, <2>5
<1>5. ASSUME NEW c \in Clients, SetGauges(c)
      PROVE  Applying'
  <2> DEFINE half == [g |-> batch[c].g, c |-> EmptyMap]
  <2>1. /\ at[c] = "gauges" /\ UNCHANGED <<msg, batch>>
    BY <1>5, GaugesCalled
  <2>2. /\ Update(msg[c]) /\ batch[c] = Promised(msg[c])
        /\ effect[c] = Nothing \/ (conf.backend # "memory" /\ effect[c] = half)
    BY <2>1 DEF Applying, Progress
  <2>3. /\ [effect EXCEPT ![c].g = batch[c].g][c]
             = [effect[c] EXCEPT !.g = batch[c].g]
        /\ [effect[c] EXCEPT !.g = batch[c].g] = half
    <3>1. [effect[c] EXCEPT !.g = batch[c].g] = half
      <4>1. CASE effect[c] = Nothing
        BY <4>1 DEF Nothing
      <4>2. CASE effect[c] = half
        BY <4>2
      <4> QED
        BY <2>2, <4>1, <4>2
    <3> QED
      BY <1>1, <3>1
  <2>4. \/ effect'[c] = half /\ at'[c] = "counters"
        \/ /\ effect'[c] = half /\ conf.backend # "memory"
           /\ at'[c] = "gauges"
        \/ /\ code'[c] = 500 /\ at'[c] = "answer" /\ conf.backend # "memory"
           /\ effect'[c] = Nothing \/ effect'[c] = half
    <3>1. CASE /\ batch[c].g = EmptyMap /\ UNCHANGED effect
               /\ at' = [at EXCEPT ![c] = "counters"]
      <4>1. Nothing = half
        BY <3>1 DEF Nothing
      <4> QED
        BY <1>1, <2>2, <3>1, <4>1
    <3>2. CASE /\ effect' = [effect EXCEPT ![c].g = batch[c].g]
               /\ at' = [at EXCEPT ![c] = "counters"]
      BY <1>1, <2>3, <3>2
    <3>3. CASE /\ effect' = [effect EXCEPT ![c].g = batch[c].g]
               /\ conf.backend # "memory"
               /\ \/ /\ code' = [code EXCEPT ![c] = 500]
                     /\ at' = [at EXCEPT ![c] = "answer"]
                  \/ at' = [at EXCEPT ![c] = "gauges"]
      BY <1>1, <2>3, <3>3
    <3>4. CASE /\ UNCHANGED effect /\ conf.backend # "memory"
               /\ code' = [code EXCEPT ![c] = 500]
               /\ at' = [at EXCEPT ![c] = "answer"]
      BY <1>1, <2>2, <3>4
    <3> HIDE DEF half
    <3> QED
      BY <1>5, <3>1, <3>2, <3>3, <3>4, GaugesCalled
  <2>5. \A d \in Clients \ {c} :
          /\ at'[d] = at[d] /\ msg'[d] = msg[d] /\ code'[d] = code[d]
          /\ batch'[d] = batch[d] /\ effect'[d] = effect[d]
    BY <1>1, <1>5, <2>1, GaugesCalled
  <2>6. Progress(conf', at'[c], msg'[c], code'[c], batch'[c], effect'[c])
    <3>1. [Promised(msg[c]) EXCEPT !.c = EmptyMap] = half
      BY <1>1, <2>2 DEF Maps
    <3> QED
      BY <1>0, <2>1, <2>2, <2>4, <3>1 DEF Progress, Left
  <2> QED
    BY <1>2, <2>5, <2>6
<1>6. ASSUME NEW c \in Clients, SetCounters(c)
      PROVE  Applying'
  <2> DEFINE half == [g |-> batch[c].g, c |-> EmptyMap]
  <2>1. /\ at[c] = "counters" /\ UNCHANGED <<msg, batch>>
    BY <1>6, CountersCalled
  <2>2. /\ Update(msg[c]) /\ batch[c] = Promised(msg[c])
        /\ \/ effect[c] = half
           \/ conf.backend # "memory" /\ effect[c] = batch[c]
    BY <2>1 DEF Applying, Progress
  <2>3. batch[c] = [g |-> batch[c].g, c |-> batch[c].c]
    BY <1>1 DEF Maps
  <2>4. /\ [effect EXCEPT ![c].c = batch[c].c][c]
             = [effect[c] EXCEPT !.c = batch[c].c]
        /\ [effect[c] EXCEPT !.c = batch[c].c] = batch[c]
    <3>1. [effect[c] EXCEPT !.c = batch[c].c]
            = [g |-> batch[c].g, c |-> batch[c].c]
      <4>1. effect[c] = half \/ effect[c] = [g |-> batch[c].g, c |-> batch[c].c]
        BY <2>2, <2>3
      <4> QED
        BY <4>1
    <3> QED
      BY <1>1, <2>3, <3>1
  <2>5. \/ effect'[c] = batch[c] /\ at'[c] = "answer"
        \/ /\ effect'[c] = batch[c] /\ conf.backend # "memory"
           /\ at'[c] = "counters"
        \/ /\ code'[c] = 500 /\ at'[c] = "answer" /\ conf.backend # "memory"
           /\ effect'[c] = batch[c] \/ effect'[c] = half
    <3>1. CASE /\ batch[c].c = EmptyMap /\ UNCHANGED effect
               /\ at' = [at EXCEPT ![c] = "answer"]
      <4>1. batch[c] = half
        BY <2>3, <3>1
      <4> QED
        BY <1>1, <2>2, <3>1, <4>1
    <3>2. CASE /\ effect' = [effect EXCEPT ![c].c = batch[c].c]
               /\ at' = [at EXCEPT ![c] = "answer"]
      BY <1>1, <2>4, <3>2
    <3>3. CASE /\ effect' = [effect EXCEPT ![c].c = batch[c].c]
               /\ conf.backend # "memory"
               /\ \/ /\ code' = [code EXCEPT ![c] = 500]
                     /\ at' = [at EXCEPT ![c] = "answer"]
                  \/ at' = [at EXCEPT ![c] = "counters"]
      BY <1>1, <2>4, <3>3
    <3>4. CASE /\ UNCHANGED effect /\ conf.backend # "memory"
               /\ code' = [code EXCEPT ![c] = 500]
               /\ at' = [at EXCEPT ![c] = "answer"]
      BY <1>1, <2>2, <3>4
    <3> HIDE DEF half
    <3> QED
      BY <1>6, <3>1, <3>2, <3>3, <3>4, CountersCalled
  <2>6. \A d \in Clients \ {c} :
          /\ at'[d] = at[d] /\ msg'[d] = msg[d] /\ code'[d] = code[d]
          /\ batch'[d] = batch[d] /\ effect'[d] = effect[d]
    BY <1>1, <1>6, <2>1, CountersCalled
  <2>7. Progress(conf', at'[c], msg'[c], code'[c], batch'[c], effect'[c])
    <3>1. [Promised(msg[c]) EXCEPT !.c = EmptyMap] = half
      BY <1>1, <2>2 DEF Maps
    <3> QED
      BY <1>0, <2>1, <2>2, <2>5, <3>1 DEF Progress, Left
  <2> QED
    BY <1>2, <2>6, <2>7
<1>7. ASSUME NEW c \in Clients, HandleValue(c)
      PROVE  Applying'
  <2>1. /\ ~Update(msg[c]) /\ at' = [at EXCEPT ![c] = "answer"]
        /\ UNCHANGED <<msg, batch, effect>>
        /\ \E x : code' = [code EXCEPT ![c] = x]
    BY <1>7 DEF HandleValue, history
  <2>2. \A d \in Clients \ {c} :
          /\ at'[d] = at[d] /\ msg'[d] = msg[d] /\ code'[d] = code[d]
          /\ batch'[d] = batch[d] /\ effect'[d] = effect[d]
    BY <1>1, <2>1
  <2>3. Progress(conf', at'[c], msg'[c], code'[c], batch'[c], effect'[c])
    BY <1>1, <2>1 DEF Progress
  <2> QED
    BY <1>2, <2>2, <2>3
<1>8. ASSUME NEW c \in Clients, Answer(c)
      PROVE  Applying'
  <2>1. at'[c] = "idle" /\ effect'[c] = Nothing
    BY <1>1, <1>8 DEF Answer
  <2>2. \A d \in Clients \ {c} :
          /\ at'[d] = at[d] /\ msg'[d] = msg[d] /\ code'[d] = code[d]
          /\ batch'[d] = batch[d] /\ effect'[d] = effect[d]
    BY <1>1, <1>8 DEF Answer
  <2>3. Progress(conf', at'[c], msg'[c], code'[c], batch'[c], effect'[c])
    BY <2>1 DEF Progress
  <2> QED
    BY <1>2, <2>2, <2>3
<1>9. CASE UNCHANGED vars
  BY <1>9 DEF vars, history, Applying
<1> QED
  BY <1>3, <1>4, <1>5, <1>6, <1>7, <1>8, <1>9 DEF Next

\* How often the two parts of b have been committed (x), and how often of that
\* the handler has not been told (y).
Counted(f, s, m, k, b, x, y) ==
  /\ f.backend = "memory" => y = NoTimes
  /\ s \in {"idle", "sent"} => x = NoTimes /\ y = NoTimes
  /\ s = "gauges" => x.g = y.g /\ x.c = y.c
  /\ s = "counters" => x.g = y.g + Due(b.g) /\ x.c = y.c
  /\ s = "answer" /\ k = 200 /\ Update(m) =>
       x.g = y.g + Due(Promised(m).g) /\ x.c = y.c + Due(Promised(m).c)
  /\ s = "answer" /\ k = 500 /\ Update(m) => DecryptFails(m) \/ x.c = y.c

Counting ==
  \A c \in Clients :
    Counted(conf, at[c], msg[c], code[c], batch[c], commits[c], lost[c])

\* How a call of SetGauges or SetCounters changes the counts: j commits more, l
\* of them in doubt.
LEMMA GaugesCounted ==
  ASSUME Typed, NEW c \in Clients, SetGauges(c)
  PROVE  /\ \A d \in Clients \ {c} : commits'[d] = commits[d] /\ lost'[d] = lost[d]
         /\ \E j, l \in {0, 1} :
              /\ commits'[c].g = commits[c].g + j /\ commits'[c].c = commits[c].c
              /\ lost'[c].g = lost[c].g + l /\ lost'[c].c = lost[c].c
              /\ conf.backend = "memory" => l = 0
              /\ \/ at'[c] = "counters" /\ j = l + Due(batch[c].g)
                 \/ at'[c] = "gauges" /\ j = l
                 \/ at'[c] = "answer" /\ code'[c] = 500 /\ j = l
<1>1. /\ commits \in [Clients -> Times] /\ lost \in [Clients -> Times]
      /\ DOMAIN at = Clients /\ DOMAIN code = Clients
  BY DEF Typed, TypeOK, Times
<1>2. /\ commits[c].g \in Nat /\ lost[c].g \in Nat
  BY <1>1 DEF Times
<1>3. ASSUME NEW f \in [Clients -> Times], NEW k \in Nat
      PROVE  LET h == [f EXCEPT ![c].g = @ + k]
             IN /\ h[c].g = f[c].g + k /\ h[c].c = f[c].c
                /\ \A d \in Clients \ {c} : h[d] = f[d]
  BY OnceMore
<1>4. CASE /\ batch[c].g = EmptyMap /\ UNCHANGED <<commits, lost>>
           /\ at' = [at EXCEPT ![c] = "counters"]
  BY <1>1, <1>2, <1>4 DEF Due
<1>5. CASE /\ batch[c].g # EmptyMap
           /\ commits' = [commits EXCEPT ![c].g = @ + 1]
           /\ lost' = [lost EXCEPT ![c].g = @ + 0]
           /\ at' = [at EXCEPT ![c] = "counters"]
  <2>1. /\ commits'[c].g = commits[c].g + 1 /\ commits'[c].c = commits[c].c
        /\ \A d \in Clients \ {c} : commits'[d] = commits[d]
    BY <1>1, <1>3, <1>5
  <2>2. /\ lost'[c].g = lost[c].g + 0 /\ lost'[c].c = lost[c].c
        /\ \A d \in Clients \ {c} : lost'[d] = lost[d]
    BY <1>1, <1>3, <1>5
  <2>3. 1 = 0 + Due(batch[c].g) /\ at'[c] = "counters"
    BY <1>1, <1>5 DEF Due
  <2> QED
    BY <2>1, <2>2, <2>3
<1>6. CASE /\ commits' = [commits EXCEPT ![c].g = @ + 1]
           /\ lost' = [lost EXCEPT ![c].g = @ + 1]
           /\ conf.backend # "memory"
           /\ \/ /\ code' = [code EXCEPT ![c] = 500]
                 /\ at' = [at EXCEPT ![c] = "answer"]
              \/ at' = [at EXCEPT ![c] = "gauges"]
  <2>1. /\ commits'[c].g = commits[c].g + 1 /\ commits'[c].c = commits[c].c
        /\ \A d \in Clients \ {c} : commits'[d] = commits[d]
    BY <1>1, <1>3, <1>6
  <2>2. /\ lost'[c].g = lost[c].g + 1 /\ lost'[c].c = lost[c].c
        /\ \A d \in Clients \ {c} : lost'[d] = lost[d]
    BY <1>1, <1>3, <1>6
  <2>3. at'[c] = "gauges" \/ (at'[c] = "answer" /\ code'[c] = 500)
    BY <1>1, <1>6
  <2> QED
    BY <1>6, <2>1, <2>2, <2>3
<1>7. CASE /\ UNCHANGED commits
           /\ lost' = [lost EXCEPT ![c].g = @ + 0]
           /\ conf.backend # "memory"
           /\ code' = [code EXCEPT ![c] = 500]
           /\ at' = [at EXCEPT ![c] = "answer"]
  <2>1. /\ commits'[c].g = commits[c].g + 0 /\ commits'[c].c = commits[c].c
        /\ \A d \in Clients \ {c} : commits'[d] = commits[d]
    BY <1>2, <1>7
  <2>2. /\ lost'[c].g = lost[c].g + 0 /\ lost'[c].c = lost[c].c
        /\ \A d \in Clients \ {c} : lost'[d] = lost[d]
    BY <1>1, <1>3, <1>7
  <2>3. at'[c] = "answer" /\ code'[c] = 500
    BY <1>1, <1>7
  <2> QED
    BY <2>1, <2>2, <2>3
<1> QED
  BY <1>4, <1>5, <1>6, <1>7, GaugesCalled

LEMMA CountersCounted ==
  ASSUME Typed, NEW c \in Clients, SetCounters(c)
  PROVE  /\ \A d \in Clients \ {c} : commits'[d] = commits[d] /\ lost'[d] = lost[d]
         /\ \E j, l \in {0, 1} :
              /\ commits'[c].c = commits[c].c + j /\ commits'[c].g = commits[c].g
              /\ lost'[c].c = lost[c].c + l /\ lost'[c].g = lost[c].g
              /\ conf.backend = "memory" => l = 0
              /\ \/ /\ at'[c] = "answer" /\ code'[c] = code[c]
                    /\ j = l + Due(batch[c].c)
                 \/ at'[c] = "counters" /\ j = l
                 \/ at'[c] = "answer" /\ code'[c] = 500 /\ j = l
<1>1. /\ commits \in [Clients -> Times] /\ lost \in [Clients -> Times]
      /\ DOMAIN at = Clients /\ DOMAIN code = Clients
  BY DEF Typed, TypeOK, Times
<1>2. /\ commits[c].c \in Nat /\ lost[c].c \in Nat
  BY <1>1 DEF Times
<1>3. ASSUME NEW f \in [Clients -> Times], NEW k \in Nat
      PROVE  LET h == [f EXCEPT ![c].c = @ + k]
             IN /\ h[c].c = f[c].c + k /\ h[c].g = f[c].g
                /\ \A d \in Clients \ {c} : h[d] = f[d]
  BY OnceMore
<1>4. CASE /\ batch[c].c = EmptyMap /\ UNCHANGED <<commits, lost, code>>
           /\ at' = [at EXCEPT ![c] = "answer"]
  BY <1>1, <1>2, <1>4 DEF Due
<1>5. CASE /\ batch[c].c # EmptyMap
           /\ commits' = [commits EXCEPT ![c].c = @ + 1]
           /\ lost' = [lost EXCEPT ![c].c = @ + 0]
           /\ code' = [code EXCEPT ![c] = @]
           /\ at' = [at EXCEPT ![c] = "answer"]
  <2>1. /\ commits'[c].c = commits[c].c + 1 /\ commits'[c].g = commits[c].g
        /\ \A d \in Clients \ {c} : commits'[d] = commits[d]
    BY <1>1, <1>3, <1>5
  <2>2. /\ lost'[c].c = lost[c].c + 0 /\ lost'[c].g = lost[c].g
        /\ \A d \in Clients \ {c} : lost'[d] = lost[d]
    BY <1>1, <1>3, <1>5
  <2>3. 1 = 0 + Due(batch[c].c) /\ at'[c] = "answer" /\ code'[c] = code[c]
    BY <1>1, <1>5 DEF Due
  <2> QED
    BY <2>1, <2>2, <2>3
<1>6. CASE /\ commits' = [commits EXCEPT ![c].c = @ + 1]
           /\ lost' = [lost EXCEPT ![c].c = @ + 1]
           /\ conf.backend # "memory"
           /\ \/ /\ code' = [code EXCEPT ![c] = 500]
                 /\ at' = [at EXCEPT ![c] = "answer"]
              \/ at' = [at EXCEPT ![c] = "counters"]
  <2>1. /\ commits'[c].c = commits[c].c + 1 /\ commits'[c].g = commits[c].g
        /\ \A d \in Clients \ {c} : commits'[d] = commits[d]
    BY <1>1, <1>3, <1>6
  <2>2. /\ lost'[c].c = lost[c].c + 1 /\ lost'[c].g = lost[c].g
        /\ \A d \in Clients \ {c} : lost'[d] = lost[d]
    BY <1>1, <1>3, <1>6
  <2>3. at'[c] = "counters" \/ (at'[c] = "answer" /\ code'[c] = 500)
    BY <1>1, <1>6
  <2> QED
    BY <1>6, <2>1, <2>2, <2>3
<1>7. CASE /\ UNCHANGED commits
           /\ lost' = [lost EXCEPT ![c].c = @ + 0]
           /\ conf.backend # "memory"
           /\ code' = [code EXCEPT ![c] = 500]
           /\ at' = [at EXCEPT ![c] = "answer"]
  <2>1. /\ commits'[c].c = commits[c].c + 0 /\ commits'[c].g = commits[c].g
        /\ \A d \in Clients \ {c} : commits'[d] = commits[d]
    BY <1>2, <1>7
  <2>2. /\ lost'[c].c = lost[c].c + 0 /\ lost'[c].g = lost[c].g
        /\ \A d \in Clients \ {c} : lost'[d] = lost[d]
    BY <1>1, <1>3, <1>7
  <2>3. at'[c] = "answer" /\ code'[c] = 500
    BY <1>1, <1>7
  <2> QED
    BY <2>1, <2>2, <2>3
<1> QED
  BY <1>4, <1>5, <1>6, <1>7, CountersCalled

\* A count that is zero in both parts.
LEMMA NoTimesOnly ==
  ASSUME NEW y \in Times, y.g = 0, y.c = 0
  PROVE  y = NoTimes
BY DEF Times, NoTimes

LEMMA StepCounting ==
  IInv /\ Typed /\ Applying /\ Counting /\ [Next]_vars => Counting'
<1> SUFFICES ASSUME IInv, Typed, Applying, Counting, [Next]_vars
             PROVE  Counting'
  OBVIOUS
<1>1. /\ DOMAIN at = Clients /\ DOMAIN msg = Clients /\ DOMAIN code = Clients
      /\ DOMAIN batch = Clients
      /\ commits \in [Clients -> Times] /\ lost \in [Clients -> Times]
  BY DEF Typed, TypeOK, Times
<1>2. conf' = conf
  BY DEF Next, Send, HandleUpdate, SetGauges, SetCounters, HandleValue, Answer,
         vars
<1>3. ASSUME NEW c \in Clients,
             \A d \in Clients \ {c} :
               /\ at'[d] = at[d] /\ msg'[d] = msg[d] /\ code'[d] = code[d]
               /\ batch'[d] = batch[d]
               /\ commits'[d] = commits[d] /\ lost'[d] = lost[d],
             Counted(conf', at'[c], msg'[c], code'[c], batch'[c], commits'[c],
                     lost'[c])
      PROVE  Counting'
  <2>1. ASSUME NEW d \in Clients
        PROVE  Counted(conf', at'[d], msg'[d], code'[d], batch'[d], commits'[d],
                       lost'[d])
    <3>1. CASE d = c
      BY <1>3, <3>1
    <3>2. CASE d # c
      <4>1. Counted(conf, at[d], msg[d], code[d], batch[d], commits[d], lost[d])
        BY DEF Counting
      <4> QED
        BY <1>2, <1>3, <3>2, <4>1 DEF Counted, DecryptFails, Update
    <3> QED
      BY <3>1, <3>2
  <2> QED
    BY <1>2, <2>1 DEF Counting, Counted, DecryptFails, Update
<1>4. ASSUME NEW c \in Clients, NEW m \in Messages, Send(c, m)
      PROVE  Counting'
  <2>1. /\ at[c] = "idle" /\ at'[c] = "sent" /\ UNCHANGED <<commits, lost>>
        /\ \A d \in Clients \ {c} :
             /\ at'[d] = at[d] /\ msg'[d] = msg[d] /\ code'[d] = code[d]
             /\ batch'[d] = batch[d]
    BY <1>1, <1>4 DEF Send, history
  <2>2. commits[c] = NoTimes /\ lost[c] = NoTimes
    BY <2>1 DEF Counting, Counted
  <2>3. Counted(conf', at'[c], msg'[c], code'[c], batch'[c], commits'[c], lost'[c])
    BY <2>1, <2>2 DEF Counted
  <2> QED
    BY <1>3, <2>1, <2>3
<1>5. ASSUME NEW c \in Clients, HandleUpdate(c)
      PROVE  Counting'
  <2>1. PICK v :
          /\ code' = [code EXCEPT ![c] =
                        IF /\ Stopped(msg[c]) = 0 /\ DecryptFails(msg[c])
                           /\ v.code # Aborted
                          THEN 500 ELSE v.code]
          /\ batch' = [batch EXCEPT ![c] = v.batch]
          /\ at' = [at EXCEPT ![c] =
                      IF v.code = 200 THEN "gauges" ELSE "answer"]
    BY <1>5, UpdateHandled
  <2>2. at[c] = "sent" /\ UNCHANGED <<msg, commits, lost>>
    BY <1>5 DEF HandleUpdate, history
  <2>3. commits'[c] = NoTimes /\ lost'[c] = NoTimes
    BY <2>2 DEF Counting, Counted
  <2>4. at'[c] = "gauges" \/ (at'[c] = "answer" /\ code'[c] # 200)
    <3>1. CASE v.code = 200
      BY <1>1, <2>1, <3>1
    <3>2. CASE v.code # 200
      <4>1. at'[c] = "answer" /\ code'[c] \in {500, v.code}
        BY <1>1, <2>1, <3>2
      <4> QED
        BY <3>2, <4>1
    <3> QED
      BY <3>1, <3>2
  <2>5. Counted(conf', at'[c], msg'[c], code'[c], batch'[c], commits'[c], lost'[c])
    BY <2>3, <2>4 DEF Counted, NoTimes
  <2>6. \A d \in Clients \ {c} :
          /\ at'[d] = at[d] /\ msg'[d] = msg[d] /\ code'[d] = code[d]
          /\ batch'[d] = batch[d]
          /\ commits'[d] = commits[d] /\ lost'[d] = lost[d]
    BY <1>1, <2>1, <2>2
  <2> QED
    BY <1>3, <2>5, <2>6
<1>6. ASSUME NEW c \in Clients, SetGauges(c)
      PROVE  Counting'
  <2>1. /\ at[c] = "gauges" /\ UNCHANGED <<msg, batch>>
    BY <1>6, GaugesCalled
  <2>2. /\ conf.backend = "memory" => lost[c] = NoTimes
        /\ commits[c].g = lost[c].g /\ commits[c].c = lost[c].c
    BY <2>1 DEF Counting, Counted
  <2>3. PICK j \in {0, 1}, l \in {0, 1} :
          /\ commits'[c].g = commits[c].g + j /\ commits'[c].c = commits[c].c
          /\ lost'[c].g = lost[c].g + l /\ lost'[c].c = lost[c].c
          /\ conf.backend = "memory" => l = 0
          /\ \/ at'[c] = "counters" /\ j = l + Due(batch[c].g)
             \/ at'[c] = "gauges" /\ j = l
             \/ at'[c] = "answer" /\ code'[c] = 500 /\ j = l
    BY <1>6, GaugesCounted
  <2>4. lost'[c] \in Times /\ commits[c].g \in Nat /\ lost[c].g \in Nat
    BY <1>1, <1>6, CountsTyped DEF Times
  <2>5. conf.backend = "memory" => lost'[c] = NoTimes
    <3>1. conf.backend = "memory" => lost'[c].g = 0 /\ lost'[c].c = 0
      BY <2>2, <2>3 DEF NoTimes
    <3> QED
      BY <2>4, <3>1, NoTimesOnly
  <2>6. /\ j = l => commits'[c].g = lost'[c].g
        /\ j = l + Due(batch[c].g)
             => commits'[c].g = lost'[c].g + Due(batch[c].g)
        /\ commits'[c].c = lost'[c].c
    BY <2>2, <2>3, <2>4 DEF Due
  <2>7. Counted(conf', at'[c], msg'[c], code'[c], batch'[c], commits'[c], lost'[c])
    BY <1>2, <2>1, <2>3, <2>5, <2>6 DEF Counted
  <2>8. \A d \in Clients \ {c} :
          /\ at'[d] = at[d] /\ msg'[d] = msg[d] /\ code'[d] = code[d]
          /\ batch'[d] = batch[d]
          /\ commits'[d] = commits[d] /\ lost'[d] = lost[d]
    BY <1>1, <1>6, <2>1, GaugesCalled, GaugesCounted
  <2> QED
    BY <1>3, <2>7, <2>8
<1>7. ASSUME NEW c \in Clients, SetCounters(c)
      PROVE  Counting'
  <2>1. /\ at[c] = "counters" /\ UNCHANGED <<msg, batch>>
    BY <1>7, CountersCalled
  <2>2. /\ conf.backend = "memory" => lost[c] = NoTimes
        /\ commits[c].g = lost[c].g + Due(batch[c].g)
        /\ commits[c].c = lost[c].c
    BY <2>1 DEF Counting, Counted
  <2>3. PICK j \in {0, 1}, l \in {0, 1} :
          /\ commits'[c].c = commits[c].c + j /\ commits'[c].g = commits[c].g
          /\ lost'[c].c = lost[c].c + l /\ lost'[c].g = lost[c].g
          /\ conf.backend = "memory" => l = 0
          /\ \/ /\ at'[c] = "answer" /\ code'[c] = code[c]
                /\ j = l + Due(batch[c].c)
             \/ at'[c] = "counters" /\ j = l
             \/ at'[c] = "answer" /\ code'[c] = 500 /\ j = l
    BY <1>7, CountersCounted
  <2>4. lost'[c] \in Times /\ commits[c].c \in Nat /\ lost[c].c \in Nat
    BY <1>1, <1>7, CountsTyped DEF Times
  <2>5. conf.backend = "memory" => lost'[c] = NoTimes
    <3>1. conf.backend = "memory" => lost'[c].g = 0 /\ lost'[c].c = 0
      BY <2>2, <2>3 DEF NoTimes
    <3> QED
      BY <2>4, <3>1, NoTimesOnly
  <2>6. /\ j = l => commits'[c].c = lost'[c].c
        /\ j = l + Due(batch[c].c)
             => commits'[c].c = lost'[c].c + Due(batch[c].c)
        /\ commits'[c].g = lost'[c].g + Due(batch[c].g)
    BY <2>2, <2>3, <2>4 DEF Due
  <2>7. /\ batch[c] = Promised(msg[c])
        /\ code[c] = 200 \/ (code[c] = 500 /\ DecryptFails(msg[c]))
    BY <2>1 DEF Applying, Progress, IInv, NoTraceYet, Passed
  <2>8. Counted(conf', at'[c], msg'[c], code'[c], batch'[c], commits'[c], lost'[c])
    BY <1>2, <2>1, <2>3, <2>5, <2>6, <2>7 DEF Counted
  <2>9. \A d \in Clients \ {c} :
          /\ at'[d] = at[d] /\ msg'[d] = msg[d] /\ code'[d] = code[d]
          /\ batch'[d] = batch[d]
          /\ commits'[d] = commits[d] /\ lost'[d] = lost[d]
    BY <1>1, <1>7, <2>1, CountersCalled, CountersCounted
  <2> QED
    BY <1>3, <2>8, <2>9
<1>8. ASSUME NEW c \in Clients, HandleValue(c)
      PROVE  Counting'
  <2>1. /\ at[c] = "sent" /\ ~Update(msg[c]) /\ at' = [at EXCEPT ![c] = "answer"]
        /\ UNCHANGED <<msg, batch, commits, lost>>
        /\ \E x : code' = [code EXCEPT ![c] = x]
    BY <1>8 DEF HandleValue, history
  <2>2. lost[c] = NoTimes
    BY <2>1 DEF Counting, Counted
  <2>3. Counted(conf', at'[c], msg'[c], code'[c], batch'[c], commits'[c], lost'[c])
    BY <1>1, <2>1, <2>2 DEF Counted
  <2>4. \A d \in Clients \ {c} :
          /\ at'[d] = at[d] /\ msg'[d] = msg[d] /\ code'[d] = code[d]
          /\ batch'[d] = batch[d]
          /\ commits'[d] = commits[d] /\ lost'[d] = lost[d]
    BY <1>1, <2>1
  <2> QED
    BY <1>3, <2>3, <2>4
<1>9. ASSUME NEW c \in Clients, Answer(c)
      PROVE  Counting'
  <2>1. at'[c] = "idle" /\ commits'[c] = NoTimes /\ lost'[c] = NoTimes
    BY <1>1, <1>9 DEF Answer
  <2>2. \A d \in Clients \ {c} :
          /\ at'[d] = at[d] /\ msg'[d] = msg[d] /\ code'[d] = code[d]
          /\ batch'[d] = batch[d]
          /\ commits'[d] = commits[d] /\ lost'[d] = lost[d]
    BY <1>1, <1>9 DEF Answer
  <2>3. Counted(conf', at'[c], msg'[c], code'[c], batch'[c], commits'[c], lost'[c])
    BY <2>1 DEF Counted
  <2> QED
    BY <1>3, <2>2, <2>3
<1>10. CASE UNCHANGED vars
  BY <1>10 DEF vars, history, Counting, Counted, DecryptFails, Update
<1> QED
  BY <1>4, <1>5, <1>6, <1>7, <1>8, <1>9, <1>10 DEF Next

\* What the properties of an update's effect rest on: which way its handler was
\* let through, what it has applied so far, and how often.
Applied == IInv /\ Typed /\ Applying /\ Counting

LEMMA InitApplied == Init => Applied
<1> SUFFICES ASSUME Init
             PROVE  Applied
  OBVIOUS
<1>1. IInv
  BY DEF Init, IInv, PerClient, NoTraceYet
<1>2. Applying
  BY DEF Init, Applying, Progress
<1>3. Counting
  BY DEF Init, Counting, Counted
<1> QED
  BY <1>1, <1>2, <1>3, InitTyped DEF Applied

LEMMA StepApplied == Applied /\ [Next]_vars => Applied'
BY StepIInv, StepTyped, StepApplying, StepCounting DEF Applied

\* An update answered with 200 has been applied as a whole, whatever other
\* clients do meanwhile: each gauge of the message has its last value, each
\* counter the sum of its deltas; in memory once, in PostgreSQL once and once
\* more for every COMMIT that took effect, was not answered and was repeated.
THEOREM OkApplied == Spec => []OkMeansApplied
<1>1. Applied => OkMeansApplied
  BY DEF Applied, Applying, Progress, Counting, Counted, OkMeansApplied
<1> QED
  BY <1>1, InitApplied, StepApplied, PTL DEF Spec

\* Whatever an update is answered with, and wherever the repository failed, its
\* gauges and its counters have been applied in this order and each as a whole;
\* with the in-memory repository never one without the other, and with an error
\* of PostgreSQL the counters only by commits that were not answered.
THEOREM AppliedInOrder == Spec => []PartsInOrder
<1>1. Applied => PartsInOrder
  <2> SUFFICES ASSUME Applied, NEW c \in Clients,
                      at[c] = "answer", Update(msg[c]), effect[c] # Nothing
               PROVE  /\ \/ effect[c] = Promised(msg[c])
                         \/ /\ conf.backend = "pgsql"
                            /\ effect[c] = [Promised(msg[c]) EXCEPT !.c = EmptyMap]
                      /\ code[c] = 500 /\ ~DecryptFails(msg[c])
                           => commits[c].c = lost[c].c
    BY DEF PartsInOrder
  <2>1. conf.backend \in {"memory", "pgsql"}
    BY MetricsAPIAssumption DEF Applied, Typed, TypeOK, ConfigType
  <2>2. Left(conf, msg[c], effect[c])
    BY DEF Applied, Applying, Progress
  <2>3. code[c] = 500 => DecryptFails(msg[c]) \/ commits[c].c = lost[c].c
    BY DEF Applied, Counting, Counted
  <2> QED
    BY <2>1, <2>2, <2>3 DEF Left
<1> QED
  BY <1>1, InitApplied, StepApplied, PTL DEF Spec

-----------------------------------------------------------------------------
(* Counters add up, and readers see what has been answered. *)

\* What clients have been told is covered by what has been applied, along with
\* what has been applied for each client that has no answer yet.
Pending(e, n) == [c \in Clients |-> Count(e[c].c[n])]
PendingUnits(e, n) == Units(Clients, Pending(e, n))

AddedUp(n, k, t) == Count(k[n]) = t[n] % W
Covered(n, e, d, t) ==
  /\ IsFiniteSet(PendingUnits(e, n))
  /\ d[n] + Cardinality(PendingUnits(e, n)) <= t[n]

\* What has been read of a counter, for a message m.
ReadSince(s, m, f, x, t) ==
  x # Absent => /\ s = "answer" /\ m.records[1].id \in Names
                /\ t[m.records[1].id] < W => x >= f[m.records[1].id]

Adding ==
  /\ \A n \in Names : AddedUp(n, counters, total) /\ Covered(n, effect, told, total)
  /\ \A c \in Clients : \A n \in Names : floor[c][n] <= told[n]
  /\ \A c \in Clients : ReadSince(at[c], msg[c], floor[c], seen[c], total)

LEMMA PendingChange ==
  ASSUME NEW e \in [Clients -> Maps], NEW f \in [Clients -> Maps],
         NEW c \in Clients, NEW n \in Names,
         \A d \in Clients \ {c} : f[d].c[n] = e[d].c[n],
         IsFiniteSet(PendingUnits(e, n))
  PROVE  /\ IsFiniteSet(PendingUnits(f, n))
         /\ Cardinality(PendingUnits(e, n)) \in Nat
         /\ Cardinality(PendingUnits(f, n)) \in Nat
         /\ Count(e[c].c[n]) \in Nat /\ Count(f[c].c[n]) \in Nat
         /\ Cardinality(PendingUnits(f, n)) + Count(e[c].c[n])
              = Cardinality(PendingUnits(e, n)) + Count(f[c].c[n])
<1>1. ASSUME NEW g \in [Clients -> Maps], NEW d \in Clients
      PROVE  Count(g[d].c[n]) \in Nat
  <2>1. g[d].c \in Map
    BY DEF Maps
  <2> QED
    BY <2>1, CountType
<1>2. /\ Pending(e, n) \in [Clients -> Nat] /\ Pending(f, n) \in [Clients -> Nat]
      /\ \A d \in Clients \ {c} : Pending(f, n)[d] = Pending(e, n)[d]
  BY <1>1 DEF Pending
<1>3. IsFiniteSet(Units(Clients, Pending(e, n)))
  BY DEF PendingUnits
<1>4. Pending(e, n)[c] = Count(e[c].c[n]) /\ Pending(f, n)[c] = Count(f[c].c[n])
  BY DEF Pending
<1>5. /\ IsFiniteSet(Units(Clients, Pending(f, n)))
      /\ Cardinality(Units(Clients, Pending(e, n))) \in Nat
      /\ Cardinality(Units(Clients, Pending(f, n))) \in Nat
      /\ Cardinality(Units(Clients, Pending(f, n))) + Pending(e, n)[c]
           = Cardinality(Units(Clients, Pending(e, n))) + Pending(f, n)[c]
  BY <1>2, <1>3, UnitsChange
<1> QED
  BY <1>1, <1>4, <1>5 DEF PendingUnits

LEMMA InitAdding == Init => Adding
<1> SUFFICES ASSUME Init
             PROVE  Adding
  OBVIOUS
<1>1. ASSUME NEW n \in Names
      PROVE  AddedUp(n, counters, total) /\ Covered(n, effect, told, total)
  <2>1. counters[n] = Absent /\ total[n] = 0 /\ told[n] = 0
    BY DEF Init, EmptyMap, Zero
  <2>2. 0 % W = 0 /\ Count(Absent) = 0
    BY Residue, Below DEF Count
  <2>3. \A c \in Clients : Pending(effect, n)[c] = 0
    BY EmptyMapType DEF Init, Pending, Nothing
  <2>4. /\ IsFiniteSet(PendingUnits(effect, n))
        /\ Cardinality(PendingUnits(effect, n)) = 0
    BY <2>3, NoUnits DEF PendingUnits
  <2> QED
    BY <2>1, <2>2, <2>4 DEF AddedUp, Covered
<1>2. \A c \in Clients : \A n \in Names : floor[c][n] <= told[n]
  <2>1. ASSUME NEW c \in Clients, NEW n \in Names
        PROVE  floor[c][n] <= told[n]
    <3>1. floor[c][n] = 0 /\ told[n] = 0
      BY DEF Init, Zero
    <3> QED
      BY <3>1
  <2> QED
    BY <2>1
<1>3. \A c \in Clients : ReadSince(at[c], msg[c], floor[c], seen[c], total)
  BY DEF Init, ReadSince
<1> QED
  BY <1>1, <1>2, <1>3 DEF Adding

\* While the counts, what is pending and what has been told stay as they are.
LEMMA SameCounts ==
  ASSUME Adding, UNCHANGED <<counters, total, told>>,
         \A c \in Clients : \A n \in Names : effect'[c].c[n] = effect[c].c[n],
         \A c \in Clients : \A n \in Names : floor'[c][n] <= told[n],
         \A c \in Clients : ReadSince(at'[c], msg'[c], floor'[c], seen'[c], total)
  PROVE  Adding'
<1>1. ASSUME NEW n \in Names
      PROVE  PendingUnits(effect', n) = PendingUnits(effect, n)
  <2>1. Pending(effect', n) = Pending(effect, n)
    BY DEF Pending
  <2> QED
    BY <2>1 DEF PendingUnits
<1>2. \A n \in Names : AddedUp(n, counters', total') /\ Covered(n, effect', told', total')
  BY <1>1 DEF Adding, AddedUp, Covered
<1> QED
  BY <1>2 DEF Adding

LEMMA StepAdding == Typed /\ Applying /\ Adding /\ [Next]_vars => Adding'
<1> SUFFICES ASSUME Typed, Applying, Adding, [Next]_vars
             PROVE  Adding'
  OBVIOUS
<1>1. /\ effect \in [Clients -> Maps] /\ batch \in [Clients -> Maps]
      /\ counters \in Map
      /\ total \in [Names -> Nat] /\ told \in [Names -> Nat]
      /\ floor \in [Clients -> [Names -> Nat]]
      /\ seen \in [Clients -> Val \cup {Absent}]
      /\ DOMAIN at = Clients /\ DOMAIN msg = Clients
  BY DEF Typed, TypeOK, Maps
<1>2. \A c \in Clients : ReadSince(at[c], msg[c], floor[c], seen[c], total)
  BY DEF Adding
<1>3. \A c \in Clients : \A n \in Names : floor[c][n] <= told[n]
  BY DEF Adding
<1>4. ASSUME NEW c \in Clients, NEW m \in Messages, Send(c, m)
      PROVE  Adding'
  <2>1. /\ at[c] = "idle" /\ UNCHANGED <<counters, total, told, effect, seen>>
        /\ floor' = [floor EXCEPT ![c] = told] /\ msg' = [msg EXCEPT ![c] = m]
        /\ at' = [at EXCEPT ![c] = "sent"]
    BY <1>4 DEF Send, history
  <2>2. \A d \in Clients : \A n \in Names : floor'[d][n] <= told[n]
    BY <1>1, <1>3, <2>1
  <2>3. seen[c] = Absent
    BY <1>2, <2>1 DEF ReadSince
  <2>4. \A d \in Clients : ReadSince(at'[d], msg'[d], floor'[d], seen'[d], total)
    BY <1>1, <1>2, <2>1, <2>3 DEF ReadSince
  <2> QED
    BY <2>1, <2>2, <2>4, SameCounts
<1>5. ASSUME NEW c \in Clients, HandleUpdate(c)
      PROVE  Adding'
  <2>1. /\ at[c] = "sent"
        /\ UNCHANGED <<counters, total, told, effect, seen, floor, msg>>
        /\ \E x : at' = [at EXCEPT ![c] = x]
    BY <1>5 DEF HandleUpdate, history
  <2>2. \A d \in Clients : ReadSince(at'[d], msg'[d], floor'[d], seen'[d], total)
    BY <1>1, <1>2, <2>1 DEF ReadSince
  <2> QED
    BY <1>3, <2>1, <2>2, SameCounts
<1>6. ASSUME NEW c \in Clients, SetGauges(c)
      PROVE  Adding'
  <2>1. /\ at[c] = "gauges" /\ UNCHANGED <<counters, total, told, seen, floor, msg>>
        /\ \E x : at' = [at EXCEPT ![c] = x]
        /\ effect' = effect \/ effect' = [effect EXCEPT ![c].g = batch[c].g]
    BY <1>6, GaugesCalled
  <2>2. \A d \in Clients : ReadSince(at'[d], msg'[d], floor'[d], seen'[d], total)
    BY <1>1, <1>2, <2>1 DEF ReadSince
  <2>3. \A d \in Clients : effect'[d].c = effect[d].c
    BY <1>1, <2>1 DEF Maps
  <2> QED
    BY <1>3, <2>1, <2>2, <2>3, SameCounts
<1>7. ASSUME NEW c \in Clients, SetCounters(c)
      PROVE  Adding'
  <2> DEFINE b == batch[c].c
  <2>1. /\ at[c] = "counters" /\ UNCHANGED <<told, seen, floor, msg>>
        /\ \E x : at' = [at EXCEPT ![c] = x]
        /\ \/ UNCHANGED <<counters, effect, total>>
           \/ /\ counters' = ApplyBatch("accum", counters, b)
              /\ effect' = [effect EXCEPT ![c].c = b]
              /\ total' = Plus(total, b)
    <3>1. batch[c] = Promised(msg[c])
      BY <1>7, CountersCalled DEF Applying, Progress
    <3> QED
      BY <1>7, <3>1, CountersCalled
  <2>2. ASSUME UNCHANGED <<counters, effect, total>>
        PROVE  Adding'
    <3>1. \A d \in Clients : ReadSince(at'[d], msg'[d], floor'[d], seen'[d], total)
      BY <1>1, <1>2, <2>1 DEF ReadSince
    <3> QED
      BY <1>3, <2>1, <2>2, <3>1, SameCounts
  <2>3. ASSUME counters' = ApplyBatch("accum", counters, b),
               effect' = [effect EXCEPT ![c].c = b], total' = Plus(total, b)
        PROVE  Adding'
    <3>1. b \in Map
      BY <1>1 DEF Maps
    <3> HIDE DEF b
    <3>2. \A n \in Names : /\ total'[n] = total[n] + Count(b[n])
                           /\ Count(b[n]) \in Nat /\ Count(b[n]) \in Val
                           /\ total[n] \in Nat /\ told[n] \in Nat
      BY <1>1, <2>3, <3>1, PlusType, CountType
    <3>3. ASSUME NEW n \in Names
          PROVE  AddedUp(n, counters', total')
      <4>1. Count(counters'[n]) = (Count(counters[n]) + Count(b[n])) % W
        BY <1>1, <2>3, <3>1, BatchSum
      <4>2. Count(counters[n]) = total[n] % W
        BY DEF Adding, AddedUp
      <4>3. ((total[n] % W) + Count(b[n])) % W = (total[n] + Count(b[n])) % W
        BY <3>2, SumWraps
      <4> QED
        BY <3>2, <4>1, <4>2, <4>3 DEF AddedUp
    <3>4. ASSUME NEW n \in Names
          PROVE  Covered(n, effect', told', total')
      <4>1. /\ effect' \in [Clients -> Maps] /\ effect'[c].c = b
            /\ \A d \in Clients \ {c} : effect'[d].c[n] = effect[d].c[n]
        BY <1>1, <2>3, <3>1 DEF Maps
      <4>2. /\ IsFiniteSet(PendingUnits(effect, n))
            /\ told[n] + Cardinality(PendingUnits(effect, n)) <= total[n]
        BY DEF Adding, Covered
      <4>3. /\ IsFiniteSet(PendingUnits(effect', n))
            /\ Cardinality(PendingUnits(effect, n)) \in Nat
            /\ Cardinality(PendingUnits(effect', n)) \in Nat
            /\ Count(effect[c].c[n]) \in Nat
            /\ Cardinality(PendingUnits(effect', n)) + Count(effect[c].c[n])
                 = Cardinality(PendingUnits(effect, n)) + Count(effect'[c].c[n])
        <5>1. effect \in [Clients -> Maps] /\ effect' \in [Clients -> Maps]
          BY <1>1, <4>1
        <5>2. /\ \A d \in Clients \ {c} : effect'[d].c[n] = effect[d].c[n]
              /\ IsFiniteSet(PendingUnits(effect, n))
          BY <4>1, <4>2
        <5> QED
          BY <5>1, <5>2, PendingChange
      <4> QED
        BY <2>1, <3>2, <4>1, <4>2, <4>3 DEF Covered
    <3>5. \A d \in Clients : ReadSince(at'[d], msg'[d], floor'[d], seen'[d], total')
      <4>1. ASSUME NEW d \in Clients, seen[d] # Absent
            PROVE  /\ at'[d] = "answer" /\ msg[d].records[1].id \in Names
                   /\ total'[msg[d].records[1].id] < W =>
                        seen[d] >= floor[d][msg[d].records[1].id]
        <5> DEFINE i == msg[d].records[1].id
        <5>1. /\ at[d] = "answer" /\ i \in Names
              /\ total[i] < W => seen[d] >= floor[d][i]
          BY <1>2, <4>1 DEF ReadSince
        <5>2. at'[d] = "answer"
          <6>1. d # c
            BY <2>1, <5>1
          <6> QED
            BY <1>1, <2>1, <5>1, <6>1
        <5> HIDE DEF i
        <5>3. total'[i] < W => total[i] < W
          BY <3>2, <5>1, Residue
        <5> QED
          BY <5>1, <5>2, <5>3 DEF i
      <4> QED
        BY <2>1, <4>1 DEF ReadSince
    <3>6. \A d \in Clients : \A n \in Names : floor'[d][n] <= told'[n]
      BY <1>3, <2>1
    <3> QED
      BY <3>3, <3>4, <3>5, <3>6 DEF Adding
  <2> HIDE DEF b
  <2> QED
    BY <2>1, <2>2, <2>3
<1>8. ASSUME NEW c \in Clients, HandleValue(c)
      PROVE  Adding'
  <2> DEFINE i == msg[c].records[1].id
  <2>1. /\ at' = [at EXCEPT ![c] = "answer"]
        /\ UNCHANGED <<counters, msg, effect, total, told, floor>>
        /\ \/ seen' = seen
           \/ /\ i \in Names /\ counters[i] \in Val
              /\ seen' = [seen EXCEPT ![c] = counters[i]]
    BY <1>8, ValueHandled DEF history
  <2>2. ASSUME i \in Names, counters[i] \in Val, total[i] < W
        PROVE  counters[i] >= floor[c][i]
    <3>1. Count(counters[i]) = total[i] % W /\ Covered(i, effect, told, total)
      BY <2>2 DEF Adding, AddedUp
    <3> HIDE DEF i
    <3>2. total[i] \in Nat /\ told[i] \in Nat /\ floor[c][i] \in Nat
      BY <1>1, <2>2
    <3>3. Count(counters[i]) = counters[i]
      BY <2>2, Below DEF Count
    <3>4. total[i] % W = total[i]
      BY <2>2, <3>2, Residue
    <3>5. Cardinality(PendingUnits(effect, i)) \in Nat
      BY <3>1, FS_CardinalityType DEF Covered
    <3>6. told[i] <= total[i]
      BY <3>1, <3>2, <3>5 DEF Covered
    <3>7. floor[c][i] <= told[i]
      BY <1>3, <2>2
    <3> QED
      BY <3>1, <3>2, <3>3, <3>4, <3>6, <3>7
  <2>3. \A d \in Clients : ReadSince(at'[d], msg'[d], floor'[d], seen'[d], total)
    <3>1. ASSUME NEW d \in Clients
          PROVE  ReadSince(at'[d], msg'[d], floor'[d], seen'[d], total)
      <4>1. CASE seen'[d] = seen[d]
        BY <1>1, <1>2, <2>1, <4>1 DEF ReadSince
      <4>2. CASE seen'[d] # seen[d]
        <5>1. /\ d = c /\ seen'[c] = counters[i] /\ at'[c] = "answer"
              /\ i \in Names /\ counters[i] \in Val
          BY <1>1, <2>1, <4>2
        <5> QED
          BY <2>1, <2>2, <5>1 DEF ReadSince
      <4> QED
        BY <4>1, <4>2
    <3> QED
      BY <3>1
  <2> QED
    BY <1>3, <2>1, <2>3, SameCounts
<1>9. ASSUME NEW c \in Clients, Answer(c)
      PROVE  Adding'
  <2>1. /\ UNCHANGED <<counters, total>>
        /\ told' = told \/ told' = Plus(told, effect[c].c)
        /\ effect' = [effect EXCEPT ![c] = Nothing]
        /\ floor' = [floor EXCEPT ![c] = Zero]
        /\ seen' = [seen EXCEPT ![c] = Absent]
        /\ msg' = [msg EXCEPT ![c] = Absent] /\ at' = [at EXCEPT ![c] = "idle"]
    BY <1>9 DEF Answer
  <2>2. /\ effect[c].c \in Map
        /\ \A n \in Names : told[n] \in Nat /\ Count(effect[c].c[n]) \in Nat
    <3>1. effect[c].c \in Map
      BY <1>1 DEF Maps
    <3> QED
      BY <1>1, <3>1, CountType
  <2>3. \A n \in Names : /\ told'[n] \in Nat /\ told[n] <= told'[n]
                         /\ told'[n] <= told[n] + Count(effect[c].c[n])
    <3>1. CASE told' = told
      BY <2>2, <3>1
    <3>2. CASE told' = Plus(told, effect[c].c)
      <4>1. \A n \in Names : told'[n] = told[n] + Count(effect[c].c[n])
        BY <1>1, <2>2, <3>2, PlusType
      <4> QED
        BY <2>2, <4>1
    <3> QED
      BY <2>1, <3>1, <3>2
  <2>4. ASSUME NEW n \in Names
        PROVE  Covered(n, effect', told', total')
    <3>1. /\ effect' \in [Clients -> Maps] /\ effect'[c] = Nothing
          /\ \A d \in Clients \ {c} : effect'[d].c[n] = effect[d].c[n]
      BY <1>1, <2>1, NothingType
    <3>2. Count(effect'[c].c[n]) = 0
      BY <3>1, EmptyMapType DEF Nothing
    <3>3. /\ IsFiniteSet(PendingUnits(effect, n))
          /\ told[n] + Cardinality(PendingUnits(effect, n)) <= total[n]
      BY DEF Adding, Covered
    <3>4. /\ IsFiniteSet(PendingUnits(effect', n))
          /\ Cardinality(PendingUnits(effect, n)) \in Nat
          /\ Cardinality(PendingUnits(effect', n)) \in Nat
          /\ Cardinality(PendingUnits(effect', n)) + Count(effect[c].c[n])
               = Cardinality(PendingUnits(effect, n)) + Count(effect'[c].c[n])
      <4>1. effect \in [Clients -> Maps] /\ effect' \in [Clients -> Maps]
        BY <1>1, <3>1
      <4>2. /\ \A d \in Clients \ {c} : effect'[d].c[n] = effect[d].c[n]
            /\ IsFiniteSet(PendingUnits(effect, n))
        BY <3>1, <3>3
      <4> QED
        BY <4>1, <4>2, PendingChange
    <3>5. total'[n] \in Nat /\ total'[n] = total[n]
      BY <1>1, <2>1
    <3> QED
      BY <2>2, <2>3, <3>2, <3>3, <3>4, <3>5 DEF Covered
  <2>5. ASSUME NEW d \in Clients, NEW n \in Names
        PROVE  floor'[d][n] <= told'[n]
    <3>1. CASE d = c
      BY <1>1, <2>1, <2>3, <3>1 DEF Zero
    <3>2. CASE d # c
      <4>1. floor'[d][n] = floor[d][n] /\ floor[d][n] \in Nat
        BY <1>1, <2>1, <3>2
      <4> QED
        BY <1>3, <2>2, <2>3, <4>1
    <3> QED
      BY <3>1, <3>2
  <2>6. \A d \in Clients : ReadSince(at'[d], msg'[d], floor'[d], seen'[d], total')
    BY <1>1, <1>2, <2>1 DEF ReadSince
  <2>7. \A n \in Names : AddedUp(n, counters', total')
    BY <2>1 DEF Adding, AddedUp
  <2> QED
    BY <2>4, <2>5, <2>6, <2>7 DEF Adding
<1>10. CASE UNCHANGED vars
  BY <1>10 DEF vars, history, Adding
<1> QED
  BY <1>4, <1>5, <1>6, <1>7, <1>8, <1>9, <1>10 DEF Next

\* However requests interleave and whatever fails, a counter is the sum, modulo
\* its range, of what the messages applied to it promise to add, each as often as
\* it was committed; and as long as it has not wrapped around, a read sees at
\* least what clients had been told when it was sent.
THEOREM AddUp == Spec => []CountersAddUp
<1>1. Adding => CountersAddUp
  BY DEF Adding, AddedUp, ReadSince, CountersAddUp
<1>2. Init => Applying
  BY DEF Init, Applying, Progress
<1> QED
  BY <1>1, <1>2, InitTyped, InitAdding, StepTyped, StepApplying, StepAdding,
     PTL DEF Spec

-----------------------------------------------------------------------------
(* Answers can be read. *)

\* The fields an answer has.
Fields(a) ==
  /\ DOMAIN a = {"signs", "zips", "header", "sent", "status", "body"}
  /\ DOMAIN a.header = {"gzip", "sign"}

\* Status x and the headers t have been sent, and then b has been written.
Sent(a, x, t, b) ==
  Fields(a) /\ a.status = x /\ x # 0 /\ a.sent = t /\ a.body = b

\* Once the headers are sent, only the body changes.
LEMMA WriteLater ==
  ASSUME NEW a, NEW x, NEW t, NEW b, NEW d, Sent(a, x, t, b)
  PROVE  Sent(Write(a, d), x, t, b \cup {d}) /\ Write(a, d).zips = a.zips
<1>1. LET w == Write(a, d)
      IN w.status = a.status /\ w.sent = a.sent /\ w.zips = a.zips
         /\ w.body = a.body \cup {d}
  BY DEF Sent, Fields, Write, WriteHeader
<1>2. Fields(Write(a, d))
  BY DEF Sent, Fields, Write, WriteHeader
<1> QED
  BY <1>1, <1>2 DEF Sent

LEMMA ZipHeaderLater ==
  ASSUME NEW a, NEW x, NEW t, NEW b, NEW y, Sent(a, x, t, b)
  PROVE  Sent(ZipHeader(a, y), x, t, b) /\ ZipHeader(a, y).zips = a.zips
<1>1. LET w == ZipHeader(a, y)
      IN w.status = a.status /\ w.sent = a.sent /\ w.zips = a.zips
         /\ w.body = a.body
  BY DEF Sent, Fields, ZipHeader, WriteHeader
<1>2. Fields(ZipHeader(a, y))
  BY DEF Sent, Fields, ZipHeader, WriteHeader
<1> QED
  BY <1>1, <1>2 DEF Sent

\* A compressor that has sent its headers only adds compressed data.
LEMMA ZipWriteLater ==
  ASSUME NEW a, NEW x, NEW t, NEW b, Sent(a, x, t, b)
  PROVE  /\ Sent(ZipWrite(a), x, t, b \cup {IF a.zips THEN "gzip" ELSE "text"})
         /\ ZipWrite(a).zips = a.zips
<1>1. CASE a.zips
  <2> DEFINE h == ZipHeader(a, 200)
  <2>1. ZipWrite(a) = Write(h, "gzip")
    BY <1>1 DEF ZipWrite
  <2>2. Sent(h, x, t, b) /\ h.zips = a.zips
    BY ZipHeaderLater
  <2> HIDE DEF h
  <2>3. Sent(Write(h, "gzip"), x, t, b \cup {"gzip"})
        /\ Write(h, "gzip").zips = h.zips
    BY <2>2, WriteLater
  <2> QED
    BY <1>1, <2>1, <2>2, <2>3
<1>2. CASE ~a.zips
  <2>1. ZipWrite(a) = Write(a, "text")
    BY <1>2 DEF ZipWrite
  <2> QED
    BY <1>2, <2>1, WriteLater
<1> QED
  BY <1>1, <1>2

LEMMA ZipCloseLater ==
  ASSUME NEW a, NEW x, NEW t, NEW b, Sent(a, x, t, b)
  PROVE  Sent(ZipClose(a), x, t, b \cup IF a.zips THEN {"gzip"} ELSE {})
<1>1. CASE a.zips
  BY <1>1, WriteLater DEF ZipClose
<1>2. CASE ~a.zips
  BY <1>2 DEF ZipClose
<1> QED
  BY <1>1, <1>2

\* The first header sent.
LEMMA HeaderFirst ==
  ASSUME NEW s, NEW z, NEW x, x # 0
  PROVE  LET w == WriteHeader(Fresh(s, z), x)
             h == ZipHeader(Fresh(s, z), x)
         IN /\ Sent(w, x, w.sent, {}) /\ w.zips = z
            /\ ~w.sent.gzip
            /\ Sent(h, x, h.sent, {}) /\ h.zips = z
            /\ h.sent.gzip <=> z
<1> DEFINE a == Fresh(s, z)
<1>1. /\ Fields(a) /\ a.status = 0 /\ a.body = {} /\ a.zips = z
      /\ ~a.header.gzip
  BY DEF Fresh, NoHeaders, Fields
<1> HIDE DEF a
<1>2. LET w == WriteHeader(a, x)
      IN w.status = x /\ w.sent = a.header /\ w.zips = z /\ w.body = {}
  BY <1>1 DEF Fields, WriteHeader
<1>3. LET w == ZipHeader(a, x)
      IN /\ w.status = x /\ w.zips = z /\ w.body = {}
         /\ w.sent.gzip <=> z
  BY <1>1 DEF Fields, ZipHeader, WriteHeader
<1>4. Fields(WriteHeader(a, x)) /\ Fields(ZipHeader(a, x))
  BY <1>1 DEF Fields, ZipHeader, WriteHeader
<1> QED
  BY <1>1, <1>2, <1>3, <1>4 DEF Sent, a

\* An answer with status x and body b.
Replied(a, x, b) == a.status = x /\ a.body = b

\* What the writers make of the ways to answer: http.Error below the
\* compression, the same followed by the handler's error, and the handler's own
\* three.
LEMMA MiddlewareReply ==
  ASSUME NEW s, NEW z, NEW x, x # 0
  PROVE  LET a == Error(Fresh(s, z), x)
         IN /\ Sent(a, x, a.sent, {"text"}) /\ a.zips = z
            /\ ~a.sent.gzip
<1> DEFINE w == WriteHeader(Fresh(s, z), x)
<1>1. Sent(w, x, w.sent, {}) /\ w.zips = z /\ ~w.sent.gzip
  BY HeaderFirst
<1> HIDE DEF w
<1>2. /\ Sent(Write(w, "text"), x, w.sent, {} \cup {"text"})
      /\ Write(w, "text").zips = z
  BY <1>1, WriteLater
<1>3. Write(w, "text").sent = w.sent /\ {} \cup {"text"} = {"text"}
  BY <1>2 DEF Sent
<1>4. Error(Fresh(s, z), x) = Write(w, "text")
  BY DEF Error, w
<1> QED
  BY <1>1, <1>2, <1>3, <1>4

LEMMA DecrypterReply ==
  ASSUME NEW s, NEW z
  PROVE  LET a == ZipClose(ZipError(Error(Fresh(s, z), 500), 400))
         IN /\ Replied(a, 500, IF z THEN {"text", "gzip"} ELSE {"text"})
            /\ ~a.sent.gzip
<1> DEFINE x == 500
           a == Error(Fresh(s, z), x)
           h == ZipHeader(a, 400)
           w == ZipWrite(h)
           data == IF z THEN "gzip" ELSE "text"
<1>1. x # 0
  OBVIOUS
<1>2. ZipClose(ZipError(Error(Fresh(s, z), 500), 400)) = ZipClose(w) /\ x = 500
  BY DEF ZipError
<1> HIDE DEF x
<1>3. Sent(a, x, a.sent, {"text"}) /\ a.zips = z /\ ~a.sent.gzip
  BY <1>1, MiddlewareReply
<1> HIDE DEF a
<1>4. Sent(h, x, a.sent, {"text"}) /\ h.zips = z
  BY <1>3, ZipHeaderLater
<1> HIDE DEF h
<1>5. Sent(w, x, a.sent, {"text"} \cup {data}) /\ w.zips = z
  BY <1>4, ZipWriteLater
<1> HIDE DEF w
<1>6. Sent(ZipClose(w), x, a.sent,
           {"text"} \cup {data} \cup IF z THEN {"gzip"} ELSE {})
  BY <1>5, ZipCloseLater
<1>7. {"text"} \cup {data} \cup (IF z THEN {"gzip"} ELSE {})
        = IF z THEN {"text", "gzip"} ELSE {"text"}
  OBVIOUS
<1> QED
  BY <1>2, <1>3, <1>6, <1>7 DEF Sent, Replied

LEMMA ErrorReply ==
  ASSUME NEW s, NEW z, NEW x, x # 0
  PROVE  LET a == ZipClose(ZipError(Fresh(s, z), x))
         IN /\ Replied(a, x, IF z THEN {"gzip"} ELSE {"text"})
            /\ a.sent.gzip <=> z
<1> DEFINE h == ZipHeader(Fresh(s, z), x)
           w == ZipWrite(h)
           data == IF z THEN "gzip" ELSE "text"
<1>1. Sent(h, x, h.sent, {}) /\ h.zips = z /\ (h.sent.gzip <=> z)
  BY HeaderFirst
<1>2. ZipClose(ZipError(Fresh(s, z), x)) = ZipClose(w)
  BY DEF ZipError
<1> HIDE DEF h
<1>3. Sent(w, x, h.sent, {} \cup {data}) /\ w.zips = z
  BY <1>1, ZipWriteLater
<1> HIDE DEF w
<1>4. Sent(ZipClose(w), x, h.sent, {} \cup {data} \cup IF z THEN {"gzip"} ELSE {})
  BY <1>3, ZipCloseLater
<1>5. {} \cup {data} \cup (IF z THEN {"gzip"} ELSE {})
        = IF z THEN {"gzip"} ELSE {"text"}
  OBVIOUS
<1> QED
  BY <1>1, <1>2, <1>4, <1>5 DEF Sent, Replied

LEMMA StatusReply ==
  ASSUME NEW s, NEW z
  PROVE  LET a == ZipClose(ZipHeader(Fresh(s, z), 200))
         IN /\ Replied(a, 200, IF z THEN {"gzip"} ELSE {})
            /\ a.sent.gzip <=> z
<1> DEFINE x == 200
           h == ZipHeader(Fresh(s, z), x)
<1>1. x # 0 /\ x = 200 /\ ZipHeader(Fresh(s, z), 200) = h
  OBVIOUS
<1> HIDE DEF x
<1>2. Sent(h, x, h.sent, {}) /\ h.zips = z /\ (h.sent.gzip <=> z)
  BY <1>1, HeaderFirst
<1> HIDE DEF h
<1>3. Sent(ZipClose(h), x, h.sent, {} \cup IF z THEN {"gzip"} ELSE {})
  BY <1>2, ZipCloseLater
<1>4. {} \cup (IF z THEN {"gzip"} ELSE {}) = IF z THEN {"gzip"} ELSE {}
  OBVIOUS
<1> QED
  BY <1>1, <1>2, <1>3, <1>4 DEF Sent, Replied

LEMMA ValueReply ==
  ASSUME NEW s, NEW z, ~s
  PROVE  LET a == ZipClose(ZipWrite(Fresh(s, z)))
         IN /\ Replied(a, 200, IF z THEN {"gzip"} ELSE {"text"})
            /\ a.sent.gzip <=> z
<1> DEFINE a == Fresh(s, z)
           w == ZipWrite(a)
           x == 200
<1>1. CASE z
  <2> DEFINE h == ZipHeader(a, x)
  <2>1. w = Write(h, "gzip") /\ x # 0 /\ x = 200
    BY <1>1 DEF ZipWrite, Fresh
  <2> HIDE DEF x
  <2>2. Sent(h, x, h.sent, {}) /\ h.zips = z /\ (h.sent.gzip <=> z)
    BY <2>1, HeaderFirst
  <2> HIDE DEF h, w
  <2>3. Sent(w, x, h.sent, {} \cup {"gzip"}) /\ w.zips = z
    BY <2>1, <2>2, WriteLater
  <2>4. Sent(ZipClose(w), x, h.sent, {} \cup {"gzip"} \cup {"gzip"})
    BY <1>1, <2>3, ZipCloseLater
  <2>5. {} \cup {"gzip"} \cup {"gzip"} = IF z THEN {"gzip"} ELSE {"text"}
    BY <1>1
  <2> QED
    BY <1>1, <2>1, <2>2, <2>4, <2>5 DEF Sent, Replied, w, a
<1>2. CASE ~z
  <2>1. ZipClose(w) = Write(a, "text")
    <3>1. ~a.zips
      BY <1>2 DEF Fresh
    <3>2. w = Write(a, "text")
      BY <3>1 DEF ZipWrite
    <3>3. ~w.zips
      BY <1>2, <3>2 DEF Write, WriteHeader, Fresh
    <3> HIDE DEF w
    <3> QED
      BY <3>2, <3>3 DEF ZipClose
  <2>2. /\ Fields(a) /\ a.status = 0 /\ a.body = {} /\ ~a.signs
        /\ ~a.header.gzip
    BY DEF Fresh, NoHeaders, Fields
  <2> HIDE DEF a
  <2>3. LET v == Write(a, "text")
        IN v.status = 200 /\ v.sent = a.header /\ v.body = {"text"}
    BY <2>2 DEF Fields, Write, WriteHeader
  <2> QED
    BY <1>2, <2>1, <2>2, <2>3 DEF Replied, a
<1> QED
  BY <1>1, <1>2

\* The code of a request is the one of the first that answered it: a middleware
\* that ends the request, the decrypter, the handler.
First(s, k, m) ==
  /\ s \in {"gauges", "counters"} =>
       /\ Update(m) /\ Stopped(m) = 0 /\ k # Aborted
       /\ DecryptFails(m) => k = 500
  /\ s = "answer" /\ k # Aborted =>
       /\ Stopped(m) # 0 => k = Stopped(m)
       /\ Stopped(m) = 0 /\ DecryptFails(m) => k = 500

Answering == \A c \in Clients : First(at[c], code[c], msg[c])

\* It is enough to look at the client that takes the step.
LEMMA OneAnswer ==
  ASSUME Answering, NEW c \in Clients, UNCHANGED conf,
         \A d \in Clients \ {c} :
           at'[d] = at[d] /\ msg'[d] = msg[d] /\ code'[d] = code[d],
         First(at[c], code[c], msg[c])'
  PROVE  Answering'
<1>1. ASSUME NEW d \in Clients
      PROVE  First(at[d], code[d], msg[d])'
  <2>1. CASE d = c
    BY <2>1
  <2>2. CASE d # c
    <3>1. at'[d] = at[d] /\ msg'[d] = msg[d] /\ code'[d] = code[d]
      BY <2>2
    <3>2. First(at[d], code[d], msg[d])
      BY DEF Answering
    <3> QED
      BY <3>1, <3>2 DEF First, Stopped, DecryptFails, Update
  <2> QED
    BY <2>1, <2>2
<1> QED
  BY <1>1 DEF Answering

LEMMA StepAnswering == Typed /\ Answering /\ [Next]_vars => Answering'
<1> SUFFICES ASSUME Typed, Answering, [Next]_vars
             PROVE  Answering'
  OBVIOUS
<1>1. DOMAIN at = Clients /\ DOMAIN msg = Clients /\ DOMAIN code = Clients
  BY DEF Typed, TypeOK
<1>2. ASSUME NEW c \in Clients, NEW m \in Messages, Send(c, m)
      PROVE  Answering'
  <2>1. /\ UNCHANGED conf /\ at'[c] = "sent"
        /\ \A d \in Clients \ {c} :
             at'[d] = at[d] /\ msg'[d] = msg[d] /\ code'[d] = code[d]
    BY <1>1, <1>2 DEF Send, history
  <2>2. First(at[c], code[c], msg[c])'
    BY <2>1 DEF First
  <2> QED
    BY <2>1, <2>2, OneAnswer
<1>3. ASSUME NEW c \in Clients, HandleUpdate(c)
      PROVE  Answering'
  <2>1. PICK v :
          /\ Stopped(msg[c]) # 0 => v.code = Stopped(msg[c])
          /\ code' = [code EXCEPT ![c] =
                        IF /\ Stopped(msg[c]) = 0 /\ DecryptFails(msg[c])
                           /\ v.code # Aborted
                          THEN 500 ELSE v.code]
          /\ at' = [at EXCEPT ![c] =
                      IF v.code = 200 THEN "gauges" ELSE "answer"]
    BY <1>3, UpdateHandled
  <2>2. Update(msg[c]) /\ UNCHANGED <<conf, msg>>
    BY <1>3 DEF HandleUpdate, history
  <2>3. \A d \in Clients \ {c} :
          at'[d] = at[d] /\ msg'[d] = msg[d] /\ code'[d] = code[d]
    BY <1>1, <2>1, <2>2
  <2>4. /\ at'[c] = IF v.code = 200 THEN "gauges" ELSE "answer"
        /\ code'[c] = IF /\ Stopped(msg[c]) = 0 /\ DecryptFails(msg[c])
                         /\ v.code # Aborted
                        THEN 500 ELSE v.code
    BY <1>1, <2>1
  <2>5. First(at'[c], code'[c], msg[c])
    BY <2>1, <2>2, <2>4, StoppedCodes DEF First, Aborted
  <2>6. First(at[c], code[c], msg[c])'
    BY <2>2, <2>5 DEF First, Stopped, DecryptFails, Update
  <2> QED
    BY <2>2, <2>3, <2>6, OneAnswer
<1>4. ASSUME NEW c \in Clients, SetGauges(c)
      PROVE  Answering'
  <2>1. /\ at[c] = "gauges" /\ UNCHANGED <<conf, msg>>
        /\ \/ at'[c] \in {"gauges", "counters"} /\ code'[c] = code[c]
           \/ at'[c] = "answer" /\ code'[c] = 500
        /\ \A d \in Clients \ {c} :
             at'[d] = at[d] /\ msg'[d] = msg[d] /\ code'[d] = code[d]
    <3>1. /\ at[c] = "gauges" /\ UNCHANGED <<conf, msg>>
          /\ \/ /\ code' = code \/ code' = [code EXCEPT ![c] = @]
                /\ \E x \in {"gauges", "counters"} : at' = [at EXCEPT ![c] = x]
             \/ /\ code' = [code EXCEPT ![c] = 500]
                /\ at' = [at EXCEPT ![c] = "answer"]
      BY <1>4, GaugesCalled
    <3> QED
      BY <1>1, <3>1
  <2>2. First(at[c], code[c], msg[c])
    BY DEF Answering
  <2>3. First(at'[c], code'[c], msg[c])
    BY <2>1, <2>2 DEF First
  <2>4. First(at[c], code[c], msg[c])'
    BY <2>1, <2>3 DEF First, Stopped, DecryptFails, Update
  <2> QED
    BY <2>1, <2>4, OneAnswer
<1>5. ASSUME NEW c \in Clients, SetCounters(c)
      PROVE  Answering'
  <2>1. /\ at[c] = "counters" /\ UNCHANGED <<conf, msg>>
        /\ \/ at'[c] \in {"counters", "answer"} /\ code'[c] = code[c]
           \/ at'[c] = "answer" /\ code'[c] = 500
        /\ \A d \in Clients \ {c} :
             at'[d] = at[d] /\ msg'[d] = msg[d] /\ code'[d] = code[d]
    <3>1. /\ at[c] = "counters" /\ UNCHANGED <<conf, msg>>
          /\ \/ /\ code' = code \/ code' = [code EXCEPT ![c] = @]
                /\ \E x \in {"counters", "answer"} : at' = [at EXCEPT ![c] = x]
             \/ /\ code' = [code EXCEPT ![c] = 500]
                /\ at' = [at EXCEPT ![c] = "answer"]
      BY <1>5, CountersCalled
    <3> QED
      BY <1>1, <3>1
  <2>2. First(at[c], code[c], msg[c])
    BY DEF Answering
  <2>3. First(at'[c], code'[c], msg[c])
    BY <2>1, <2>2 DEF First
  <2>4. First(at[c], code[c], msg[c])'
    BY <2>1, <2>3 DEF First, Stopped, DecryptFails, Update
  <2> QED
    BY <2>1, <2>4, OneAnswer
<1>6. ASSUME NEW c \in Clients, HandleValue(c)
      PROVE  Answering'
  <2>1. PICK x : /\ code' = [code EXCEPT ![c] = x]
                 /\ Stopped(msg[c]) # 0 => x = Stopped(msg[c])
    BY <1>6, ValueHandled
  <2>2. /\ ~Update(msg[c]) /\ at' = [at EXCEPT ![c] = "answer"]
        /\ UNCHANGED <<conf, msg>>
    BY <1>6, ValueHandled
  <2>3. /\ at'[c] = "answer" /\ code'[c] = x
        /\ \A d \in Clients \ {c} :
             at'[d] = at[d] /\ msg'[d] = msg[d] /\ code'[d] = code[d]
    BY <1>1, <2>1, <2>2
  <2>4. First(at'[c], code'[c], msg[c])
    BY <2>1, <2>2, <2>3 DEF First, DecryptFails
  <2>5. First(at[c], code[c], msg[c])'
    BY <2>2, <2>4 DEF First, Stopped, DecryptFails, Update
  <2> QED
    BY <2>2, <2>3, <2>5, OneAnswer
<1>7. ASSUME NEW c \in Clients, Answer(c)
      PROVE  Answering'
  <2>1. /\ UNCHANGED conf /\ at'[c] = "idle"
        /\ \A d \in Clients \ {c} :
             at'[d] = at[d] /\ msg'[d] = msg[d] /\ code'[d] = code[d]
    BY <1>1, <1>7 DEF Answer
  <2>2. First(at[c], code[c], msg[c])'
    BY <2>1 DEF First
  <2> QED
    BY <2>1, <2>2, OneAnswer
<1>8. CASE UNCHANGED vars
  BY <1>8 DEF vars, history, Answering, First, Stopped, DecryptFails, Update
<1> QED
  BY <1>2, <1>3, <1>4, <1>5, <1>6, <1>7, <1>8 DEF Next

\* Every answer can be read as its headers say and has the status that was meant,
\* save the compressed data after the error of a failed decryption.
THEOREM Readable == Spec => []AnswersReadable
<1>1. Init => Answering
  BY DEF Init, Answering, First
<1>2. Typed /\ Answering => AnswersReadable
  <2> SUFFICES ASSUME Answering, NEW c \in Clients,
                      at[c] = "answer", code[c] # Aborted
               PROVE  LET m == msg[c]
                          a == Reply(c)
                      IN /\ a.status = code[c]
                         /\ IF Stopped(m) = 0 /\ DecryptFails(m) /\ Zips(m)
                              THEN ~a.sent.gzip /\ a.body = {"text", "gzip"}
                              ELSE a.body \subseteq
                                     {IF a.sent.gzip THEN "gzip" ELSE "text"}
    BY DEF AnswersReadable
  <2> DEFINE m == msg[c]
             s == conf.sign /\ Update(m)
             z == Zips(m)
             k == code[c]
             a == Reply(c)
             fresh == Fresh(s, z)
             handled == CASE k # 200 -> ZipError(fresh, k)
                          [] k = 200 /\ Update(m) -> ZipHeader(fresh, 200)
                          [] k = 200 /\ ~Update(m) -> ZipWrite(fresh)
  <2>1. /\ Stopped(m) # 0 => k = Stopped(m)
        /\ Stopped(m) = 0 /\ DecryptFails(m) => k = 500
        /\ k # 0
    BY DEF Answering, First, Aborted
  <2>2. a = IF Stopped(m) # 0 THEN Error(fresh, Stopped(m))
            ELSE IF DecryptFails(m)
              THEN ZipClose(ZipError(Error(fresh, 500), 400))
            ELSE ZipClose(handled)
    BY DEF Reply
  <2>3. ~Update(m) => ~s
    OBVIOUS
  <2> SUFFICES /\ a.status = k
               /\ IF Stopped(m) = 0 /\ DecryptFails(m) /\ z
                    THEN ~a.sent.gzip /\ a.body = {"text", "gzip"}
                    ELSE a.body \subseteq {IF a.sent.gzip THEN "gzip" ELSE "text"}
    OBVIOUS
  <2>4. CASE Stopped(m) # 0
    <3>1. a = Error(fresh, k) /\ k # 0
      BY <2>1, <2>2, <2>4
    <3> HIDE DEF a, k, s, z, m
    <3>2. Sent(a, k, a.sent, {"text"}) /\ ~a.sent.gzip
      BY <3>1, MiddlewareReply
    <3> QED
      BY <2>4, <3>2 DEF Sent
  <2>5. CASE Stopped(m) = 0 /\ DecryptFails(m)
    <3>1. a = ZipClose(ZipError(Error(fresh, 500), 400)) /\ k = 500
      BY <2>1, <2>2, <2>5
    <3> HIDE DEF a, k, s, z, m
    <3>2. /\ Replied(a, 500, IF z THEN {"text", "gzip"} ELSE {"text"})
          /\ ~a.sent.gzip
      BY <3>1, DecrypterReply
    <3> QED
      BY <2>5, <3>1, <3>2 DEF Replied
  <2>6. CASE Stopped(m) = 0 /\ ~DecryptFails(m)
    <3>1. a = ZipClose(handled)
      BY <2>2, <2>6
    <3>2. \E b \in {{}, {"text"}, {"gzip"}} :
            /\ Replied(a, k, b)
            /\ (a.sent.gzip <=> z) /\ b \subseteq {IF z THEN "gzip" ELSE "text"}
      <4>1. CASE k # 200
        <5>1. a = ZipClose(ZipError(fresh, k))
          BY <3>1, <4>1
        <5> HIDE DEF a, k, s, z, m
        <5>2. /\ Replied(a, k, IF z THEN {"gzip"} ELSE {"text"})
              /\ a.sent.gzip <=> z
          BY <2>1, <5>1, ErrorReply
        <5> QED
          BY <5>2
      <4>2. CASE k = 200 /\ Update(m)
        <5>1. a = ZipClose(ZipHeader(fresh, 200))
          BY <3>1, <4>2
        <5> HIDE DEF a, k, s, z, m
        <5>2. /\ Replied(a, 200, IF z THEN {"gzip"} ELSE {})
              /\ a.sent.gzip <=> z
          BY <5>1, StatusReply
        <5> QED
          BY <4>2, <5>2
      <4>3. CASE k = 200 /\ ~Update(m)
        <5>1. a = ZipClose(ZipWrite(fresh)) /\ ~s
          BY <2>3, <3>1, <4>3
        <5> HIDE DEF a, k, s, z, m
        <5>2. /\ Replied(a, 200, IF z THEN {"gzip"} ELSE {"text"})
              /\ a.sent.gzip <=> z
          BY <5>1, ValueReply
        <5> QED
          BY <4>3, <5>2
      <4> QED
        BY <4>1, <4>2, <4>3
    <3> HIDE DEF a, k, s, z, m, handled
    <3> QED
      BY <2>6, <3>2 DEF Replied
  <2> QED
    BY <2>4, <2>5, <2>6
<1> QED
  BY <1>1, <1>2, InitTyped, StepTyped, StepAnswering, PTL DEF Spec
=============================================================================
