----------------------------- MODULE MetricsAPI ------------------------------
(***************************************************************************)
(* The HTTP interface of the server: the middlewares MountHandlers stacks  *)
(* on the update routes, the handlers of package handlers, and the calls   *)
(* they make to the repository.                                            *)
(*                                                                         *)
(* Middlewares and validation touch nothing shared: they are one step      *)
(* (Handle).  Each call to the repository is a step of its own, so         *)
(* requests interleave.  With PostgreSQL it may fail, and its COMMIT may   *)
(* take effect without being answered, whereupon it fails or is repeated.  *)
(* A message is what distinguishes one for the code: whether the           *)
(* middlewares can make sense of it and what records its body or path      *)
(* holds.                                                                  *)
(***************************************************************************)
EXTENDS Metrics, Responses, Sequences, FiniteSets

CONSTANTS Clients,
          Messages,    \* the messages clients send
          Configs,     \* how the server may have been started
          NoName,      \* the empty metric name
          Garbled,     \* a value in a path that does not parse
          MaxRetries,  \* maxRetryes of ExecuteTx: 3
          MaxSends     \* bound: how many requests are sent

\* One metric of a message.  A value is Absent where the JSON has no "value"
\* (of a gauge) or no "delta" (of a counter): a nil pointer.
Records == [id : Names \cup {NoName}, type : {"gauge", "counter", "other"},
            val : Val \cup {Absent, Garbled}]

\* route: the handler.  gzip: no Content-Encoding, or a gzip body, unreadable
\* from the start or further on.  sign: the HashSHA256 header.  cipher: what
\* DecryptMsg makes of the body.  form: a JSON document with its content
\* type, no JSON, or another content type.  accept: an answer may be
\* compressed.
MessageType ==
  [route : {"path", "single", "batch", "value", "show"},
   gzip : {"none", "ok", "badHeader", "badBody"},
   sign : {"none", "good", "wrong", "garbled"},
   cipher : {"good", "wrong", "short"},
   form : {"json", "noJson", "otherType"},
   accept : BOOLEAN,
   records : Seq(Records)]

\* sign: -k sets a key for signatures.  crypto: -crypto-key names a private key.
ConfigType == [sign : BOOLEAN, crypto : BOOLEAN, backend : {"memory", "pgsql"}]

ASSUME MetricsAPIAssumption ==
  /\ Configs \subseteq ConfigType
  /\ Messages \subseteq MessageType
  /\ \A m \in Messages :
       /\ m.route # "batch" => Len(m.records) = 1
       /\ m.route # "path" =>
            \A i \in DOMAIN m.records : m.records[i].val # Garbled
  /\ NoName \notin Names /\ Garbled \notin Val \cup {Absent}
  /\ MaxRetries \in Nat /\ MaxSends \in Nat

VARIABLES conf,               \* the configuration
          gauges, counters,   \* the repository
          msg,                \* the message each client's request carries
          at,                 \* where its handler is
          code,               \* the status the client will see, or Aborted
          batch,              \* the maps the handler passes to the repository
          effect,             \* history: the counter and gauge maps applied
          commits,            \* history: how often each of the two was
          lost,               \* history: commits the handler was not told of
          sends,              \* requests so far
          total,              \* history: the sum of the deltas applied
          told,               \* history: the part of it answered with 200
          floor,              \* history: told, when each request came
          seen                \* the counter a read has found

history == <<effect, commits, lost>>
vars == <<conf, gauges, counters, msg, at, code, batch, history, sends, total,
          told, floor, seen>>

\* A handler that panics: net/http recovers and closes the connection.
Aborted == 0

Nothing == [g |-> EmptyMap, c |-> EmptyMap]
NoTimes == [g |-> 0, c |-> 0]

-----------------------------------------------------------------------------
(* The middlewares. *)

\* Reads ("show" by path, "value" by JSON) are uncompressed, no more.
Update(m) == m.route \notin {"show", "value"}

\* The code with which a middleware ends the request, 0 if none does.  A
\* message without a HashSHA256 header is let through.  What cannot be read to
\* the end has no matching sum.
Stopped(m) ==
  CASE m.gzip = "badHeader" -> 500
    [] m.gzip # "badHeader" /\ Update(m) /\ conf.sign /\ m.sign = "garbled"
         -> 500
    [] m.gzip # "badHeader" /\ Update(m) /\ conf.sign /\
         (m.sign = "wrong" \/ (m.sign = "good" /\ m.gzip = "badBody")) -> 400
    [] OTHER -> 0

\* DecryptMsg slices the first 256 bytes off a shorter message: it panics.
DecryptPanics(m) == Update(m) /\ conf.crypto /\ m.cipher = "short"

\* The decrypter answers 500 to what it cannot read or decrypt, then calls the
\* next handler all the same, with an empty body.
DecryptFails(m) ==
  Update(m) /\ conf.crypto /\ (m.cipher = "wrong" \/ m.gzip = "badBody")

\* What the handler can read of the body.
Body(m) ==
  IF DecryptFails(m) THEN "empty"
  ELSE IF m.gzip = "badBody" THEN "unreadable" ELSE "whole"

-----------------------------------------------------------------------------
(***************************************************************************)
(* The handlers.  A verdict is the code to answer with, Aborted after a    *)
(* panic, or 200 with the maps to pass to the repository.                  *)
(***************************************************************************)
Verdict(c, b) == [code |-> c, batch |-> b]
Refuse(c) == Verdict(c, Nothing)

Single(r) ==
  LET one == [n \in Names |-> IF n = r.id THEN r.val ELSE Absent]
  IN IF r.type = "gauge" THEN [Nothing EXCEPT !.g = one]
                         ELSE [Nothing EXCEPT !.c = one]

\* updateMetrics up to its call to the repository: *m.Value and *m.Delta are
\* evaluated before it.
UpdateMetrics(r) ==
  CASE r.id = NoName -> Refuse(404)
    [] r.id # NoName /\ (r.type = "other" \/ r.val = Garbled) -> Refuse(400)
    [] r.id # NoName /\ r.type # "other" /\ r.val = Absent -> Refuse(Aborted)
    [] OTHER -> Verdict(200, Single(r))

\* Mutant of Aggregate: the last delta of a counter counts.
AggregateLast(acc, r) ==
  IF r.id = NoName \/ r.type = "other" THEN acc
  ELSE IF r.type = "gauge" THEN [acc EXCEPT !.g[r.id] = r.val]
  ELSE [acc EXCEPT !.c[r.id] = r.val]

\* One turn of UpdateBatchHandler's loop: records without a name or of another
\* type are skipped, the last value of a gauge counts, deltas are summed up.
Aggregate(acc, r) ==
  IF r.id = NoName \/ r.type = "other" THEN acc
  ELSE IF r.type = "gauge" THEN [acc EXCEPT !.g[r.id] = r.val]
  ELSE [acc EXCEPT !.c[r.id] = Merge("accum", @, r.val)]

\* The maps after the loop.
Aggregated(rs) ==
  LET maps[i \in 0 .. Len(rs)] ==
        IF i = 0 THEN Nothing ELSE Aggregate(maps[i - 1], rs[i])
  IN maps[Len(rs)]

UpdateBatch(rs) ==
  IF \E i \in DOMAIN rs : /\ rs[i].id # NoName /\ rs[i].type # "other"
                          /\ rs[i].val = Absent
    THEN Refuse(Aborted)
    ELSE IF Aggregated(rs) = Nothing THEN Refuse(400)
    ELSE Verdict(200, Aggregated(rs))

\* The handlers that read a JSON body before they look at its records.
Read(m) ==
  CASE m.form = "otherType" -> 400
    [] m.form # "otherType" /\ Body(m) = "unreadable" -> 500
    [] m.form # "otherType" /\ Body(m) # "unreadable"
         /\ (Body(m) = "empty" \/ m.form = "noJson") -> 400
    [] OTHER -> 200

Judge(m) ==
  CASE m.route = "path" -> UpdateMetrics(m.records[1])
    [] m.route = "single" /\ Read(m) = 200 -> UpdateMetrics(m.records[1])
    [] m.route = "batch" /\ Read(m) = 200 -> UpdateBatch(m.records)
    [] OTHER -> Refuse(Read(m))

-----------------------------------------------------------------------------
Init ==
  /\ conf \in Configs
  /\ gauges = EmptyMap /\ counters = EmptyMap
  /\ msg = [c \in Clients |-> Absent]
  /\ at = [c \in Clients |-> "idle"]
  /\ code = [c \in Clients |-> Aborted]
  /\ batch = [c \in Clients |-> Nothing]
  /\ effect = [c \in Clients |-> Nothing]
  /\ commits = [c \in Clients |-> NoTimes] /\ lost = [c \in Clients |-> NoTimes]
  /\ sends = 0
  /\ total = Zero /\ told = Zero
  /\ floor = [c \in Clients |-> Zero]
  /\ seen = [c \in Clients |-> Absent]

Send(c, m) ==
  /\ at[c] = "idle" /\ sends < MaxSends
  /\ msg' = [msg EXCEPT ![c] = m]
  /\ at' = [at EXCEPT ![c] = "sent"]
  /\ sends' = sends + 1
  /\ floor' = [floor EXCEPT ![c] = told]
  /\ UNCHANGED <<conf, gauges, counters, code, batch, history, total, told,
                 seen>>

\* Mutant of HandleUpdate: a middleware that has answered calls the next one.
HandleUpdateAnyway(c) ==
  LET m == msg[c]
      v == IF DecryptPanics(m) THEN Refuse(Aborted) ELSE Judge(m)
  IN /\ at[c] = "sent" /\ Update(m)
     /\ code' = [code EXCEPT ![c] =
                   IF Stopped(m) # 0 THEN Stopped(m) ELSE v.code]
     /\ batch' = [batch EXCEPT ![c] = v.batch]
     /\ at' = [at EXCEPT ![c] = IF v.code = 200 THEN "gauges" ELSE "answer"]
     /\ UNCHANGED <<conf, gauges, counters, msg, history, sends, total, told,
                    floor, seen>>

\* Middlewares and validation of an update.  The first code written is the one
\* the client sees: after DecryptFails it is 500 whatever the handler does.
HandleUpdate(c) ==
  LET m == msg[c]
      v == IF Stopped(m) # 0 THEN Refuse(Stopped(m))
           ELSE IF DecryptPanics(m) THEN Refuse(Aborted)
           ELSE Judge(m)
  IN /\ at[c] = "sent" /\ Update(m)
     /\ code' = [code EXCEPT ![c] =
                   IF Stopped(m) = 0 /\ DecryptFails(m) /\ v.code # Aborted
                     THEN 500 ELSE v.code]
     /\ batch' = [batch EXCEPT ![c] = v.batch]
     /\ at' = [at EXCEPT ![c] = IF v.code = 200 THEN "gauges" ELSE "answer"]
     /\ UNCHANGED <<conf, gauges, counters, msg, history, sends, total, told,
                    floor, seen>>

\* What 200 promises for message m, stated without the loop: for each counter
\* the sum of its deltas, which is the number of their units, for each gauge its
\* last value.
Promised(m) ==
  LET rs == m.records
      of(n, t) == {i \in DOMAIN rs : rs[i].id = n /\ rs[i].type = t}
  IN [g |-> [n \in Names |->
               IF of(n, "gauge") = {} THEN Absent
               ELSE rs[CHOOSE i \in of(n, "gauge") :
                         \A j \in of(n, "gauge") : j <= i].val],
      c |-> [n \in Names |->
               IF of(n, "counter") = {} THEN Absent
               ELSE Cardinality({u \in of(n, "counter") \X (1 .. W) :
                                   u[2] <= rs[u[1]].val}) % W]]

-----------------------------------------------------------------------------
(***************************************************************************)
(* The calls of the repository.  In memory a call succeeds.  With          *)
(* PostgreSQL ExecuteTx makes one attempt after the other, of which those  *)
(* that have an effect or are the last are steps: the attempt is committed *)
(* or not, and the handler learns of success or of an error, or ("again")  *)
(* the commit was not answered and is repeated.  A commit that takes       *)
(* effect after the error it is reported as is put together with it.       *)
(***************************************************************************)

\* BIGINT does not wrap around: a sum out of range is an error.
Overflows(deltas) ==
  \E n \in Keys(deltas) : Count(counters[n]) + deltas[n] >= W

Outcomes(overflows, repeats) ==
  IF conf.backend = "memory" THEN {<<TRUE, "ok">>}
  ELSE {<<FALSE, "error">>} \cup
       (IF overflows THEN {}
        ELSE {<<TRUE, "ok">>, <<TRUE, "error">>} \cup
             (IF repeats < MaxRetries THEN {<<TRUE, "again">>} ELSE {}))

\* Counts a commit that is not answered.
InDoubt(o) == IF o[1] /\ o[2] # "ok" THEN 1 ELSE 0

\* Mutant of SetGauges: after an error the handler goes on to the counters.
SetGaugesGoesOn(c) ==
  /\ at[c] = "gauges"
  /\ IF batch[c].g = EmptyMap
       THEN UNCHANGED <<gauges, history, code>>
       ELSE \E o \in Outcomes(FALSE, lost[c].g) :
              /\ IF o[1]
                   THEN /\ gauges' = ApplyBatch("set", gauges, batch[c].g)
                        /\ effect' = [effect EXCEPT ![c].g = batch[c].g]
                        /\ commits' = [commits EXCEPT ![c].g = @ + 1]
                   ELSE UNCHANGED <<gauges, effect, commits>>
              /\ lost' = [lost EXCEPT ![c].g = @ + InDoubt(o)]
              /\ code' = [code EXCEPT ![c] = IF o[2] = "error" THEN 500 ELSE @]
  /\ at' = [at EXCEPT ![c] = "counters"]
  /\ UNCHANGED <<conf, counters, msg, batch, sends, total, told, floor, seen>>

\* SetGauge or SetGaugeAll, where there are gauges to set.
SetGauges(c) ==
  /\ at[c] = "gauges"
  /\ IF batch[c].g = EmptyMap
       THEN /\ at' = [at EXCEPT ![c] = "counters"]
            /\ UNCHANGED <<gauges, history, code>>
       ELSE \E o \in Outcomes(FALSE, lost[c].g) :
              /\ IF o[1]
                   THEN /\ gauges' = ApplyBatch("set", gauges, batch[c].g)
                        /\ effect' = [effect EXCEPT ![c].g = batch[c].g]
                        /\ commits' = [commits EXCEPT ![c].g = @ + 1]
                   ELSE UNCHANGED <<gauges, effect, commits>>
              /\ lost' = [lost EXCEPT ![c].g = @ + InDoubt(o)]
              /\ code' = [code EXCEPT ![c] = IF o[2] = "error" THEN 500 ELSE @]
              /\ at' = [at EXCEPT ![c] = CASE o[2] = "ok" -> "counters"
                                           [] o[2] = "error" -> "answer"
                                           [] o[2] = "again" -> "gauges"]
  /\ UNCHANGED <<conf, counters, msg, batch, sends, total, told, floor, seen>>

\* Mutant of SetCounters: an error of the repository is not looked at.
SetCountersUnchecked(c) ==
  /\ at[c] = "counters"
  /\ IF batch[c].c = EmptyMap
       THEN UNCHANGED <<counters, history, total>>
       ELSE \E o \in Outcomes(Overflows(batch[c].c), lost[c].c) :
              /\ IF o[1]
                   THEN /\ counters' = ApplyBatch("accum", counters, batch[c].c)
                        /\ effect' = [effect EXCEPT ![c].c = batch[c].c]
                        /\ commits' = [commits EXCEPT ![c].c = @ + 1]
                        /\ total' = Plus(total, Promised(msg[c]).c)
                   ELSE UNCHANGED <<counters, effect, commits, total>>
              /\ lost' = [lost EXCEPT ![c].c = @ + InDoubt(o)]
  /\ at' = [at EXCEPT ![c] = "answer"]
  /\ UNCHANGED <<conf, gauges, msg, code, batch, sends, told, floor, seen>>

\* SetCounter or SetCounterAll, where there are counters to increase.
SetCounters(c) ==
  /\ at[c] = "counters"
  /\ IF batch[c].c = EmptyMap
       THEN /\ at' = [at EXCEPT ![c] = "answer"]
            /\ UNCHANGED <<counters, history, code, total>>
       ELSE \E o \in Outcomes(Overflows(batch[c].c), lost[c].c) :
              /\ IF o[1]
                   THEN /\ counters' = ApplyBatch("accum", counters, batch[c].c)
                        /\ effect' = [effect EXCEPT ![c].c = batch[c].c]
                        /\ commits' = [commits EXCEPT ![c].c = @ + 1]
                        /\ total' = Plus(total, Promised(msg[c]).c)
                   ELSE UNCHANGED <<counters, effect, commits, total>>
              /\ lost' = [lost EXCEPT ![c].c = @ + InDoubt(o)]
              /\ code' = [code EXCEPT ![c] = IF o[2] = "error" THEN 500 ELSE @]
              /\ at' = [at EXCEPT ![c] = IF o[2] = "again" THEN "counters"
                                         ELSE "answer"]
  /\ UNCHANGED <<conf, gauges, msg, batch, sends, told, floor, seen>>

\* ValueHandler and ValueRootHandler: getVhData makes one call that reads.
HandleValue(c) ==
  LET m == msg[c]
      r == m.records[1]
      found == IF r.type = "gauge" THEN gauges[r.id] ELSE counters[r.id]
      answer == IF Stopped(m) # 0 THEN Stopped(m)
                ELSE IF m.route = "value" /\ Read(m) # 200 THEN Read(m)
                ELSE IF r.id = NoName THEN 404
                ELSE IF r.type = "other" THEN 400
                ELSE IF found = Absent THEN 404 ELSE 200
  IN /\ at[c] = "sent" /\ ~Update(m)
     /\ \/ code' = [code EXCEPT ![c] = answer]
        \/ /\ conf.backend = "pgsql" /\ answer \in {200, 404} /\ r.id # NoName
           /\ code' = [code EXCEPT ![c] = 500]
     /\ seen' = IF code'[c] = 200 /\ r.type = "counter"
                  THEN [seen EXCEPT ![c] = found] ELSE seen
     /\ at' = [at EXCEPT ![c] = "answer"]
     /\ UNCHANGED <<conf, gauges, counters, msg, batch, history, sends, total,
                    told, floor>>

\* The client has its answer, or its connection is closed.
Answer(c) ==
  /\ at[c] = "answer"
  /\ told' = IF code[c] = 200 THEN Plus(told, effect[c].c) ELSE told
  /\ msg' = [msg EXCEPT ![c] = Absent]
  /\ at' = [at EXCEPT ![c] = "idle"]
  /\ code' = [code EXCEPT ![c] = Aborted]
  /\ batch' = [batch EXCEPT ![c] = Nothing]
  /\ effect' = [effect EXCEPT ![c] = Nothing]
  /\ commits' = [commits EXCEPT ![c] = NoTimes]
  /\ lost' = [lost EXCEPT ![c] = NoTimes]
  /\ floor' = [floor EXCEPT ![c] = Zero]
  /\ seen' = [seen EXCEPT ![c] = Absent]
  /\ UNCHANGED <<conf, gauges, counters, sends, total>>

\* CreateCompress looks at the headers of the request.
Zips(m) == m.accept \/ m.form # "otherType"

\* What the client of c gets, if its connection lasts: from the middleware that
\* ends the request; after a failed decryption from both the decrypter and the
\* handler, whatever that writes; or from the handler, which writes an error, or
\* the value it has read, or the status alone.
Reply(c) ==
  LET m == msg[c]
      fresh == Fresh(conf.sign /\ Update(m), Zips(m))
      handled == CASE code[c] # 200 -> ZipError(fresh, code[c])
                   [] code[c] = 200 /\ Update(m) -> ZipHeader(fresh, 200)
                   [] code[c] = 200 /\ ~Update(m) -> ZipWrite(fresh)
  IN IF Stopped(m) # 0 THEN Error(fresh, Stopped(m))
     ELSE IF DecryptFails(m) THEN ZipClose(ZipError(Error(fresh, 500), 400))
     ELSE ZipClose(handled)

Next ==
  \E c \in Clients :
    \/ \E m \in Messages : Send(c, m)
    \/ HandleUpdate(c) \/ SetGauges(c) \/ SetCounters(c)
    \/ HandleValue(c)
    \/ Answer(c)

Spec == Init /\ [][Next]_vars

-----------------------------------------------------------------------------
(* Properties. *)

\* Every variable has its type; a counter stays within its int64.
TypeOK ==
  /\ conf \in Configs
  /\ gauges \in Map /\ counters \in Map
  /\ msg \in [Clients -> Messages \cup {Absent}]
  /\ at \in [Clients -> {"idle", "sent", "gauges", "counters", "answer"}]
  /\ code \in [Clients -> {Aborted, 200, 400, 404, 500}]
  /\ batch \in [Clients -> [g : Map, c : Map]]
  /\ effect \in [Clients -> [g : Map, c : Map]]
  /\ commits \in [Clients -> [g : Nat, c : Nat]]
  /\ lost \in [Clients -> [g : Nat, c : Nat]]
  /\ sends \in 0 .. MaxSends
  /\ total \in [Names -> Nat] /\ told \in [Names -> Nat]
  /\ floor \in [Clients -> [Names -> Nat]]
  /\ seen \in [Clients -> Val \cup {Absent}]

\* A client that is told 400 or 404, or whose connection breaks because the
\* handler panics, has changed nothing: everything that can be wrong with a
\* message is found before the first call to the repository.  With the
\* in-memory repository the same goes for 500, unless it is the decrypter's.
RefusedLeavesNoTrace ==
  \A c \in Clients :
    /\ at[c] = "answer"
    /\ \/ code[c] \in {400, 404, Aborted}
       \/ code[c] = 500 /\ conf.backend = "memory" /\ ~DecryptFails(msg[c])
    => effect[c] = Nothing

\* A client that is told 500 has changed nothing.
FailedLeavesNoTrace ==
  \A c \in Clients :
    at[c] = "answer" /\ code[c] = 500 => effect[c] = Nothing

\* How often a part of an update is to be applied.
Due(part) == IF part = EmptyMap THEN 0 ELSE 1

\* An update answered with 200 has been applied, all of it, whatever the route
\* and the number of records with the same name; in memory once, in PostgreSQL
\* once, and once more for every COMMIT that took effect, was not answered and
\* was repeated.
OkMeansApplied ==
  \A c \in Clients :
    at[c] = "answer" /\ code[c] = 200 /\ Update(msg[c]) =>
      LET all == Promised(msg[c])
      IN /\ effect[c] = all
         /\ commits[c].g = lost[c].g + Due(all.g)
         /\ commits[c].c = lost[c].c + Due(all.c)
         /\ conf.backend = "memory" => lost[c] = NoTimes

\* Whatever an update is answered with, it has left behind all it promises, or
\* its gauges without its counters, or nothing: never a part of either and never
\* the counters alone.  With the in-memory repository it is all or nothing, and
\* an error of PostgreSQL leaves of the counters what was committed unanswered.
PartsInOrder ==
  \A c \in Clients :
    at[c] = "answer" /\ Update(msg[c]) /\ effect[c] # Nothing =>
      LET all == Promised(msg[c])
      IN /\ \/ effect[c] = all
            \/ conf.backend = "pgsql" /\ effect[c] = [all EXCEPT !.c = EmptyMap]
         /\ code[c] = 500 /\ ~DecryptFails(msg[c]) => commits[c].c = lost[c].c

\* A counter is the sum, modulo its range, of what the messages applied to it
\* promise to add, each as often as it was committed; and a reader never sees
\* less than what clients had been told before it asked.
CountersAddUp ==
  /\ \A n \in Names : Count(counters[n]) = total[n] % W
  /\ \A c \in Clients :
       seen[c] # Absent /\ total[msg[c].records[1].id] < W =>
         seen[c] >= floor[c][msg[c].records[1].id]

\* An answer has the status the handler meant, and is compressed as a whole if
\* it says so and not at all if it does not; but after a failed decryption
\* compressed data follow the text of the error.
AnswersReadable ==
  \A c \in Clients :
    at[c] = "answer" /\ code[c] # Aborted =>
      LET m == msg[c]
          a == Reply(c)
      IN /\ a.status = code[c]
         /\ IF Stopped(m) = 0 /\ DecryptFails(m) /\ Zips(m)
              THEN ~a.sent.gzip /\ a.body = {"text", "gzip"}
              ELSE a.body \subseteq {IF a.sent.gzip THEN "gzip" ELSE "text"}

\* With a key for signatures an answer that has a body carries one: the writer
\* that signs is there for that.
AnswersSigned ==
  \A c \in Clients :
    at[c] = "answer" /\ code[c] # Aborted =>
      LET a == Reply(c)
      IN a.signs /\ a.body # {} => a.sent.sign
=============================================================================
