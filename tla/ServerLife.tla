----------------------------- MODULE ServerLife ------------------------------
(***************************************************************************)
(* The life of the server process with the in-memory repository, over      *)
(* several runs: main of cmd/server, Current.Restore, Backup.RestorePrev,  *)
(* Backup.Schedule and Backup.Write, and the update requests in flight     *)
(* meanwhile.                                                              *)
(*                                                                         *)
(* A single update, of one metric or of a batch, is atomic here: SafeRepo  *)
(* shows that it looks so.  A batch request is two of them, the gauges'    *)
(* and then the counters'.  What Write marshals is the live map, entry by  *)
(* entry, while requests go on; the fatal error that may come of it        *)
(* (NeverCrashes of SafeRepo) is one of the causes of Crash.               *)
(***************************************************************************)
EXTENDS Metrics, BackupFile, FiniteSets

CONSTANTS Clients,     \* clients with a request in flight
          NaN,         \* a gauge JSON cannot express: NaN or an infinity
          Updates,     \* the update requests clients send
          MaxStarts,   \* bound: how often the server is started
          MaxSends     \* bound: how many requests are sent

GaugeMap == [Names -> Val \cup {NaN, Absent}]

ASSUME ServerLifeAssumption ==
  /\ NaN \notin Val \cup {Absent}
  /\ Updates \subseteq [g : GaugeMap, c : Map]
  /\ MaxStarts \in Nat /\ MaxSends \in Nat

VARIABLES phase,      \* of main: "restore", "serve", then "down" or "killed"
          restore,    \* the -r flag of this run
          gauges,     \* MemorySt.Gauge
          counters,   \* MemorySt.Counter
          file,       \* the backup file
          cancelled,  \* gCtx is done: a signal came or listening failed
          listener,   \* of ListenAndServe: "closed", "open", "returned"
          shut,       \* Shutdown has been called and has returned
          tick,       \* the ticker of Schedule has fired
          writer,     \* where Schedule and Write are
          todo,       \* the entries Marshal has not read yet
          image,      \* what it has read: the data to write
          flight,     \* the request of each client and where its handler is
          starts,     \* the number of runs so far
          sends,      \* the number of requests sent so far
          applied,    \* history: the counter deltas applied, over all runs
          owed,       \* history: what this run has acknowledged in time
          found,      \* history: what the file had to offer when it started
          resumed     \* history: this run has read the file

server == <<phase, restore, listener, shut, starts>>
memory == <<gauges, counters, applied>>
backup == <<file, tick, writer, todo, image>>
ledger == <<owed, found, resumed>>
requests == <<flight, sends, ledger>>
vars == <<server, memory, backup, requests, cancelled>>

-----------------------------------------------------------------------------
(***************************************************************************)
(* The backup file, told apart by what can be read of it.  A "full" file   *)
(* is what Write composes, [{gauges},{counters}] without the second object *)
(* if there is no counter.  Of others the gauges do not parse              *)
(* ("cutGauges": nor are there counters; "oldCounters": those of an older  *)
(* file do), or the counters do not ("cutCounters"), or there is nothing   *)
(* behind the last comma ("comma").                                        *)
(***************************************************************************)
Empty == [kind |-> "empty", g |-> EmptyMap, c |-> EmptyMap]
Files == [kind : {"empty", "full", "cutGauges", "cutCounters", "oldCounters",
                  "comma"},
          g : GaugeMap, c : Map]

\* What is left in an empty file when the write of d breaks off: a prefix of it,
\* which may be nothing, end between the objects or lack only the last bracket.
CutShort(d) ==
  LET Cut(kind) == [d EXCEPT !.kind = kind]
  IN  {Empty, Cut("full")}
        \cup (IF Keys(d.g) = {} THEN {}
              ELSE {Cut("cutGauges"), [Cut("full") EXCEPT !.c = EmptyMap]})
        \cup (IF Keys(d.c) = {} THEN {} ELSE {Cut("cutCounters"), Cut("comma")})
        \cup (IF Cardinality(Keys(d.g)) > 1 THEN {Cut("comma")} ELSE {})

\* What is in a file that held old when d is written over its beginning: d, if
\* that is no shorter, or d with the end of old behind it.  Without counters in
\* d that end goes with the gauges, and the counters of old may come next.
Overlays(old, d) ==
  LET Over(kind) == [d EXCEPT !.kind = kind]
      before == old.kind \in {"full", "oldCounters"} /\ Keys(old.c) # {}
  IN  {Over("full")}
        \cup (IF Keys(d.c) # {} THEN {Over("cutCounters")}
              ELSE {Over("cutGauges")}
                     \cup (IF old.kind = "cutCounters" THEN {Over("cutCounters")}
                           ELSE {})
                     \cup (IF before
                             THEN {[Over(kind) EXCEPT !.c = old.c] :
                                     kind \in {"full", "oldCounters"}}
                             ELSE {}))
        \cup (IF old.kind = "comma" THEN {Over("comma")} ELSE {})

\* Where Write is, and how it may have ended: with the data in the file, with the
\* data over the beginning of an older file, or with an error.
Writing == {"opened", "gauges", "counters"}
Returned == {"done", "overlaid", "nothing", "noJSON", "ioError"}

\* The sizes of the gauges' object and of the file, in entries.
Size(f) == Cardinality(Keys(f.g))
Length(f) == Size(f) + Cardinality(Keys(f.c))

\* What json.Unmarshal makes of the two tokens RestorePrev takes for the gauges
\* and the counters.  RestoreScan shows how long files are cut.
GaugeToken(f) ==
  CASE f.kind = "empty" \/ Size(f) = 0 \/ TooLong(Size(f)) -> "none"
    [] \/ f.kind \in {"cutGauges", "oldCounters"}
       \/ Overwritten(Size(f), Length(f)) -> "bad"
    [] OTHER -> "ok"

CounterToken(f) ==
  CASE TooLong(Size(f)) \/ f.kind = "cutCounters" -> "bad"
    [] \/ f.kind \in {"empty", "cutGauges"} \/ Keys(f.c) = {}
       \/ CountersTooLong(Size(f), Length(f)) -> "none"
    [] OTHER -> "ok"

NoRequest == [at |-> "none", g |-> EmptyMap, c |-> EmptyMap]
Request(at, u) == [at |-> at, g |-> u.g, c |-> u.c]

\* What a run owes its users: an entry for each of these gauges, and counters
\* at least as high as these.
Ledger == [g : SUBSET Names, c : [Names -> Nat]]
Nothing == [g |-> {}, c |-> Zero]
Restorable(f) ==
  IF f.kind = "comma" THEN Nothing
  ELSE [g |-> IF GaugeToken(f) = "ok" THEN Keys(f.g) ELSE {},
        c |-> IF CounterToken(f) = "ok" THEN Plus(Zero, f.c) ELSE Zero]

-----------------------------------------------------------------------------
\* There is no process.
Ended == phase \in {"down", "killed"}

Init ==
  /\ phase = "down" /\ restore = FALSE
  /\ gauges = EmptyMap /\ counters = EmptyMap
  /\ file = Empty
  /\ cancelled = FALSE /\ listener = "closed" /\ shut = FALSE
  /\ tick = FALSE /\ writer = "idle" /\ todo = {} /\ image = Empty
  /\ flight = [c \in Clients |-> NoRequest]
  /\ starts = 0 /\ sends = 0
  /\ applied = Zero
  /\ owed = Nothing /\ found = Nothing /\ resumed = FALSE

\* The process starts, with or without -r.  A run that restores owes its
\* users what of the backup can be read.
Start(r) ==
  /\ Ended /\ starts < MaxStarts
  /\ phase' = "restore" /\ restore' = r
  /\ starts' = starts + 1
  /\ listener' = "closed" /\ shut' = FALSE /\ cancelled' = FALSE
  /\ gauges' = EmptyMap /\ counters' = EmptyMap
  /\ tick' = FALSE /\ writer' = "schedule" /\ todo' = {} /\ image' = Empty
  /\ flight' = [c \in Clients |-> NoRequest]
  /\ owed' = IF r THEN Restorable(file) ELSE Nothing
  /\ found' = Restorable(file) /\ resumed' = FALSE
  /\ UNCHANGED <<file, sends, applied>>

\* The process is killed, or the runtime ends it.
Crash ==
  /\ ~Ended
  /\ phase' = "killed"
  /\ flight' = [c \in Clients |-> NoRequest]
  /\ UNCHANGED <<restore, listener, shut, starts, memory, backup, sends, ledger,
                 cancelled>>

\* Mutants of Restore: the counters are set twice; the file is opened with
\* O_TRUNC, once its data have been read.
RestoreTwice ==
  /\ phase = "restore" /\ restore /\ file.kind # "comma"
  /\ phase' = "serve" /\ resumed' = TRUE
  /\ gauges' = IF GaugeToken(file) = "ok" THEN file.g ELSE gauges
  /\ counters' = IF CounterToken(file) = "ok"
                   THEN ApplyBatch("accum", file.c, file.c) ELSE counters
  /\ UNCHANGED <<restore, listener, shut, starts, applied, backup, flight, sends,
                 owed, found, cancelled>>
RestoreTruncates ==
  /\ phase = "restore" /\ restore /\ file.kind # "comma"
  /\ phase' = "serve" /\ resumed' = TRUE
  /\ gauges' = IF GaugeToken(file) = "ok"
                 THEN ApplyBatch("set", gauges, file.g) ELSE gauges
  /\ counters' = IF CounterToken(file) = "ok"
                   THEN ApplyBatch("accum", counters, file.c) ELSE counters
  /\ file' = Empty
  /\ UNCHANGED <<restore, listener, shut, starts, applied, tick, writer, todo,
                 image, flight, sends, owed, found, cancelled>>

\* Restore with -r: RestorePrev reads the file and sets what it could parse.
Restore ==
  /\ phase = "restore" /\ restore /\ file.kind # "comma"
  /\ phase' = "serve" /\ resumed' = TRUE
  /\ gauges' = IF GaugeToken(file) = "ok"
                 THEN ApplyBatch("set", gauges, file.g) ELSE gauges
  /\ counters' = IF CounterToken(file) = "ok"
                   THEN ApplyBatch("accum", counters, file.c) ELSE counters
  /\ UNCHANGED <<restore, listener, shut, starts, applied, backup, flight, sends,
                 owed, found, cancelled>>

\* The file cannot be opened: the run says so and owes nothing of it.
RestoreFails ==
  /\ phase = "restore" /\ restore
  /\ phase' = "serve"
  /\ owed' = Nothing
  /\ UNCHANGED <<restore, listener, shut, starts, memory, backup, flight, sends,
                 found, resumed, cancelled>>

\* The split function looks one byte past a comma that ends the file, or that
\* happens to end what is in the scanner's buffer.
RestorePanics ==
  /\ phase = "restore" /\ restore
  /\ file.kind = "comma" \/ FillsBuffer(Length(file))
  /\ Crash

RestoreNot ==
  /\ phase = "restore" /\ ~restore
  /\ phase' = "serve"
  /\ UNCHANGED <<restore, listener, shut, starts, memory, backup, requests,
                 cancelled>>

\* SIGINT, SIGTERM or SIGQUIT: the first one cancels the context.
Signal ==
  /\ ~Ended /\ ~cancelled
  /\ cancelled' = TRUE
  /\ UNCHANGED <<server, memory, backup, requests>>

-----------------------------------------------------------------------------
(* The three goroutines of main's errgroup. *)

\* ListenAndServe opens the port ...
Listen ==
  /\ phase = "serve" /\ listener = "closed" /\ ~shut
  /\ listener' = "open"
  /\ UNCHANGED <<phase, restore, shut, starts, memory, backup,
                 requests, cancelled>>

\* ... or finds it taken, which cancels the group.
ListenFails ==
  /\ phase = "serve" /\ listener = "closed" /\ ~shut
  /\ listener' = "returned" /\ cancelled' = TRUE
  /\ UNCHANGED <<phase, restore, shut, starts, memory, backup, requests>>

\* It returns as soon as Shutdown has been called, or at once if it is late.
ListenReturns ==
  /\ phase = "serve" /\ listener \in {"closed", "open"} /\ shut
  /\ listener' = "returned"
  /\ UNCHANGED <<phase, restore, shut, starts, memory, backup,
                 requests, cancelled>>

\* Shutdown is given a context derived from the cancelled one: it closes the
\* listener and returns without waiting for the handlers.
Shutdown ==
  /\ phase = "serve" /\ cancelled /\ ~shut
  /\ shut' = TRUE
  /\ UNCHANGED <<phase, restore, listener, starts, memory, backup,
                 requests, cancelled>>

\* The ticker fires every 300 seconds, whatever -i says ...
Tick ==
  /\ phase = "serve" /\ writer = "schedule" /\ ~tick
  /\ tick' = TRUE
  /\ UNCHANGED <<server, memory, file, writer, todo, image, requests, cancelled>>

\* ... and the case of Schedule for it has no statement left in it.
TickTaken ==
  /\ phase = "serve" /\ writer = "schedule" /\ tick
  /\ tick' = FALSE
  /\ UNCHANGED <<server, memory, file, writer, todo, image, requests, cancelled>>

\* Schedule sees the cancelled context.  Write truncates the file before it
\* asks for the data, opens it ...
WriteBegin ==
  /\ phase = "serve" /\ writer = "schedule" /\ cancelled
  /\ file' = Empty
  /\ writer' = "opened"
  /\ UNCHANGED <<server, memory, tick, todo, image, requests, cancelled>>

\* (nobody looks at the error of os.Truncate, so Write may go on with a file that
\* is not empty; if there is none, it is created) ...
TruncateFails ==
  /\ phase = "serve" /\ writer = "schedule" /\ cancelled
  /\ writer' = "opened"
  /\ UNCHANGED <<server, memory, file, tick, todo, image, requests, cancelled>>

\* (or the file cannot be opened, be it truncated or not) ...
WriteRefused ==
  /\ phase = "serve" /\ writer = "schedule" /\ cancelled
  /\ file' \in {file, Empty}
  /\ writer' = "ioError"
  /\ UNCHANGED <<server, memory, tick, todo, image, requests, cancelled>>

\* ... and is given the live maps.  Entries added from here on are not seen:
\* json.Marshal makes room for the entries there are and panics on more.
MarshalBegin ==
  /\ phase = "serve" /\ writer = "opened"
  /\ writer' = "gauges" /\ todo' = Keys(gauges)
  /\ UNCHANGED <<server, memory, file, tick, image, requests, cancelled>>

MarshalGauge ==
  /\ phase = "serve" /\ writer = "gauges"
  /\ \E n \in todo : /\ image' = [image EXCEPT !.g[n] = gauges[n]]
                     /\ todo' = todo \ {n}
  /\ UNCHANGED <<server, memory, file, tick, writer, requests, cancelled>>

\* A gauge JSON has no literal for makes json.Marshal, and so Write, fail.
MarshalGaugesEnd ==
  /\ phase = "serve" /\ writer = "gauges" /\ todo = {}
  /\ IF \E n \in Names : image.g[n] = NaN
       THEN writer' = "noJSON" /\ UNCHANGED todo
       ELSE writer' = "counters" /\ todo' = Keys(counters)
  /\ UNCHANGED <<server, memory, file, tick, image, requests, cancelled>>

MarshalCounter ==
  /\ phase = "serve" /\ writer = "counters"
  /\ \E n \in todo : /\ image' = [image EXCEPT !.c[n] = counters[n]]
                     /\ todo' = todo \ {n}
  /\ UNCHANGED <<server, memory, file, tick, writer, requests, cancelled>>

\* Mutant of WriteFile: it does not wait for all counters to be read.
WriteFileEarly ==
  /\ phase = "serve" /\ writer = "counters"
  /\ file' = [image EXCEPT !.kind = "full"] /\ writer' = "done"
  /\ UNCHANGED <<server, memory, tick, todo, image, requests, cancelled>>

\* Mutant of WriteFile: "nothing to write" if one of the maps is empty.
WriteFileOfBoth ==
  /\ phase = "serve" /\ writer = "counters" /\ todo = {}
  /\ IF image.g = EmptyMap \/ image.c = EmptyMap
       THEN UNCHANGED file /\ writer' = "nothing"
       ELSE file' = [image EXCEPT !.kind = "full"] /\ writer' = "done"
  /\ UNCHANGED <<server, memory, tick, todo, image, requests, cancelled>>

\* "nothing to write" is an error; the file has been truncated all the same.
WriteFile ==
  /\ phase = "serve" /\ writer = "counters" /\ todo = {}
  /\ image = Empty \/ file = Empty
  /\ IF image = Empty
       THEN UNCHANGED file /\ writer' = "nothing"
       ELSE file' = [image EXCEPT !.kind = "full"] /\ writer' = "done"
  /\ UNCHANGED <<server, memory, tick, todo, image, requests, cancelled>>

\* The file was not truncated: the data go over its beginning, with success.
WriteOver ==
  /\ phase = "serve" /\ writer = "counters" /\ todo = {}
  /\ image # Empty /\ file # Empty
  /\ file' \in Overlays(file, image) /\ writer' = "overlaid"
  /\ UNCHANGED <<server, memory, tick, todo, image, requests, cancelled>>

\* f.Write fails (no space left) and leaves a prefix.
WriteFails ==
  /\ phase = "serve" /\ writer = "counters" /\ todo = {}
  /\ image # Empty /\ file = Empty
  /\ file' \in CutShort(image) /\ writer' = "ioError"
  /\ UNCHANGED <<server, memory, tick, todo, image, requests, cancelled>>

\* Mutant of Exit: main waits for a backup that succeeds.
ExitIfWritten ==
  /\ phase = "serve"
  /\ listener = "returned" /\ shut /\ writer = "done"
  /\ phase' = "down"
  /\ flight' = [c \in Clients |-> NoRequest]
  /\ UNCHANGED <<restore, listener, shut, starts, memory, backup,
                 sends, ledger, cancelled>>

\* g.Wait returns when the three have; main ends and the handlers with it.
Exit ==
  /\ phase = "serve"
  /\ listener = "returned" /\ shut /\ writer \in Returned
  /\ phase' = "down"
  /\ flight' = [c \in Clients |-> NoRequest]
  /\ UNCHANGED <<restore, listener, shut, starts, memory, backup,
                 sends, ledger, cancelled>>

-----------------------------------------------------------------------------
(* Requests: UpdateHandler, UpdateRootHandler and UpdateBatchHandler, whose   *)
(* validation MetricsAPI models.                                             *)

Send(c, u) ==
  /\ phase = "serve" /\ listener = "open" /\ ~shut
  /\ flight[c].at = "none" /\ sends < MaxSends
  /\ flight' = [flight EXCEPT ![c] = Request("gauges", u)]
  /\ sends' = sends + 1
  /\ UNCHANGED <<server, memory, backup, ledger, cancelled>>

SetGauges(c) ==
  /\ phase = "serve" /\ flight[c].at = "gauges"
  /\ gauges' = ApplyBatch("set", gauges, flight[c].g)
  /\ flight' = [flight EXCEPT ![c].at = "counters"]
  /\ UNCHANGED <<server, counters, applied, backup, sends, ledger, cancelled>>

SetCounters(c) ==
  /\ phase = "serve" /\ flight[c].at = "counters"
  /\ counters' = ApplyBatch("accum", counters, flight[c].c)
  /\ applied' = Plus(applied, flight[c].c)
  /\ flight' = [flight EXCEPT ![c].at = "respond"]
  /\ UNCHANGED <<server, gauges, backup, sends, ledger, cancelled>>

\* The client gets its 200.  What it was told before Write asks for the data is
\* owed, after a signal, too.
Respond(c) ==
  /\ phase = "serve" /\ flight[c].at = "respond"
  /\ owed' = IF writer \in {"schedule", "opened"}
               THEN [g |-> owed.g \cup Keys(flight[c].g),
                     c |-> Plus(owed.c, flight[c].c)]
               ELSE owed
  /\ flight' = [flight EXCEPT ![c] = NoRequest]
  /\ UNCHANGED <<server, memory, backup, sends, found, resumed, cancelled>>

-----------------------------------------------------------------------------
\* What the process does on its own.
Run ==
  \/ Restore \/ RestorePanics \/ RestoreNot
  \/ Listen \/ ListenReturns \/ Shutdown
  \/ Tick \/ TickTaken
  \/ WriteBegin \/ MarshalBegin \/ MarshalGauge \/ MarshalGaugesEnd
  \/ MarshalCounter \/ WriteFile \/ WriteOver
  \/ Exit

Handle(c) == SetGauges(c) \/ SetCounters(c) \/ Respond(c)

Next ==
  \/ \E r \in BOOLEAN : Start(r)
  \/ Crash \/ Signal \/ RestoreFails \/ ListenFails
  \/ TruncateFails \/ WriteRefused \/ WriteFails
  \/ Run
  \/ \E c \in Clients : Handle(c) \/ \E u \in Updates : Send(c, u)

Spec == Init /\ [][Next]_vars

(***************************************************************************)
(* Goroutines that can run do run, each on its own: main, the listener,    *)
(* the shutdown, the handlers, and Schedule, whose select takes the        *)
(* cancelled context in the end even if the ticker is ready time and again.*)
(***************************************************************************)
Fairness ==
  /\ WF_vars(Restore \/ RestorePanics \/ RestoreNot \/ Exit)
  /\ WF_vars(Listen \/ ListenReturns)
  /\ WF_vars(Shutdown)
  /\ WF_vars(Tick) /\ WF_vars(TickTaken)
  /\ WF_vars(WriteBegin)
  /\ WF_vars(MarshalBegin \/ MarshalGauge \/ MarshalGaugesEnd \/ MarshalCounter
              \/ WriteFile \/ WriteOver)
  /\ \A c \in Clients : WF_vars(Handle(c))

FairSpec == Spec /\ Fairness

-----------------------------------------------------------------------------
(* Properties. *)

\* Every variable has its type; a counter stays within its int64.
TypeOK ==
  /\ phase \in {"restore", "serve", "down", "killed"}
  /\ restore \in BOOLEAN
  /\ gauges \in GaugeMap /\ counters \in Map
  /\ file \in Files /\ image \in Files
  /\ cancelled \in BOOLEAN /\ shut \in BOOLEAN /\ tick \in BOOLEAN
  /\ listener \in {"closed", "open", "returned"}
  /\ writer \in {"idle", "schedule"} \cup Writing \cup Returned
  /\ todo \subseteq Names
  /\ flight \in [Clients -> [at : {"none", "gauges", "counters", "respond"},
                             g : GaugeMap, c : Map]]
  /\ starts \in 0 .. MaxStarts /\ sends \in 0 .. MaxSends
  /\ applied \in [Names -> Nat]
  /\ owed \in Ledger /\ found \in Ledger
  /\ resumed \in BOOLEAN

\* File f has an entry for the gauges and the counts of ledger l.  Only of a
\* counter whose deltas have added up to more than an int64 holds this says
\* nothing.
Holds(f, l) ==
  \A n \in Names : /\ applied[n] < W => Count(f.c[n]) >= l.c[n]
                   /\ n \in l.g => n \in Keys(f.g)

\* The shutdown backup that reports success holds every counter update that was
\* acknowledged before Write asked for the data, be it before or after the
\* signal, on top of those the run had restored, and an entry for every gauge
\* that was or had been restored: although Write reads live maps under other
\* handlers' updates, and whatever crashed or was cut before.  Only if the file
\* could not be truncated does success say less.
AcknowledgedSaved == writer = "done" => Holds(file, owed)

\* A run leaves the backup it has found as it is until Write begins, whatever
\* it reads of it and however it ends.  Once Write has returned, the data a run
\* has taken over are in the file again, unless Write had an error of the disk or
\* of JSON, or wrote over a file it could not truncate.  So the one moment at
\* which a crash can lose them is Write itself.
BackupKept ==
  /\ writer \in {"idle", "schedule"} => Restorable(file) = found
  /\ writer \in {"done", "nothing"} /\ resumed => Holds(file, found)

\* No counter is ever more than the sum of the deltas applied to it: no
\* sequence of backups, restores, crashes and restarts counts one twice.
NothingInvented ==
  \A n \in Names : /\ Count(counters[n]) <= applied[n]
                   /\ Count(file.c[n]) <= applied[n]

\* After a signal the process ends, whatever requests are in flight and
\* whether or not the backup can be written.
ExitsOnSignal == cancelled ~> Ended

\* An exit that is not a crash waits for the handlers.
GracefulExit ==
  [][phase = "serve" /\ phase' = "down" =>
       \A c \in Clients : flight[c].at = "none"]_vars

\* A counter gets into the backup file in the end, though nobody stops the
\* server: there is an interval for writing to the file.
ScheduledBackup ==
  \A n \in Names :
    (phase = "serve" /\ counters[n] # Absent)
      ~> (phase # "serve" \/ cancelled \/ file.c[n] = counters[n])

\* The shutdown backup truncates the file before it knows that it can write.
\* When it has ended with nothing in the file though there was something to
\* save, it had met a gauge JSON has no literal for, or an error of the disk.
EmptyForAReason ==
  writer \in Returned /\ file = Empty /\ owed # Nothing =>
    \/ writer = "noJSON" /\ \E n \in Names : image.g[n] = NaN
    \/ writer = "ioError"
=============================================================================
