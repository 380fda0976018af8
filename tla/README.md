# perfmon in TLA+

A formal model of perfmon, an agent that samples metrics of a machine and a
server that collects them. The modules are translated from the Go source; TLC
checks them on small instances and TLAPS proves the central results for every
instance. `PROJECT.json` says for every definition which lines it stands for.

## 1. Inventory

| Component | State | Operations | Modelled by |
|---|---|---|---|
| `repo/safe`, `repo/memory` | two Go maps, each behind a `sync.RWMutex` | `Get`, `GetAll`, `Set`, `SetAll`, `SetAccum`, `SetAccumAll`, in transactions | `SafeRepo`, `MetricStore` |
| `repo/pgsql` | connection pool; the tables are outside | the same, through `ExecuteTx` | `PgTx`, `DBStore` |
| `monserv/fw`, `repo.Current` | the backup file, the ticker, a scanner's buffer | `RestorePrev`, `Schedule`, `Write` | `RestoreScan`, `BackupFile`, `ServerLife` |
| `cmd/server`, `monserv` | context, errgroup, listener | start, signal, shutdown, exit | `ServerLife` |
| `monserv/handlers` | one request each | update by path, by JSON, by JSON batch; value; page | `MetricsAPI` |
| `monserv/middlewares`, `ciphers` | one request and one answer each | uncompress, check the sum, decrypt; compress, sign | `MetricsAPI`, `Responses` |
| `mondata` | none | numbers to text and back | `Metrics`, `GaugeText` |
| `monclient` | channel, worker pool, a hash, retries | `PollStatsBatch`, `readStats`, `PollWorker`, `Post` | `AgentReports`, `Delivery` |
| `collector` | two maps behind locks | `Monitor`, `Stats` | `AgentReports` |
| `cmd/agent` | context, errgroup | start, signal, exit | `AgentReports` |
| `options`, `init` and `setEnv` of both programs | none after start | defaults, file, flags, environment | `Config` |
| `staticlint`, `templates` | none | | not modelled |

How they interact: the collector writes the agent's maps, `readStats` puts
references to them into a channel, workers build a body from them, sign, encrypt,
compress and post it, again if the connection breaks. On the server each request
runs in a goroutine of its own through the middlewares (uncompress, sum, decrypt)
to a handler, which validates the message and then calls the repository once
(single) or twice (batch: gauges, then counters); its answer goes back through
the writers the middlewares have put around each other. The repository is two
maps in memory or two tables in PostgreSQL. `Schedule` runs beside the handlers
and reads the same maps when the context is cancelled; the next run may restore
what it wrote.

What is hard: the live map that `GetAll` hands out; the two-step batch against
crash, shutdown and backup; a file that is truncated before the data is known to
be writable, and one that is cut with tokens that are slices of a buffer in use; a
commit nobody knows the outcome of; rows locked in the random order of a Go map; a
shutdown in which goroutines wait for one another; a hash shared by a pool; a
retry that shares its buffer with the first attempt; and what of a message is
looked at before, and what after, its first effect. `hazards` in `PROJECT.json`
lists these, each at its line.

What makes a component correct: the repository is linearizable but for `GetAll`
in memory and for commits in doubt in PostgreSQL, and what it locks it releases;
the backup holds what was acknowledged and invents nothing; a refused request
has no effect and a 200 means the whole effect; an answer is encoded as it says
and shows the value there is; no report is dropped between its tick and its
last attempt or counted twice, and each is signed for its own body; a setting
is what the highest source says; both processes end after a signal.

## 2. Modules

`Metrics` is the data: a map is a function on `Names` with the value `Absent`
where the Go map has no entry. Counters are residues modulo `W`, which stands for
2^64; a gauge is only ever overwritten, so `W` distinguishable values will do.
`Merge` is `Set` or `SetAccum`, `ApplyBatch` their `All` forms.

**The repository.** `MetricStore` is the abstract one in memory: call, one
atomic effect, return; `GetAll` promises nothing. `SafeRepo` is one `MRepo` and
the `MemorySt` methods on it. `pc` says where a goroutine is: `begin` (about to
lock), `drain` (a writer that has announced itself and waits for the readers that
were there), `wait` (a reader behind an announced writer), `body` (inside the
transaction), `assign` (it has loaded an entry and not stored it), `release`,
`iter` (iterating over what `GetAll` returned, without the lock), `ret`. `Lock`,
`Locked`, `RLock`, `Unlock` and `RUnlock` are `sync.RWMutex` as its documentation
has it: an announced writer keeps new readers out, `Unlock` lets in those that
waited. The refinement mapping (`AbsStore`, `AbsDone`) counts an update as done
from the moment it holds the lock.

`DBStore` is the abstract repository in a database. It admits what the code
cannot exclude: an effect whose confirmation is lost may be repeated (`Repeat`), a
failed call may have had one (`Fail`), and one that was given up may have it later
(`GiveUp`, `LateEnd`). `PgTx` is `ExecuteTx` and its callers over
one table: `begin` (waits for a connection), `run` (between statements), `wait` (for
a row's lock), `broken` (its rows broke off, which it does not notice), `commit`
(COMMIT is on its way), `done` (committed, not told), `delay` (before a retry), `ok`,
`error`, `adrift` (answered, and nobody knows whether it is to be committed).
`Retryable` and `Final` are the errors `IsRetryable` tells apart; which one is met is
left open. The
external part, PostgreSQL, is what the statements rely on: row locks, the last
committed value for an upsert, a snapshot for a `SELECT`, the refusal of one
transaction of a deadlock. `Close` of the pool waits for the connections in use.

**The backup.** `RestoreScan` is `RestorePrev` as far as the two tokens:
`bufio.Scanner` with its `buf`, `start` and `end` (`Shift` moves the data to the
front, `Grow` makes a larger buffer, `Read` fills it) and the split function. A
byte is its position in the file; only commas and the comma before a brace are
told apart. `BackupFile` says in three comparisons what becomes of a file
(`TooLong`, `Overwritten`, `CountersTooLong`): `RestoreScan` checks that this is
what the scanner does, `ServerLife` relies on it.

**The server.** `ServerLife` is the process over several runs. `phase` is `main`'s
progress; `listener`, `shut` and `writer` are the three goroutines of the errgroup;
`file` is the disk; `flight` is a request between validation and answer. Single
updates are atomic here, which is what `Linearizable` says of them. `Crash` may come
at any point. The backup file is what can be read of it: its entries and a `kind`,
which says whether and how it has been spoilt. A write that fails leaves nothing or
any prefix (`CutShort`), an `os.Truncate` whose error nobody looks at leaves the end of
the older file behind the new data (`Overlays`), and `OpenFile` may fail with the
file truncated or not (`WriteRefused`). `owed` is what a run must save: what it found in
the file with `-r`, and what it acknowledged before `Write` asked for the data; `found` is
what the file had to offer when the run started; `applied` is what was ever added.

`MetricsAPI` is the path of a request. A message is a record of what the code
can tell apart: route, compression, signature, encryption, form, records.
`HandleUpdate` is everything before the first call of the repository, `SetGauges`
and `SetCounters` are the calls, `HandleValue` is a read. `Outcomes` is what an attempt of
`ExecuteTx` may come to with PostgreSQL: committed or not, and reported as a success, as
an error, or not answered and tried again, up to `MaxRetries` times; a sum out of the
range of a BIGINT (`Overflows`) commits nothing. `commits` and `lost` count what was
committed and what of that the handler was not told. `conf`, chosen once, is how the
server was started. `Responses` is the answer on its way out,
through `gzipWriter` and `SignWriter`: which headers had been set when the
status was written and what was written behind them.

`GaugeText` is `FormatGauge` and `ParseGauge` on decimal fractions: texts are
sequences of digits and a dot, and both ways go digit by digit (`OverTen`, `TimesTen`
and the mantissa of `ParseGauge` are recursive functions).

**The agent.** `AgentReports` is the process: `monitor` and `reporter` are the two
loops, `reading` the `readStats` that wait for room in the channel, `queue` the
channel, `pc` the workers, of whom `pool` have been started. Reports are references
to the same maps, so the channel is a number and a body is the number of the
sample it was built from. What an attempt meets is left open.

`Delivery` composes it with a network and a server. Each `Post` has one buffer,
which the HTTP client reads its body from; `whole` says that nothing of it has been
read. A retry reads on in the same buffer, so after an attempt that reached the
server there is nothing left to send: the server answers 500 to what cannot be
uncompressed, and `Post`, which looks at no status, is content. An attempt whose
connection broke may have a handler all the same, which goes on beside those of
later posts. `post` numbers the bodies, `handler` is where the server is with each.

**Settings.** `Config` is how both programs come by their settings: `ReadConfig` (the
file, into the defaults that the flags are registered with), `Parse` (the command
line), `Environment` (`setEnv`), `Start` (the tickers). Each source makes of a text
a set of at most one value: `Typed` for JSON and package `flag`, `SetEnv` for the
environment, where an integer is an `int` converted to a `uint`. Integers have `W`
values and durations wrap around.

`SafeRepo_proofs`, `PgTx_proofs`, `RestoreScan_proofs`, `ServerLife_proofs`,
`MetricsAPI_proofs` and `Delivery_proofs` hold the theorems about the module they
are named after, `Delivery_proofs` those about `AgentReports`, too, `Text_proofs` those
about `GaugeText` and `Config`, and `Metrics_proofs` the lemmas about maps, batches and
sums that several of them need. Each `MC` module gives its
component symmetry sets, files, messages and calls for TLC. `MCServerLife` checks
`ServerLife` and the scanner it relies on, `MCDelivery` the agent and, with `Config`, how
it came by its settings: in each the two share no state, and the initial state says
which of them is looked at.

## 3. What the runs show

All passing runs check states exhaustively within their bounds. Deadlock
checking is off wherever the system really stops: the process has crashed or
exited, or the bounded supply of requests, starts or reports is used up.

| Run | Question | Bounds | Distinct states |
|---|---|---|---|
| `counters` | Are updates isolated, and is the repository of counters linearizable? Does every call return? | 3 goroutines, 2 names, sums modulo 3 | 251 000 |
| `postgres` | Is what `ExecuteTx` reports true, and are transactions atomic? Does every call return, and the pool's `Close`? | 2 handlers, 2 rows, pools of 1 and 2, 1 retry, sums below 3 | 211 000 |
| `server` | Does a backup that succeeds hold what was acknowledged? What can cost a backup? Is anything counted twice? Does the server end? Which files lose their gauges or counters, and which make `RestorePrev` panic? | 2 clients, 2 names, 2 runs, 2 requests, sums modulo 3; files of up to 8 bytes, a buffer of 3 to 7 | 919 000 |
| `api` | Do codes and effects agree, for every kind of message and of configuration? Can the answer be read? | 2 clients, 2 requests, 2 names, sums modulo 3, 1 retry, 4 configurations | 958 000 |
| `agent` | Is any report dropped, or counted twice, or lost, or overtaken? Is each request signed for itself with one worker? Does the agent end? Which source decides a setting, and how often does the agent tick? | pools of 1 and 2, channel of 1, 2 reports, 2 samples, 1 retry; 7-bit integers | 538 000 |

Why the bounds are enough:

- Three goroutines are a writer, one that waits for it and one that comes in
  between, and two names are what it takes to see half of a batch. The calls are
  an update of both names or of one, a read of that one and a read of all: names
  are alike. `counters` checks `UpdateOp = "accum"`; "set" is the case without a sum,
  and the proofs are about both. `postgres` needs two calls and two rows for a deadlock,
  a pool of one for a call that waits for a connection while it holds none, and one
  retry to see an attempt that is the last and one that is not.
- The scanner's buffer of three bytes is doubled once and then grows to a greatest size
  that is not twice the one before. Files of eight bytes are longer than that: each
  object is shorter and longer than half a buffer, a buffer, and the greatest one,
  and commas are wherever they may be.
- Two runs of the server are one that writes a file and one that reads it, and
  after a crash the file is that of the run before. With `Buf = 3` two names make a
  file whose gauges fill more than half of the buffer and one whose gauges do not.
  With `W = 3` two requests reach a sum that has overflowed and one that has not.
- Records of the same name meet in pairs, each message meets each other one, and
  messages are distorted in up to two of the ways a middleware notices (a batch; the
  path and the reads in one). With `W = 3` two deltas of a batch, or two batches, are out
  of range together, and one is not; with one retry a commit may be lost and repeated.
- Two reports for a channel of one leave a `readStats` blocked, and two workers
  share the hash. A handler that is left behind needs a later post to be late for.
  That no larger number of reports, workers or retries matters is proved.
- `Config` has 7-bit integers and 6 nanoseconds in a second, and numbers on both sides
  of every border: of an `int`, of a `uint`, of an interval whose duration still fits
  and of one that wraps around to a positive one. A setting of each kind is
  mentioned in every way by every source, or two in one way each.

Symmetry (of clients) is used only in the runs of `MetricsAPI`, which have no liveness.

Seven runs end in a violation: the code does not do what a comment, a log line or
a flag's help text says of it.

| Run | What happens | Where |
|---|---|---|
| `live_map` | iteration over the live map meets an assignment: the runtime ends the process | `safe.go:26` |
| `graceful` | the server ends under a handler in flight | `cmd/server/main.go:187` |
| `scheduled` | no counter is ever written to the file before a signal, whatever `-i` says | `fw.go:188` |
| `api_encrypted` | answered 500 and applied | `middlewares.go:347` |
| `unsigned` | an answer without a signature, though `-k` gives a key | `middlewares.go:284` |
| `shown` | 10 is shown as 1 and 0 as nothing | `mondata.go:48` |
| `agent_shared` | a request with another's signature | `monclient.go:141` |

Some passing properties say exactly where the code stops short of what one would
like:

- `AcknowledgedSaved`: a backup that succeeded holds every counter that was acknowledged
  before `Write` asked for the data, which may be after the signal, and an entry for
  each such gauge; an answer given later may be missing. Counters wrap around: of one
  whose deltas add up to more than an `int64` holds nothing is said. If the truncation
  failed, `Write` reports success over whatever is left behind its data.
- `BackupKept`: until `Write` begins, a run leaves the backup as it found it; when `Write`
  has returned, what a run with `-r` took over is in the file again, but for errors. So a
  crash loses a backup only inside `Write`. A run without `-r` replaces it at its
  shutdown, even if all it did was to find its port taken.
- `EmptyForAReason`: when something was to be saved and the file is left empty, a gauge
  was NaN or infinite, or the disk failed: the write stored nothing, or the file could
  not be opened after it had been truncated.
- `CutAsPredicted`: a backup whose gauges take more than half of the scanner's first
  buffer, or that does not fit into it, loses its gauges if counters follow, since
  the first token is overwritten before it is used; and the objects of
  64 KiB or more are lost. `RestorePrev` reports success if only one of the two failed
  (`repo.go:73` logs it).
- `PanicsAsPredicted`: the split function panics only on a file that ends in a comma,
  as a torn one may, or on one of at least 4096 bytes, a piece of which may.
- `OkMeansApplied`: a 200 means the whole effect, in memory once. With PostgreSQL a commit
  that took effect without an answer and was repeated has counted twice, and the
  client is told 200 (`pgsql.go:97`).
- `PartsInOrder`: an update that was answered with an error has left behind nothing
  or all it promised, or, with PostgreSQL, the gauges of its batch without the counters
  (`handlers.go:318` returns 500 and takes nothing back). Counters are left behind a
  500 only by commits that were not answered.
- `ToldTruly`, `Implements`: a counter is increased twice only if a commit's answer was
  lost, and an error leaves no effect otherwise.
- `CountedOnce`, `LostForAReason`: a report is never counted twice, and is lost only
  if a connection broke or two workers shared the hash.
- `NoneOvertaken`: the gauges of one worker's report do not replace those of a later one
  of the same worker, unless the earlier one's connection broke and left its handler
  behind. The reports of two workers may be set in any order.
- `AnswersReadable`: an answer is compressed if and only if it says so, but for the
  second answer of `api_encrypted`.
- `OneSignerSigns`: signatures are right with `-l 1`.
- `Precedence`: environment, flag, file, default; but the agent's address in a file
  counts only where `-a` gives one that is invalid.
- `PeriodAsAsked`: the agent ticks at the interval it was given if its
  duration fits and the interval is positive; otherwise it panics, or ticks at
  another one.
- The agent's `ExitsOnSignal` holds only if the server answers: the shutdown timeout
  of `cmd/agent/main.go:153` ends nothing.

Seen while reading, not checked by a run: `cmd/agent/main.go:90` names a field
`key` that `flags` does not have, so the agent as committed does not compile (the
model takes the line to mean `Key`, as line 111 does); without a `HashSHA256` header a request
is let through although the server has a key; `PollCount` is 1 in every report;
with `-l 0` there are no workers, and once the channel is full the agent never ends.

### Fairness

`SafeRepo` assumes that a goroutine that can go on does (weak fairness) and that
`Lock` is not passed over for ever (strong fairness): Go's mutex has a starvation
mode. `PgTx` assumes that the database answers (the code sets no timeout) and looks
for deadlocks, and that whoever waits longest for a connection or a row gets it
(strong fairness of `Begin` and `Granted`: both are queues). `RestoreScan` runs
alone. `ServerLife` and `AgentReports` assume weak fairness of each goroutine; a
`select` whose ticker is ready time and again still takes the cancelled context in
the end, since it chooses at random. No fairness is assumed of signals, crashes,
failures, ticks of the agent or clients. The agent's exit
needs that every request ends (`NetworkFairness` of `AgentReports`). `Delivery` derives
that, as a property of its run, from weaker assumptions: an attempt and an answer
arrive unless the connection breaks, and the server's handlers go on.

## 4. What is proved

Every theorem is for all values of the constants that the `ASSUME`s of its module
admit: any number of goroutines, names, values, retries and bounds.

`SafeRepo_proofs`, for both values of `UpdateOp`:

- `TypeCorrect`, `Invariance`, `Isolation`: `TypeOK`, `IInv`, `UpdateIsolated`. Neither
  the type invariant nor `UpdateIsolated` is inductive. `IInv` adds the bookkeeping
  of the lock (`LockHeld`: the announced writer is whoever is in a writable
  transaction, the readers are those in a read-only one, and a writer past `Lock`
  has none beside it), what a goroutine's position says of its call (`CallsMatch`),
  and what the loop over a batch keeps (`LoopSound`: the loaded value is still in
  the map). `StepIInv` has one step per action.
- `Implementation`: `Spec => Linearizable`, the refinement of `MetricStore`. Under
  `IInv` a step maps to `Call`, `Update` (when `Locked` is taken), `Get`, `GetAll`
  or `Return` of the abstract repository, or to a stutter; for `Assign` the entry
  leaves `todo` and takes the value that `AbsStore` had for it already.

`PgTx_proofs`:

- `TypeCorrect`, `Invariance`, `TruthTold`: `TypeOK`, `IInv`, `ToldTruly`. `IInv` says
  whose each lock is, that what a transaction has written are its locked rows on
  top of what is committed, and that every commit is accounted for by the attempts
  there have been and the answers that were lost.
- `Implementation`: `Spec => Implements`, the refinement of `DBStore`. `Commit` is the
  abstract update; that the rows are upserted one by one shows nowhere, because they
  are locked until then.

`RestoreScan_proofs`, for buffers of any two sizes and any files: `TypeCorrect`,
`Gapless` (`DataInOrder`), `PanicsOnly` (`PanicsAsPredicted`). The invariant adds that once
something has been read it is a buffer or the whole file; the byte the split
function stops at is then, since the data have no gap, the last one read. That the
first stop exists (`Least`) rests on the well-foundedness of finite sets. `CutRight`
(`CutAsPredicted`) has an invariant of its own, `Cutting`: the first Scan has looked
at the file from its front (`Looking`) and has taken all of it (`AllTaken`), nothing
(`NoneTaken`), or the gauges; then the second is halfway, and the first token is
`Intact` or `Spoilt`: its first byte is the brace the counters begin with. `Deep` is what makes
three comparisons enough: a buffer larger than the first one is one the gauges are
more than half of, so the data behind them are moved to the front before any more
are read. So what `ServerLife` takes from `BackupFile` is proved of the scanner for
`4096` and `65536` as for any two sizes. `StepsRunOut` is what can be proved of `Ends`: a number
falls with every step (`StepsLeft`, a sum of what the buffer can grow, what there is to
read, the scans, and a move of the data for each token), so the two Scans can take
only so many; that they go on as long as they are not done is what TLC checks.

`Metrics_proofs` has what the next two rest on. A sum of naturals is taken as the
cardinality of a set of units, one for each client and each number up to its
summand (`Units`, `UnitsChange`), so that the library's facts about finite sets do what
a sum defined by recursion would need induction for; and induction over `1 .. n`
itself is had from the well-foundedness of finite sets (`UpTo`). `SumWraps` says that
adding modulo `W`, time and again, is adding.

`ServerLife_proofs`:

- `TypeCorrect` (`TypeOK`).
- `NoneInvented` (`NothingInvented`): what is in the maps, the image and the file is
  bounded by what was applied (`Bounded`).
- `EmptiedForAReason` (`EmptyForAReason`) must follow what a run owes from the file it was
  restored from (`OwesFile`) through the maps (`OwesMaps`, `AppliedIsThere`) into the image
  that is being marshalled (`OwesImage`), so that "nothing to write" is said only if
  nothing is owed (`NothingToWrite`); `Ending` says why `Write` has ended as it has.
- `Saved` (`AcknowledgedSaved`). The counters must be ahead of what is owed, by the deltas
  of all the requests that have been applied and not yet answered (`Covered`): an answer
  moves its deltas from one side to the other, and none does once `Write` reads the maps.
- `Keeps` (`BackupKept`): what a run has taken over is among what it owes (`Kept`), so the
  second part follows from `Saved` and `Ending`.

`MetricsAPI_proofs`, for any messages, batches of any length and any configurations:

- `NoTrace` (`RefusedLeavesNoTrace`).
- `TypeCorrect` (`TypeOK`): the invariant adds that whoever is not idle has sent a
  message, and that a batch is folded into maps.
- `OkApplied` (`OkMeansApplied`). `Promised` says of a batch, without any order, what it
  promises: of each gauge the last record, of each counter the sum of the deltas.
  `Aggregated` is the handler's loop, record by record. `LoopPromised` shows that the
  second is the first, by induction over the records: each turn keeps what the maps
  say of the records before it (`TurnKeeps`, `LoopKeeps`). `Applying` then follows the
  batch through the two calls and their repetitions, and `Counting` how often each part
  has been committed, and how often the handler was not told (`GaugesCounted`,
  `CountersCounted` say it of one call).
- `AppliedInOrder` (`PartsInOrder`): the same two have of a handler that is done what it
  may have `Left`, and that behind a 500 the counters were committed only unanswered.
- `AddUp` (`CountersAddUp`): each commit adds to `total` what the message promises
  (`PromisedType`, `LoopPromised`), and to the counters what the loop has made of it. `Adding`
  says that the total of a counter is at least what clients were told and what is
  still to be told, and that whoever has read a counter has seen no less than clients had
  been told when it asked.
- `Readable` (`AnswersReadable`): each of the ways to write an answer, through each of the
  writers around it, and `Answering`, which says which code a request has once a
  middleware has refused it or its decryption has failed. Of signatures it says
  nothing: `unsigned` is about them.

`Delivery_proofs`, of `AgentReports`, with and without a key:

- `TypeCorrect`: `TypeOK`.
- `ReportsKept`: `NothingDropped`, if no pool is empty. With `-l 0` nobody empties the
  channel, and an exit before it is full drops what it holds.
- `SignedForItself`: `OneSignerSigns`.

Their invariant `IInv` adds to the types where every report is (`Accounted`; its
steps count the busy workers with the library's facts about cardinality), the
order of the shutdown (`InOrder`: a worker of the pool ends only when the channel is
closed and empty, so a clean exit finds it empty), and what the hash has been fed
wherever the only worker is (`HashSound`; `signed` alone is not inductive).

And of `Delivery`: `AgentKept` (`DeliverySpec => Spec` of `AgentReports`, so that its
theorems hold here, too), `NetTypeCorrect`, `AtMostOnce` (`CountedOnce`: a post that is
whole has had no handler, and a handler counts once), `SeenOff` (`LostForAReason`) and
`InOrderOfPosts` (`NoneOvertaken`: `InTurn` says that a handler which has yet to set
its gauges is of the post its worker waits for, or was left behind by a broken connection,
whatever other workers do).

`Text_proofs`, of `Config`: `Ranking` (`Precedence`), for any values of any settings; and
`Periods` (`PeriodAsAsked`), for integers and seconds of any width: an interval that
fits has the duration it says (`PeriodOf`), and one that does not has been asked for as
such.

And of `GaugeText`: `TextsAreShownUpToZeros`, what is true where `shown` refutes that texts
are exact: for gauges of any size with any number of decimal places (`SomePlaces`), one
with a fraction, or whose last digit is not zero, is shown as itself, and of any other
nothing but zeros is missing (`ShownUpToZeros`). What a recursive function over `0 .. n`
computes is had from two lemmas: `Recurrence` (there is a function that obeys the recursion, so the
one chosen does) and `Climb` (what holds of 0 and of `i + 1` if it holds of `i` holds up
to `n`), both from the well-foundedness of finite sets. Then: the digits of a number read
back are the number (`DigitsOf`, `Reading`, `ReadOn`), so the mantissa of a text is its gauge
without the digits that were trimmed; what was trimmed behind the dot are zeros, which
the shift by the missing places puts back (`ZerosPutBack`), so a gauge with a fraction
is read as itself (`ShownWithFraction`); what was trimmed of a gauge without one are the
zeros of its whole part, and `z` counts them (`ShownWhole`).

Only model-checked: liveness, which the prover cannot treat (`CallsReturn`, `CloseReturns`,
`Ends`, `ExitsOnSignal`, `NetworkFairness`). Every other property of the passing runs is a
theorem.

## 5. What is left out

- Logging, layout, status texts; the profiler's routes; `PingHandler`; the HTML
  page, which is a `GetAll` in `SafeRepo`.
- The pool of gzip writers: each answer has one of its own.
- The creation of the tables in `pgsql.Init`. The rollback of a connection that has
  been lost is taken to happen at some later time.
- In `MetricsAPI` the attempts of `ExecuteTx` that are retried without having had an
  effect are not steps; those that had one, and the last, are. A commit that takes effect
  after the error it was reported as is put together with that error. `PgTx` has all of
  these one by one.
- `ServerLife` has the repository in memory only: with a database nothing is
  backed up.
- In `ServerLife` the length of a torn or overlaid file is taken as that of what was to
  be written, and a truncation that fails is not followed by a write that does.
- In `RestoreScan` a metric whose name holds a comma and a brace.
- In `Delivery` a rate limit's effect on the server, encryption, and a server that
  ends under its handlers (`graceful` is about that).
- Exponents and signs of gauges; `FormatFloat` with `'f'` writes no exponents.
- The agent's metrics one by one, and so the three goroutines of `Stats`: a
  sample is a number.
- `monclient.PollStats`, `buildReqBody` and package `opts` are not used by the
  program. `staticlint` is a list of analysers, and `templates` layout: neither has
  state.

## 6. Plan

Done, in this order: `SafeRepo` with `MetricStore`; `ServerLife`, `MetricsAPI`,
`GaugeText`, `AgentReports`; `PgTx` with `DBStore`; `RestoreScan`; `Delivery`;
`Config`; `Responses`; and the proofs.

What could follow: `Collector` (the goroutines of `Stats` and the locks of the two
maps, whose samples may overtake one another), with the live maps that `buildReqBatchBody`
iterates over; the composition of `PgTx` with `MetricsAPI`, in place of `Outcomes`, and a
proof of it from `Implementation` of `PgTx`.
