# Essential Diagnostics in TLA+

A verification project for Essential.Diagnostics, a .NET library of trace
listeners for `System.Diagnostics`: TLA+ modules translated from its C# source,
TLC configurations that check them on small instances, and theorems checked by
TLAPS. Paths are relative to `src/src/`; `Essential.Diagnostics.` is left out of
the names of projects.

## The system

An application writes traces to a `TraceSource`; .NET hands each trace, on the
calling thread, to every listener configured. A listener formats the trace and
stores or sends it. The library has these parts.

| Part | State | Operations | Interacts with | What is hard |
|---|---|---|---|---|
| `SeqBatchSender` (SeqTraceListener) | bounded queue, `isProcessing`, `sendTrigger`; the locals of `Process` | Enqueue, the `Process` loop, post | thread pool, HTTP server | a run that ends while a trace is enqueued; posts that fail after they were stored; retry counters; settings changed at run time |
| `SmtpWorkerPoolC` (EmailTraceListener; the default) | queue, list of active clients | BeginSend, ProcessQueue, SendCompleted, exit handler | SMTP server, `SmtpWorkerAsyncResult` | completions against BeginSend; exceptions from SendAsync and Complete; process exit |
| `SmtpWorkerPoolB` | queue, workers with `isIdle` | BeginSend, worker thread, exit handler | the same | `isIdle` read under the wrong lock; idle timeout against a new mail |
| `SmtpWorkerAsyncResult` | completed state, exception, event | Complete, AsyncWaitHandle, End, Dispose | pool thread, owner of the mail | lock-free hand-over between three parties |
| `BufferedEmailTraceListener` | message buffer, subject, header | WriteTrace, Send, Clear, exit handler | a mail pool | subject and header are written outside the lock; Send replaces the buffer |
| `EmailTraceListener` | flood counter and window | WriteTrace | a mail pool | time stamps older than the lock; a limit changed at run time |
| `RollingTextWriter` (RollingFile, RollingXml) | current path and writer | WriteLine, Flush, Dispose | the file system, other processes | paths computed outside the lock; shared file names; failing opens and closes; crashes |
| `InMemoryTraceListener` | ring of traces | WriteTrace, Clear, GetEvents | test code that reads it | the index at the end of the ring |
| `StringTemplate` (Core) | none | Format | every formatter | a hand-written scanner with an index one ahead |
| `StructuredData`, `OrderedDictionary` (Core) | lazily built properties and text | Add, reads, ToString | Seq and text formatters; flows to other threads | lazy fields written without a lock |
| `ActivityScope`, `LogicalOperationScope`, `StructuredDataScope` | ActivityId and the operation stack of the execution context | constructor, Dispose | every listener | a listener that throws halfway; contexts that share one stack object |
| `ColoredConsoleTraceListener` | the colour of the console, a static lock | WriteTrace, Write | the console; every other console listener | exceptions after the colour was set; a footer that traces |
| `StructuredPropertyFormatter`, `SeqPayloadFormatter`, the escaping of `RollingXmlTraceListener` | none | Format | the listeners | values that hold one another; escapes at the ends of a text |
| `SeqTraceListener`, `TraceData` | what was recorded of a trace | WriteTrace | `SeqBatchSender`; another thread writes the payload later | names that meet; objects that change in between |
| `TraceConfigurationMonitor` (Core) | a file watcher | Changed | .NET's trace configuration | overlapping events, a file still being written |
| `TraceListenerBase` (Core) | none | all Trace and Write methods | the filter and WriteTrace | which arguments reach which overload |
| `TraceFormatter` (Core) | none | Format | the text listeners | nothing: it looks up names |
| `SqlDatabaseTraceListener` | none | WriteTrace | a database | truncation of the message |
| `TraceLog`, `AssemblyTraceSource`, `StructuredTrace`, extensions | none | overloads | a `TraceSource` | nothing: they pass arguments on |
| `RegSql`, legacy packages, packaging, performance, tests, examples | | | | not part of the run-time library |

What makes the parts correct:

- **SeqBatchSender**: at most one run of `Process`, and one whenever something is
  queued; every accepted trace settled once and in order, however posts fail; a
  poison batch dropped after `MaxRetries`; the thread given back.
- **Mail pools**: each mail started once, in order, at most `maxConnections` at a
  time; no mail left in the queue without somebody who will come for it; an exit
  handler that reports an empty pool only if it is empty.
- **Mail result**: one callback, no lost wake-up; End comes back, and not before a completion.
- **Mail listeners**: every buffered trace in exactly one mail, and an exit handler that waits
  for the mail it sends and with it for all before; a bounded number
  of mails per hour, and no trace suppressed without a flood.
- **Rolling files**: a trace once, in a file of its period, whatever fails; what
  was flushed survives a crash.
- **In-memory ring**: GetEvents returns the last traces.
- **Core**: a template is read as its grammar says; structured data has the
  properties that the order of its layers gives, whoever reads first; a changed configuration is loaded.
- **Scopes**: a flow sees the activity and the operations of its own scopes, whatever
  failed inside them and whatever runs beside it.
- **Console**: lines are whole, in their colour, and leave the console in its own.
- **Formatters**: nested values stop; what was escaped reads back as it was; a
  payload has each name once, with the value of who gives it, as it was traced.

## Modules

| Module | Models | Notes |
|---|---|---|
| `SeqBatchSender` | `SeqBatchSender.cs`, the settings and WriteTrace of `SeqTraceListener.cs` | one action per critical section, wait or post |
| `SeqDelivery` | what the sender promises: a line of messages of which only a prefix leaves | abstract; implemented by `SeqBatchSender` |
| `SmtpWorkerPoolC`, `SmtpWorkerPoolB` | the two pools | one action per critical section or call of `SmtpClient` |
| `MailPool` | what a pool promises | abstract; implemented by both pools and instantiated by `BufferedEmailTraceListener` |
| `SmtpWorkerAsyncResult` | the result, at the grain of single reads, writes and interlocked operations | |
| `BufferedEmailTraceListener` | the buffering listener on top of `MailPool` | |
| `Traces` | the traces that listeners are given | shared by the mail listeners and the rolling files |
| `EmailTraceListener` | the flood limit of the unbuffered listener | the mail itself goes to a pool |
| `RollingTextWriter` | the writer, in several processes on the same names | also what RollingXml writes through |
| `InMemoryTraceListener` | the ring | |
| `StringTemplate` | the scanner of `Format`, loop by loop | the grammar is stated beside it |
| `StructuredData` | `EnsureAllProperties`, `EnsureToString`, `Add` and `OrderedDictionary`'s setter | any number of threads may read first |
| `Scopes` | the three scopes, in async calls whose execution context is copied on write | also `BeginScope` of `StructuredTrace` |
| `ColoredConsoleTraceListener` | the lock, the colours, a line with its footer | calls of one thread may be inside one another |
| `PropertyWriters` | the recursion of both formatters over nested values | a behaviour is a walk down the calls |
| `Escaping` | `Escape` and the two `AppendEscaped`, character by character | what they write is read back beside it |
| `SeqTraceData` | `WriteTraceFormat` to `TraceData`, and `ToJson` later | names are sequences, so that sanitizing can make two equal |
| `TraceConfigurationMonitor` | the watcher and the handlers of its events | |
| `MCListeners`, `MCCore` | checks of parts that share no state: a variable `which` chooses the part a behaviour belongs to; the others stay in an initial state | |
| `BasicLemmas` | induction over numbers, functions defined by recursion, sequences and their sets | what the other proofs share |
| `SmtpWorkerPoolC_proofs`, `SmtpWorkerPoolB_proofs` | theorems about the module of that name | |
| `Templates_proofs` | theorems about `StringTemplate` and `StructuredData` | |
| `SeqTraceListener_proofs` | theorems about `SeqBatchSender`, `SeqTraceData` and `Escaping` | |
| `Mail_proofs` | theorems about `EmailTraceListener`, `BufferedEmailTraceListener` and `SmtpWorkerAsyncResult` | |
| `LocalListeners_proofs` | theorems about `InMemoryTraceListener`, `ColoredConsoleTraceListener` and `RollingTextWriter` | |
| `CoreServices_proofs` | theorems about `PropertyWriters`, `TraceConfigurationMonitor` and `Scopes` | |

State and actions keep the names of the source: `queue`, `isProcessing` and
`sendTrigger` are the fields, `EnqueueTraceData`, `Process` or
`EnsureCurrentWriter` become the actions or groups of actions named after them
or after their branches (`TakeBatch`, `Finish`, `PostFailsRetry`; `KeepWriter`,
`CloseWriter`, `Open`, `Busy`). A critical section is one action; code outside
locks is split where another thread could see the difference. Variables marked
"history" in a module record what happened and are read by properties and proofs only (`window` and
`nth` of a call in `EmailTraceListener` say in which window of the flood limit it passed, and as which).
`PROJECT.json` gives the source lines of every definition.

Operators named `X_Something` and commented "Mutant" are altered copies of `X`
that no specification uses: with one of them in the place of `X`, the property
paired with it in `PROJECT.json` fails.

## Runs

| Run | Checks | Shows |
|---|---|---|
| `seq` | SingleWorker, NoStrandedMessage, FirstMessageImmediate, AttemptsBounded, ImplementsDelivery, EventuallySettled, EventuallyIdle | for three messages, a queue of two, two thread-pool threads, one retry and BatchSize switched among 0, 1 and 2 at any time, the sender implements the line of `SeqDelivery`; every accepted message is settled and the thread given back, unless BatchSize becomes 0 |
| `seq_poison` (violation) | AttemptsBounded | with BatchTimeout zero a failing batch is retried for ever |
| `pool_c` | StrandedOnlyByFault, DrainedMeansDone, ImplementsMailPool, EventuallyCompleted | four mails, three clients, two connections; the constructor, SendAsync and Complete may throw |
| `pool_c_leak` (violation) | NoStrandedMail | a throwing SendAsync leaves a client in the list that will never look into the queue |
| `pool_b` | StrandedOnlyByFault, ImplementsMailPool, EventuallyCompleted, EventuallyNoThread | three mails, three threads, two connections; the constructor and Complete may throw in a worker |
| `result` | NoLostWakeup, CallbackOnce, EndAfterCompletion, EndTerminates | two racing Completes, one waiter and one End, with and without the Dispose of pool C |
| `result_end_reports_error` (violation) | EndReportsError | End may return normally for a mail that failed |
| `listeners` | MailedOnce, ExitAwaitsMails, FloodBounded, DroppedOnlyInFlood, FiledOnce, RightFile, FlushedSurvives, RefusedOnlyIfClosed | buffered mail: three traces, one Send besides the exit handler, a pool with one connection whose mails may fail. Flood limit: three traces, limits 0 to 2, an hour of two ticks, traces delayed by up to one. Rolling files: three traces by two processes over two periods, with two names per path |
| `email_header` (violation) | HeaderOfFirst | a mail can carry no header, or the header of a trace that is in another mail |
| `core` | GetsLastTraces, FormatsAsWritten, PropertiesByPrecedence, StackPreservedUnlessEarly, ActivityOfInnermost, TracedInside, ColourIsReset, LinesWholeAndColoured, NestingBounded, ReadsBack, PayloadAsTraced, RecordedWhenTraced, ChangesAreLoaded | the parts that are small: the ring, templates, structured data, scopes, the console, nested values, escapes, payloads and the configuration monitor |
| `scope_async` (violation) | StackPreserved | a StructuredDataScope begun before the first await pushes onto the stack of its caller |
| `recursive_should_stop` (violation) | RecursiveShouldStop | structured data inside itself: its ToString calls itself without end |

The comment above each property says what it means and which code it is about. The
operators TypeOK (ConsoleTypeOK, MemTypeOK ...) document the variables; those of the modules
with theorems are part of the invariants proved.

### Bounds, and why they are enough

- *Sender.* Three messages and a queue of two reach a full queue, a batch that is
  not the whole queue, and a message enqueued while an earlier batch is retried.
  Two workers are enough for a second run to begin beside, or after, a first.
  One retry tells "the last" from "one too many", and a batch that was retried from one
  that was not; `seq_poison` needs two, and PoisonBatchIsDropped is proved for all.
- *Pools.* One mail more than the queue needs to hold while every connection is
  busy, and one client or thread more than `MaxConnections`, so that exceeding
  the limit is possible. `MaxExitChecks` bounds the polls of the exit handler;
  every later poll finds what an earlier one could.
- *Result.* The getters race in pairs; the third party is the End.
- *Buffered mail.* With three traces a Send and the exit take different parts of
  the buffer while a third trace is between its append and its header. The VIEW `MCView`
  makes one of two states that differ only in a mail being sent or failed, or in subject
  and header: no guard and no property of `listeners` tells them apart (`email_header` has no
  view).
- *Flood limit.* Five ticks hold two windows and part of a third; three traces exceed the largest
  limit of two.
- *Rolling files.* `MaxStreamRetries` is 2 where the code has 5: the loop treats
  all names but the last alike. Two periods let a late trace roll back and
  the next one forward again. Traces and processes are symmetric, and TLC uses that.
- *Ring.* Eight traces go round the largest ring more than twice.
- *Scopes.* Three flows and three scopes: a caller, a method it calls and one that runs
  beside that, and a scope that fails inside one inside another.
- *Console.* Two threads and three calls, two of them inside one another: a footer that
  traces while another thread waits.
- *Values.* Three values that may hold one another and an object, 384 graphs, walks of
  depth 6, which pass both limits of three; longer cycles are covered by the theorems.
- *Escapes.* Texts of up to four characters: an escaped one at each end, two side by side
  and one between others.
- *Payloads.* Six items, of which up to two are operations on the stack, with the names
  of the payload, names that sanitize to the same one and values that change later.
- *Configuration.* Two handlers and three saves: an event handled while another waits, and
  one more save than handlers.
- *Templates.* Four characters hold every pair of neighbours with one on either
  side; texts that begin with `{a` or `{a,` bring every part of an item, and an
  end of the text, at every place.

The runs other than `seq` switch deadlock checking off, because the system may stop: the
application writes no more traces. In `seq` the settings can always change.

### Fairness

- *Sender:* a thread that entered Enqueue goes on, and a run of Process keeps
  taking steps: WaitOne has a timeout, Sleep ends, and an HTTP request has a
  timeout of its own. Nobody is obliged to write. Liveness is claimed unless
  BatchSize becomes 0 (for the thread: again and again): with 0 each pass of the loop
  takes an empty batch, and a queue filled before the change is never drained.
- *Pool C:* weak fairness of each client. `SendAsync` has no timeout, so this
  assumes that the server answers or the connection breaks.
- *Pool B:* weak fairness of each thread, strong fairness of the idle timeout: the
  stopwatch runs on while the worker polls the queue.
- *Result:* each thread goes on, once its operation was called.

## What is proved

`SeqBatchSender` (in `SeqTraceListener_proofs`), for any sets of messages and threads and any natural
settings (`SenderAssumption`):

- `TypeCorrect`: the type invariant, with the queue within MaxQueueSize and
  retry counts within MaxRetries. The bound on the queue needs the size test of
  `Admit`; the bound on the count needs the test of `RetriesExhausted`.
- `OneRun`, `NothingStranded`, `FirstIsImmediate`: `SingleWorker`,
  `NoStrandedMessage` and `FirstMessageImmediate` are not inductive one by one (a
  run ends only if the queue is empty, the queue is filled only while a run exists
  or with a run that begins, and the event can be used up only by a run that is
  not the new one because there is one run). `RunInv` is their conjunction, and
  inductive: the lemma `ProcessSteps` says what every step of Process leaves of
  it, and the enqueue and the end of a run, the two steps that create and end
  runs, are treated on their own.
- `PoisonBatchIsDropped`: for a positive BatchTimeout, attempts stay within
  MaxRetries, and a batch is given up only after as many, unless an empty batch
  (BatchSize 0) has used up some. `RetryInv` says that the attempts never exceed
  `retryCount`, that none was made while `retryTimeout` is zero, and that they equal
  `retryCount` while no batch was empty: the branch that sets `retryCount` to
  1 is then taken for a first failure only, since doubling a positive delay never
  gives zero.
- `SenderIsDelivery`: the sender implements `SeqDelivery`. With one run (`SingleWorker`)
  `Held` is the batch of that run followed by the queue (lemma `HeldFact`); `BatchInv`
  says that a run holds no batch before TakeBatch or after the last post, so that taking
  one only moves it within `Held`. Every step is then one of the line, or leaves line, server
  and fates alone (lemmas `OfferStep` to `RetryStep`, `UnseenStep`).

`InMemoryTraceListener` (in `LocalListeners_proofs`), for any set of buffer sizes:

- `MemTypeCorrect`: the index stays within the buffer.
- `RingCorrect`: `RingHoldsLog`, the strengthening: while fewer traces than places
  are recorded the ring holds the log from its first place, afterwards the places
  before `_current` hold the latest traces and the others the ones before them.
  Both cases are linear in the index, so no modulus appears in the proof.
- `LastTracesCorrect`: GetEvents returns the last traces recorded. It follows from
  the strengthening place by place; the lemma `AllRecorded` shows that GetEvents
  skips nothing once the ring is full.

`SmtpWorkerPoolC_proofs` and `SmtpWorkerPoolB_proofs`, for any mails, any limit, any
clients and any finite set of threads:

- `PoolCIsAMailPool`, `PoolBIsAMailPool`: each pool implements `MailPool`. The
  invariant `PoolInv` says that the queue holds exactly the mails in state "queued",
  each once (QueueInv), that exactly one client or worker carries each mail in state
  "sending" (CarryInv), and that the list holds the clients or workers that exist, at
  most `MaxConnections` (ListInv). CarryInv turns the limit on the list into the limit
  on the mails in progress: what is being sent is no more than what carries it.
- `NoneStranded`, `NoneStrandedB`: StrandedOnlyByFault, and `DrainedIsDone`,
  `DrainedIsDoneB`: DrainedMeansDone, both if `MaxConnections` is positive (with zero no
  mail is ever taken). `Attended` is the strengthening: while a mail waits the
  list is not empty, since a client or worker leaves it in the critical section that
  saw the queue empty. What `isIdle` says plays no part in it for pool B, so that its
  being stale does no harm.

`SmtpWorkerAsyncResult` (in `Mail_proofs`), for any number of threads that complete a result and of
threads that ask for its event:

- `OneCallback`: CallbackOnce, from `OneCompletes`: at most one Complete is between the
  exchange it won and its callback, and none was called before.
- `WakeupNotLost`: NoLostWakeup is inductive with `HandleInstalled` (the getter whose
  event is in the field is past its CompareExchange) and `CreatedAsCompleted` (a getter
  that saw the result completed before it made its event made it set).
- `EndIsAfterCompletion`: EndAfterCompletion, from `EndFacts`: whoever sets an event knows of
  the completion (`Known`), the event in the field is closed by Dispose or End only, after it
  (`FieldEvent`), and End waits on the event that is in the field (`EndWaits`).

`ColoredConsoleTraceListener` (in `LocalListeners_proofs`), for any threads, listeners and
settings, if `NoThread` is not a thread:

- `OneWriter`: only the holder of the console lock is inside a call.
- `ColourReset`: ColourIsReset speaks of the console when nobody writes; the
  strengthening `ColourExplained` says what its colour is meanwhile: the console's own,
  unless a call threw or one that sets a colour is under way.

- `LinesAreWhole`: LinesWholeAndColoured. `LinesInv` adds what a call relies on between two
  pieces of its line: its number is not yet on the screen or only its own thread wrote since
  (OwnSince), only its innermost call may be one that was not entered again (EnteredOnce),
  and while such a call writes, the console has its colour (InColour). A footer that traces marks
  the calls around it as entered, after which they promise no colour.

`PropertyWriters` (in `CoreServices_proofs`), for any values:

- `WritersNestBounded`: the calls of a payload, each with another value, come first;
  every other call knows from its two counters (`Counted`) how far it is from the
  ToString it serves.

`TraceConfigurationMonitor` (in `CoreServices_proofs`), for any number of handlers and saves:

- `Reloaded`: ChangesAreLoaded says nothing while a handler runs; `Outdated` says that
  an old configuration then has a handler that has yet to read the file, an event that
  waits, or an excuse.

`Scopes` (in `CoreServices_proofs`), for any flows and any number of scopes (ScopesAssumption:
the root is a flow and `NoFlow` is none):

- `StacksAreKept`, `ActivityIsInnermost`, `EventsTracedInside`: StackPreservedUnlessEarly,
  ActivityOfInnermost and TracedInside, from the one invariant `ScopesInv`. Flows that share a
  stack object are the difficulty: a pop by one takes the top that another would see. `Chained` says
  that some relation orders the flows of one thread, each before those it called, so that
  whoever runs shares a copy only with flows that wait for it, and that their scopes are older
  than its own. `Stacks` says that numbers rise on a stack and that the operations of open
  scopes are on it. With both, a pop takes nothing that a waiting flow still needs. `Kept` says what
  holds until a StructuredDataScope is begun early: a flow that has scopes owns its copy.
  `Activities` says of every open scope that the activity it will go back to is that of the
  scopes around it.

`RollingTextWriter` (in `LocalListeners_proofs`), for any finite set of traces, any processes, periods and number of
numbered names (TraceAssumption, RollingAssumption):

- `TracesFiledOnce`, `TracesInRightFile`, `FlushedTracesSurvive`, `OnlyClosedRefuses`: FiledOnce,
  RightFile, FlushedSurvives and RefusedOnlyIfClosed, from `RollingInv`. FiledOnce counts copies,
  and says nothing of a call between two of its steps. `Filed` says in which file or buffer a trace
  is, for which period and by which process; `OneCopy` that none has it twice; `LockHeld` what a
  call under the lock finds when it goes on: no writer after it closed the old one, and its own
  path once it opened a new one. Dispose does not take the lock, but leaves the path alone, so
  that a writer it closed refuses the trace and does not misfile it.

`EmailTraceListener` and `BufferedEmailTraceListener` (in `Mail_proofs`), for any finite set of traces:

- `MailsAreBounded`, `DropsOnlyInFlood`: FloodBounded and DroppedOnlyInFlood, for any limits with a
  largest, any hour and any delay between the stamp of a trace and the lock (FloodAssumption).
  `FloodInv` numbers the traces that pass in a window (`WindowCounted`, `NumberedOnce`), so that
  they can be counted; `WindowsApart` says that windows do not overlap. A stretch of an hour,
  less the longest delay, meets at most two windows, and if it meets two it misses the trace
  that opened the earlier one: its traces are mapped one to one to the numbers below twice
  the limit.
- `TracesMailedOnce`, `ExitAwaits`: MailedOnce and ExitAwaitsMails, for any senders, any positive
  number of connections, and mails that may fail (BufferAssumption). `BufferedInv` says where
  each trace is, in one place only (`Placed`); that what was taken, and the buffer, are
  stretches of what was written, the buffer its end (`Contiguous`); that a sender holds what it
  took until its mail is built (`TakenToBuild`); and that the mails that wait in the pool are
  the queued ones in ascending order (`Queued`). ExitAwaitsMails follows: the exit handler is
  over only when its own mail has ended (`ExitEnded`), the pool starts mails in the order
  in which they were handed over, so that none before is still queued, and by
  `Contiguous` what is left in the buffer was written after what that mail took.

`StructuredData` (in `Templates_proofs`), for any threads, and any base properties,
templates, values and exceptions of which the pairs given to the constructor have their keys
once (DataAssumption):

- `ReadsByPrecedence`: PropertiesByPrecedence, which speaks of an object that was read, from
  `DataInv`, which says how far every reader is. `Layered(d, n)` describes the dictionary of a reader
  that has set n values: a pair per value, unless a later one has its key, and what is left of
  the base in the base's order. First readers share the list of keys: `KeysAreNames` says
  that what the ToString of one adds to it comes after the names of the template. With no more values
  than names nobody reads that far. With more, a reader in the midst of its values may, which
  the history variable `shifted` records; until then it has `Counted` its values off rightly. From
  then on `Loose(d, n)` is left: a wrong key is the template's or that of an extra value, and so is
  the one it stands for, so that the pairs of all other keys are what they were.

`StringTemplate` (in `Templates_proofs`), for templates of any length and any names a template can
hold (TemplateAssumption; the classes of characters have a few members each):

- `FormatIsAsWritten`: FormatsAsWritten. `From[n]` are the readings the grammar has from the n-th
  character on, and `AheadIs(n, b)` says that what was written, followed by each of them, is what there
  is to read: so at the end the output is the one reading, and a brace that stands alone leaves none.
  Inside an item the invariant `TemplateInv` says for every closing brace that is ahead how the
  rest of the item must read (`InItem`). That the scanner never goes back is the core of it: a part
  of an item and the blanks after it end at the first character that belongs to neither,
  and the grammar has no other place to end them (`PartsAreRead`).

`SeqTraceData` (in `SeqTraceListener_proofs`), for any calls, stacks and items, the
properties of an item being pairs of a name and a kind of value (TraceDataAssumption):

- `PayloadIsAsTraced`, `PayloadIsAsRecorded`: PayloadAsTraced and RecordedWhenTraced. A dictionary
  that is filled by assignments is described by who gave each name its value: `WonBy(d, winner)`
  says that d has a name once, has those that `winner` knows, and from whom. The lemma
  `AssignAllFacts` says how a loop of assignments changes the winner, `AddOperationsFacts` iterates that
  over the stack, and `WriteFacts` follows what the payload skips and renames.

`Escaping` (in `SeqTraceListener_proofs`), for texts of any length:

- `WhatIsWrittenReadsBack`: ReadsBack, for all three writers. `EscapingInv` says that the output
  is the code of the text before the clean segment, character by character. The rest is about
  the tables only: each escape begins with a character that is itself replaced, and its second
  character tells which it is (`EscapesApart`), so that a reader finds the escapes where they were
  written, and no others.

Proofs about loops and recursive functions need induction, and the induction theorems of the
library take an operator as a parameter. `BasicLemmas` states induction over sets in its place:
`LeastNat` (a set of numbers has a least member) follows from the well-foundedness of <, and
`NatInd`, `UptoInd` and `DownInd` from it: a fact holds of every number if the set of those that it
holds of has 0 and with n also n + 1. `Iterates` and `Recursion` show that the functions exist that
recursive definitions choose.

The assumptions on constants are in the modules that declare them, and TLC evaluates them in
the runs of the modules that extend those.

Model-checked only is liveness, which is under fairness and out of the prover's reach:
EventuallySettled, EventuallyIdle, EventuallyCompleted, EventuallyNoThread, EndTerminates.

## Where code and documentation differ

Shown by the violation runs:

- `SeqBatchSender.cs:201`: "exceeded, the batch is dropped" does not hold with
  BatchTimeout zero (`seq_poison`).
- `SmtpWorkerPoolC.cs:191`: queue and client list get out of step after an
  exception of SendAsync (`pool_c_leak`).
- `SmtpWorkerAsyncResult.cs:124`: the state is published before the exception
  (`result_end_reports_error`).
- `BufferedEmailTraceListener.cs:344`: subject and header are not always those of
  the first trace (`email_header`).
- `StructuredDataScope.cs:20`: the context is not touched before the push, as
  `LogicalOperationScope.cs:119` does for async code (`scope_async`).
- `StructuredPropertyFormatter.cs:270`: structured data inside itself has no end, although
  the tests ask that recursion stop (`recursive_should_stop`).

Met while modelling, and part of the models where they concern state:

- A wait of the sender that ends in a full batch has used up the event: a second
  full batch waits for BatchTimeout, although the comment at `SeqBatchSender.cs:64`
  suggests otherwise.
- Pool B counts a worker whose thread ended by an exception for ever
  (`SmtpWorkerPoolB.cs:262`); StrandedOnlyByFault and EventuallyNoThread make the
  exception explicit.
- A Complete that meets an event which End has closed throws in the pool's thread: pool C
  then never continues the client (`SmtpWorkerPoolC.cs:151`; the model assumes a host that
  survives the exception), pool B ends the worker (`SmtpWorkerPoolB.cs:249`). Both are
  CompleteThrows of the pools.
- At process exit `BufferedEmailTraceListener` calls End (`BufferedEmailTraceListener.cs:446`)
  beside pool C, which disposes of the result it waits for (`SmtpWorkerPoolC.cs:152`): End may
  throw for a mail that was sent, and return normally for one that failed
  (`result_end_reports_error`). EndSend of the listener therefore says only that End came back
  after the mail was through, and ExitAwaitsMails says no more of it.
- The flood limit "per hour" is one per window; an hour that straddles two windows
  may see nearly twice as many, which is the bound FloodBounded states.
- `fromAddress` is missing from the supported attributes of both mail listeners.
- A null data item makes `InMemoryTraceListener.WriteTrace` throw
  (`InMemoryTraceListener.cs:129`).
- After a failing close, `RollingTextWriter` refuses traces until their path
  changes; a write after Dispose for another path opens a file that nobody closes;
  text that was never flushed is gone when the process ends.
- `StructuredData` with more template values than items, first read by two threads
  at once: ToString of one adds `MessageTemplate` to the list of keys that the
  other counts its values off against, which then stores an extra value as
  `MessageTemplate`, where the template overwrites it, and numbers the others too low. The value
  is lost although the remarks (`StructuredData.cs:92`) promise it as `Extra1`. The model has these
  behaviours, and PropertiesByPrecedence excuses them where `shifted` is true and for those keys
  only; without the excuse TLC shows the trace.
- The remarks of the constructor (`StructuredData.cs:87`) say that the exception overrides the
  properties and that template values are "then added", "overriding any existing value". The code sets
  the template and the exception last, and its comments say so ("will overwrite template
  values", lines 333 and 338): an item named `Exception` or `MessageTemplate` loses its value.
  PropertiesByPrecedence states the code's order.
- `SeqTraceListener.cs:473` adds the recorded operations under `LogicalOperationStack`; an
  operation that has a property of that name makes Add throw.
- `SeqTraceListener.cs:492` and `StructuredPropertyFormatter.cs:74` read every property of an
  object whose name begins with `@`; one with an indexer (a string, a list, a dictionary)
  makes GetValue throw.
- `SeqTraceListener.cs:462` keeps a property of an operation as the object it is, and a
  recorded value that is a collection stays the collection: what is sent is what they have become
  when the worker formats them. RecordedWhenTraced promises a copy for the other values only.
- `TraceConfigurationMonitor.cs:120` gives a change up after three failed attempts; the settings
  stay the old ones until the file changes again. ChangesAreLoaded says so.
- The remarks at `ColoredConsoleTraceListener.cs:62` give DarkRed as the default colour of errors,
  the table at line 130 has Red. LinesWholeAndColoured is about when a colour is set and reset,
  with the colours of the table.
- `SeqPayloadFormatter.cs:192` writes the "First (if any) Exception"; `SeqTraceListener.cs:521`
  keeps the last.
- An outer operation's property replaces that of an inner one.
- Keys of nested dictionaries are not escaped (`SeqPayloadFormatter.cs:313`).
- With `convertWriteToEvent` false the console and rolling listeners write nothing of the
  objects of Write, where `docs/reference/ColoredConsoleTraceListener.md:29` promises them.
- The configuration monitor misses a file that is replaced by renaming another, and one that
  is closed late: nothing raises Changed for either. ChangesAreLoaded excludes both.
- `SqlDatabaseTraceListener.cs:154`: "a value of zero (0) can be used to remove the message
  limit length"; line 257 takes the substring of length -3 then, and throws.

## What is left out

- The JavaScript in the repository (`examples/HelloMvc3/Scripts`: jQuery and others) is
  third-party code that an example ships. The library is written in C#, and nothing of its
  own is in JavaScript.
- In the parts that are modelled: a BatchTimeout that is infinite, and times beyond
  32 bits of milliseconds (`Thread.Sleep` throws for them); Dispose of the pools,
  which the library never calls; `maxConnections` below 1; the FileSystem
  setter of the rolling writer; a StreamWriter torn by a Dispose that runs inside
  another call (each call on it is one step); the text of lines, mails and
  payloads beyond names and escapes; widths of template items beyond 32 bits; the
  read-only views of `StructuredData`, its list of keys torn by two Adds at once, or replaced
  between a look at its length and one at its element (which needs `shifted`); `UseErrorStream`
  changed while a console listener writes; AdditionalProperties set while traces are recorded;
  levels and times of a payload.
- EndTerminates excludes a result that the pool disposes of while a second
  thread waits on it.
- Of the parts not modelled, `PROJECT.json` says why: overloads without state, text
  layout, or adapters of other libraries.

## Plan

1. `TraceListenerBase` as a table from calls to WriteTrace, with the filter; the
   overloads of `TraceLog` and `StructuredTrace` above it.
2. A composition of `EmailTraceListener` with `MailPool` in place of its abstraction.
3. AdditionalProperties of `SeqTraceListener` changed at run time, beside the recording.
4. The truncation of `SqlDatabaseTraceListener`.

New parts join an existing run through `which`, so that the number of runs stays
small; a run of its own is for a question of its own.

Theorems to come: those of the new parts above, and lemmas for `EmailTraceListener` composed with
`MailPool` (the mails of a flood are each started once).
