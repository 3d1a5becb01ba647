# Neptunus in TLA+

This directory is a verification development for neptunus, a data processor
that runs *pipelines*: inputs, filters, processors and outputs connected by Go
channels.  It has TLA+ modules translated from the Go code, TLC runs that
check them on small instances, and theorems that TLAPS proves for every value
of the constants.  `PROJECT.json` lists the runs, the theorems, the source
lines each definition stands for, and the hazards the properties are for.

    tlc -workers 2 -config service_start_stop.cfg MCPipelineService.tla
    tlapm PipelineServiceProofs.tla

## The system

| Part | State | Operations | What is hard |
|---|---|---|---|
| pipeline service (`pipeline/service`) | a map from id to (pipeline object, cancel function, mutex); goroutines of running pipelines | start, stop, add, update, delete; start all at boot, stop all at exit | entries are loaded, waited for and loaded again while other calls replace them |
| pipeline object (`pipeline/pipeline.go`) | life-cycle state, plugins, one use per object | Build, Run, Close, State | the state is read by other goroutines without a lock; a build that fails half-way |
| storage (`pipeline/storage`) | configurations; lock rows (PostgreSQL only) | get, list, add, update, delete, acquire, release | edits of locked configurations, lock rows left by a dead process |
| data plane (`core`, `core/unit`, fan-in, fan-out, mixer) | channels, goroutines, a tracker for each event and its copies | produce, filter, process, clone, drop, fan out, report done; a cascade that closes channels | many goroutines per plugin; when a channel may be closed; when the hooks of an event run |
| inputs (`plugins/inputs`) | the position in a broker, messages that wait for their events | fetch, hand over, acknowledge, stop | acknowledgement after delivery, rebalances and reconnections, stopping while events are on their way |
| outputs (`plugins/outputs`, pool, batcher, retryer) | a writer for each key, a batch in each writer | push, flush, retry, fall back, remove idle writers, close | partial failures of a batch, order under removal |
| gRPC server output (`plugins/outputs/grpc`) | a router with a mutex, a publisher for each procedure, streams | push, subscribe, publish, unsubscribe, close | streams that come and go while events are published and the output stops |
| processors, filters, codecs | caches shared between the lines of a pipeline, clients shared in the process | init, process one event, flush at intervals, close | barriers and reference counts across lines and pipelines |
| lookups, key keepers | a table replaced at intervals | get, update | replaced as a whole under a lock |
| REST gateway, configuration, CLI, metrics, parsers, serializers | none that outlives a call | translate requests, decode, encode | nothing over time |

A REST call or the boot code calls the **service**.  The service reads the
configuration from the **storage**, creates a **pipeline object**, builds it,
takes the storage lock and runs it in a goroutine with a cancellable context.
`Pipeline.Run` wires the plugins with **units** and fan-ins: every plugin runs
in goroutines that are connected by channels only.  An event carries a
**tracker** shared with its copies; when the last copy has been reported done
its hooks run, and by the hook the **input** that produced it tells its broker
that the message is done.  A stop cancels the context, each input stops, its
unit closes the channel behind it, and the closing travels down to the outputs.
Four contracts stand at these seams, and each has a module of its own:

- `PipelineContract`: what the service promises about the objects of a pipeline;
- `DeliveryContract`: what the data plane promises to an input about its events;
- `SourceContract`: what an input promises to its broker about messages;
- `SinkContract`: what an output promises to the unit in front of it about events.

## Modules

| Module | Models | Implements |
|---|---|---|
| `PipelineService` | `pipeline/service/internal.go`, the life cycle of `pipeline.go`, both storages, `cmd/neptunus/run.go` | `PipelineContract` |
| `EventFlow` | `pipeline.go` (wiring, stop), `core/unit/soft.go`, `core/tracker.go`, `core/event.go`, fan-in, fan-out, mixer, batcher | `DeliveryContract` |
| `KafkaCommit` | `plugins/inputs/kafka` | `SourceContract` |
| `RabbitInput` | `plugins/inputs/rabbitmq` | `SourceContract` |
| `Inputs` | `plugins/inputs/http`, `httpl`, `grpc`, `beats`, `sql`, `cronjob` | `SourceContract` |
| `Processors` | `plugins/processors`: Run of the 22 that handle one event at a time | |
| `Ingest` | `Inputs` with a processor of `Processors` behind it | `SourceContract` |
| `Outputs` | `plugins/outputs/kafka`, `elasticsearch`, `opensearch`, `http`, `sql`, `rabbitmq`, `grpc` (client), `promremote`, `exec`, `log`; `plugins/common/pool`, `batcher`, `retryer` | `SinkContract` |
| `GrpcRouter` | `plugins/outputs/grpc` (server) | |
| `SharedStorage` | `plugins/common/sharedstorage`, `processors/stats/cache.go`, `processors/dynamic_template/cache.go`, as values | |
| `PipelinePlan` | `pipeline.go`: what Build makes in which order, and what Close closes | |
| `SharedPlugins` | Build, Run and Close of several pipelines over the two modules above; deduplicate, redis, stats, dynamic_template, zstd | |
| `MC...` | model values, configurations and symmetry for TLC | |
| `...Proofs` | theorems and their proofs | |

### PipelineService

`pipes` is the registry: for an id, the object, the cancel function (the object
whose context it cancels, or none) and the mutex of the entry.  `obj` holds the
state of every pipeline object, with the configuration it was built from and
whether its context is cancelled.  `stored` and `lockRows` are the storage.
A call is a process with a program counter and the entry it loaded last.
Each action is the code between two points where another goroutine can come in:
`StartLoad` is the `LoadOrStore`, `StartCheck` the first look at the state,
`StartLock` the wait for the mutex and the second load, `StartRecheck`,
`BuildBegin`, `Acquire`, `WithCancel` and `Launch` follow `startPipeline` line
by line, and so on for `Stop...`, `Add...`, `Edit...` (update and delete).
`RunStarting` to `RunClosed` are the goroutine of a pipeline; `Boot`, `Shutdown`,
`Drained`, `Exit` and `Crash` are the process.  After a crash only the storage
is left.  Which failures may happen (build, acquire, release, crash, ...) and
which operations clients call are constants, so that each run asks one question.

What makes it correct: two objects of one pipeline never run together
(`OneRunner`); a running pipeline can be cancelled through the registry
(`Cancellable`); a locked configuration is not edited (`LockedNotEdited`); an object
is run once (`LaunchedOnce`); lock rows and running pipelines go together
(`LocksFollowRuns`); what runs is what is stored (`RunsStoredConfig`, a theorem about
one client); calls return and a shutdown completes (`CallsReturn`, `ShutdownCompletes`).

### EventFlow

The goroutines and channels are those that `Pipeline.Run` and the units start
and make, computed from the wiring (`Inputs`, `Lines`, `Stages`, `Outs`, which
units have filters, where the mixer is): `Source`, `Sinks` and `Closers` give for
a goroutine what it reads and sends on, and for a channel the goroutines that
have ended when it is closed.  A copy of an event is a token that is in one
channel or in the hands of one goroutine.  `duty` is the counter of an event's
tracker, `Copied` and `HookDue` are `Copy` and `Decreace`.  The order in a
channel is not represented: the code promises none.  A mixer is modelled with
its lock, its snapshot of the outgoing channels and its removal.  An output
holds up to `Batch` copies before it reports them done; `Ready` is the ticker.

What makes it correct: the counter is the number of copies (`DutyIsCopies`), the
hooks run exactly when the last copy is gone, and a stopped pipeline holds no
event (`DeliverySpec`); nobody sends on a closed channel, which would panic
(`NoSendOnClosed`); every event is acknowledged in the end and a stop ends
(`EventsAcknowledged`, `Stops`).

### KafkaCommit

One topic: a reader for each partition, the commit controller they share, the
generations of the consumer group and the broker's offsets.  `Fetch`, `TakeSlot`,
`Push`, `Emit`, `LeaveLoop` and `ReaderDone` are `topicReader.Run` between its
channel operations; `Push`, `Deliver`, `Tick` and `ReaderExit` are the four cases of
the controller's `select`.  All channels between them are unbuffered, so a send
and its receive are one step.  The pipeline is what `EventFlow` promises: each event
sent is delivered once, in any order, and its hook runs in `Deliver`.  Crash and
`EndGeneration` may come at any moment; a commit may fail for any partitions.
Topics share nothing, so one is enough.

What makes it correct: only handled messages are committed, over rebalances,
crashes and failed commits, and a commit is never taken back (`CommitSpec`); when
the controller closes `doneCh` nobody will send to it any more (`DoneIsClean`); every
queued message leaves its queue and an input told to stop leaves the group
(`QueueMoves`, `Leaves`).

### RabbitInput

A consumer and an acker for each queue, and the loop of `Run` that connects,
starts them all and waits until all have ended.  `Receive` and `Reject` are the parsing
of a delivery under the four policies of `on_parser_error`; `TakeSlot`, `Push` and `Emit`
are the consumer between its channel operations; `Reported` is the acker's case for a
tag, reached from a hook (`Deliver`) or from the consumer itself for a message without
events (`ReportEmpty`).  `Break` closes any channels, or the connection with all, and
gives back to the broker what was not acknowledged.  A delivery tag stands for its
message: a message comes again only when nobody knows its old tag (`DoneIsClean`).

What makes it correct: only handled messages are acknowledged (`SourceSpec`); an acker
that has returned leaves no hook behind that would wait for it (`DoneIsClean`); a stop
ends the input (`Leaves`); every message is consumed in the end, unless its queue waits
for the consumers of the others (`AllConsumed`).

### Inputs

Eight inputs with one module, because they share a shape: an attempt (a request,
a call, a stream, a batch, a poll) reads rows, makes events of them, sends them, and, if
it waits for delivery, answers when all hooks have run.  `HttpServe`, `HttplServe`,
`UnaryServe`, `StreamServe`, `BeatsServe`, `SqlPoll`, `Subscribe` and `JobRun` say in which
order each input does that, what it skips, and what it answers.  Around the attempts are
`Init` with what is open when it fails, `Run`, `Stop` and `Close`, as the unit calls them;
whether `Run` waits for its handlers (`EndsAtOnce`) and whether a `Stop` is heard
(`StopCalled`) differ between the inputs.

What makes it correct: success is told only of what was delivered (`SourceSpec`, with
the answer as confirmation); whoever sent something gets an answer (`Answered`); a stop
that is heard ends the input (`Ends`).  Which inputs wait for their handlers before `Run`
returns is taken from the code and no property is made of it.  A beats client that sends what
is not the expected JSON panics the process (`Panic`), as the code does.

### Processors and Ingest

`Run` of a processor is a loop, and one pass of it a sequence of steps: copies that are made,
an error that is added, what is sent to `Out` or `Drop`, and the metric.  For each processor
an operator (`CloneRun`, `ParserRun`, ...) is the set of the sequences its code can go
through; which of them an event gets depends on data and is left open.  `Take` begins a
pass, `MakeCopy`, `HandOver`, `AddError` and `Observe` are its steps; `hand` is what the processor
still has, `away` what others have and are not done with, `duty` the tracker's counter.
`Careless` adds what a starlark script may do to events that share a tracker.

`Ingest` puts a processor between an input of `Inputs` and the rest of the pipeline: `Taken`
is the receive of an event that the input has sent, and the last `Done` of an event is
the `Deliver` the input waits for.  So the answer to a sender depends on each pass of the
processor: the `Answered` and the `SourceSpec` of the input are checked of the two together.

What makes it correct: the tracker counts what somebody has, so a copy is neither
forgotten nor handed on twice; an event that counts as failed carries an error and no other
does; nothing is done to an event that somebody else has (`HandedOn`).

### Outputs

`inbox`, `loop`, `hand` and `aim` are `Run`: the channel it reads, its step, the event it
holds and the writer it pushes to.  `pool` maps a routing key to a writer; `phase`, `shut`,
`buf`, `todo`, `tries` and `addr` are the writer's goroutine: the step of the batcher, its
closed input, the batch, the messages of the next attempt, the retryer's counter and how
many addresses it has given up.  `good` are the events whose status has no error.
`Take`, `Remove` and `ClosePool` are the three cases of the loop with `pool.Get`,
`pool.Remove` and `pool.Close`; a removed writer goes on beside the one that replaces it
until it has flushed.  What an attempt does is a step of each output: Kafka, Elasticsearch
and OpenSearch have a status for each message (`Written`, `TooLarge`, ...), SQL and the
client stream of gRPC one for all; the unary calls of gRPC take the events of a batch one after
another, each with its own attempts (`Portions`); RabbitMQ has a confirm for each message and
channels that close before it (`Confirmed`), HTTP and remote write have addresses to fall back
to.  The loop of the gRPC client reports an event with a procedure it does not know
itself (`NoMethod`).
Promremote, exec and log read the channel of the pipeline themselves: their `Run` is
the only writer.  What a destination answers is free.  `cfg` is what Init makes of the
options, chosen at the start.

What makes it correct: every event is reported once and `Run` returns when all are,
removed writers included (`SinkSpec`); an event that was reported without error was
accepted by the destination (`VerdictIsTrue`), apart from the messages whose RabbitMQ channel
was closed before the confirm (`lost`), of which `UnackedIsRetried` states what the README of
the plugin promises, and which the run `outputs_unacked` refutes; what is acknowledged is not
sent again (`NotSentAgain`); nothing is given up before the last attempt at the last address,
and with endless attempts only what is refused for good or lost (`GivenUpLast`; an attempt
of Kafka counts also when a message was too large to be sent); with limited attempts a closed
input ends the output, though the destination never recovers (`Returns`).

### GrpcRouter

The server side: `main` is `runAsServer` with the event in its hand, `mu` the mutex of
the router while it is held over a send, `pub` the goroutine of a publisher with its
three channels (`queue`, `joins`, `parts`, each with room for one), its list of
subscribers and the event it publishes, `at` the handler of a stream.  `Poll`,
`SelectMember`, `SelectStop` and `Receive` are the selects of `publisher.run`; `Offer`,
`Skip` and `Skipped` what it does for each subscriber; `Advance` and `Report` end an event
for Broadcast or Random.

What makes it correct: a client gets the events of its procedure in order and once, and
with Random one client gets an event (`DeliveredOnce`); nobody on the list is left out
(`NobodyLeftOut`); every event is reported and a closed input ends the output
(`EventsReported`, `Returns`), with the exceptions these two properties name: each of them
is a way in which the code loses an event or waits for ever, described below.

### SharedPlugins

`SharedStorage` has the operations on what plugins share as functions of values: the
reference counts (`CompareAndStore`, `Leave`), the cache of statistics with its sync
point, the cache of templates.  `PipelinePlan` computes from a configuration the sequence of
instances that `Build` makes, in groups that are added to the pipeline as a whole, and the
sequence that `Close` closes when only some groups were added: callables before their
plugin and closed by it, filters after it, processors once for each line.
`SharedPlugins` builds, runs, stops and closes several pipelines at the same time along
those plans.  `InitRefused`, `PingFails`, `StatsRefused` and `NotAcquired` are the ways a start
fails; `SetKey`, `CallFails`, `AnswerLost`, `Observe`, `Tick` and `ProcEnds` the lines.

What makes it correct: nobody uses a client that another one closed (`InUseIsOpen`);
when everything is stopped only what a failed build has forgotten is held
(`StoppedIsFree`); of the events with one key one is unique (`OneOriginal`); observed
values are reported while the pipeline runs (`StatsReported`).

## Runs

| Run | Question and properties | Bounds |
|---|---|---|
| `service_start_stop` | two clients start and stop one pipeline, with crashes and restarts: `OneRunner`, `Cancellable`, `ContractSpec`, `CallsReturn`, `ShutdownCompletes` | 1 pipeline, 2 clients, 3 objects |
| `service_edits` | an operator who starts, stops and adds and an editor who updates and deletes, with builds and locks that fail, and crashes: `LocksFollowRuns`, `LockedNotEdited`, `LaunchedOnce` | 2 clients, 3 objects, 2 mutexes, 2 versions of a configuration |
| `service_stale_update` | finding: `OneRunner` violated | start and update, 2 clients, 5 objects |
| `flow_delivery` | filters at every kind of plugin, clones, fan-out, batches: `DutyIsCopies`, `DeliverySpec` | 2 events, 3 copies at a time, 2 outputs |
| `flow_ends` | two inputs and two lines with a mixer, stopped one by one, with an event anywhere on its way: `NoSendOnClosed`, `EventsAcknowledged`, `Stops` | 2 lines, 3 stages, 1 event, channels of 1 |
| `kafka_input` | commits over two generations, with crashes, failed commits and competition for the slots: `DoneIsClean`, `CommitSpec`, `QueueMoves`, `Leaves` | 2 partitions of 2 messages of up to 2 events, 2 slots |
| `rabbit_input` | the four policies, a message that cannot be parsed, a channel, a connection or a call that fails: `DoneIsClean`, `Leaves`, `AllConsumed`, `SourceSpec` | 2 queues of 2 messages of up to 2 events, 1 slot each, 1 fault |
| `inputs` | eight inputs from Init to Close, rows that cannot be decoded, reading that breaks off, a stop at any moment; the unary gRPC server before each of 22 processors: `HandedOn`, `SourceSpec`, `Answered`, `Ends` | 2 attempts at 1 request of up to 2 rows; up to 2 copies of an event |
| `outputs` | eleven outputs, writers removed with a batch in their hands, attempts that fail in part or as a whole: `VerdictIsTrue`, `NotSentAgain`, `GivenUpLast`, `SinkSpec`, `Returns` | 2 events, 2 keys, 2 writers; endless attempts, 2 with a fallback, 1 with a buffer of 0 |
| `outputs_unacked` | finding: `UnackedIsRetried` violated | the outputs with endless attempts, 2 events |
| `grpc_router` | streams come and go, two events, a stop: `DeliveredOnce`, `NobodyLeftOut`, `EventsReported`, `Returns` | 1 procedure, 2 streams, 2 events, both behaviours |
| `shared_plugins` | two pipelines with everything that is shared, one failure anywhere: `InUseIsOpen`, `StoppedIsFree`, `OneOriginal`, `StatsReported` | 1 start of each pipeline, 2 lines, 3 events, 2 clients of a key |

Bounds.  Races in the service need two calls that hold different entries of one
pipeline; three objects let an entry be replaced while a call waits.  A fourth would let
the replacement be stopped as well, but in `service_edits` it is more than TLC can
enumerate in minutes.  Two versions make an update visible, and a second mutex is needed
where an entry is deleted and made again.  A release of the lock that fails is in no run:
`LocksFollowRuns` does not hold with it (see `NoLockLeftBehind` below), and the theorems
about `OneRunner`, `Cancellable`, the contract, `LaunchedOnce` and `LockedNotEdited` allow it.
In the data plane two lines, two
outputs and two inputs make every fan-in and fan-out a real choice, three stages
are the least a mixer may be in the middle of, a capacity of one makes every
channel full, and one event is enough where closing is the question, for it may
be in any place when a channel is closed.  With one event no sender of `flow_ends` waits for
a full channel: that is in `flow_delivery`, which checks no liveness, since with two events
neither run ends in minutes when both are asked of it.  In the Kafka input two partitions
share the semaphore, two messages make a queue with an order, two events make a
message that is delivered in part, and two generations make a restart.  In the
RabbitMQ input a second queue is what a stranded one waits for, one slot makes
every second message wait, and one fault is a new connection, with messages of the old
one that come again.  In the inputs two attempts overlap, or one is made again after the
other failed, and two rows make one that was sent before another one breaks.  Of the
processors, two copies let a pass end between them, and one input before them is enough,
since they see of it only a queue of events with a hook; the unary server makes
the smallest one.  In the outputs two events make a batch that fails in part, or a batch and an event
that waits for its writer; two writers let one be removed and replaced; two attempts are
the least with a retry and an end.  In the router two streams are the least with somebody
to be left out and with an unsubscription in another one's way; two events fill the hand of
the publisher and its channel.  With shared plugins two pipelines share what is global and
two lines what is of one pipeline; a second start of the second pipeline was tried
(482379 states) and shows nothing else, as identifiers are fresh at each start.
Symmetry is used only where clients, objects, events or copies are
interchangeable and never in a run with a temporal property under fairness.

### What the code does not keep

Two runs show that a statement of the documentation does not hold; each is a finding in
`PROJECT.json` with its quotation.

- `service_stale_update`: update and delete look a second time at the entry they
  loaded before they waited, not at the one in the registry: a start in between is
  not seen, the running pipeline loses its entry, and a second object is run.
- `outputs_unacked`: RabbitMQ messages without a confirm when a channel closes are taken for
  written (`publisher.go:212`), and their events are reported as delivered, though the README
  of the plugin says that "unACKed messages also cause a retry".

So `OneRunner` and `Cancellable` hold, as the other runs and the theorems say, for any
number of concurrent starts and stops.

### Observations

More that the code does and a maintainer should know.  The definitions named here are in
the modules, next to the properties, but no run states them: TLC violates them when they
are added to the run of their module.

Service:

- `StopCancels` holds with one client.  With two a stop may cancel through an entry from
  before the launch (`internal.go:128`): it answers success, releases the lock row and the pipeline runs on,
  so `LocksFollowRuns` fails as well; `service_edits` has one client that stops.
- `RunsStoredConfig` holds with one client (a theorem; no run states it).  With two that
  start and update (and five objects), a start builds the configuration it read before it waited for the mutex
  (`internal.go:65`), so an update that completes in between is not what runs; likewise a
  start puts an entry back that a delete has removed (`internal.go:70`), and runs a
  pipeline that the storage does not hold.
- `BuildingEnds`: a start that has built the object and does not get the lock of the storage
  (`internal.go:259`) leaves it in state `building`: every later start, stop, update or
  delete answers that the pipeline is building until the process restarts.
- `NoLockLeftBehind` does not hold when the storage fails to release (`internal.go:300`); and
  the lock is released when the pipeline is cancelled, not when it has ended
  (`internal.go:296`): another instance may start it while it drains.

Inputs:

- Kafka: a message that is fetched again while it is queued counts down the entry that is
  there (`reader.go:233`): it may be committed with an event of it on its way.  With
  `max_uncommitted = 0` the reader blocks at its first message (`kafka.go:234`); the same
  for `max_undelivered` of RabbitMQ (`consumer.go:101`).
- RabbitMQ: a queue whose own channel is closed is consumed again only when the consumers
  of all other queues have ended (`rabbitmq.go:260`; `Stranded`); a declaration that fails
  leaves a live connection behind (`rabbitmq.go:171`).
- `StopEnds`: cronjob (`cronjob.go:48`) and beats (`beats.go:81`) lose a stop that comes
  before Run has made what is to be stopped.
- A panic in the handler of a beats batch (`beats.go:135`, `143`, `176`: type assertions that are
  not checked) is in a goroutine of the input, so it ends the process with all its pipelines.
- http, httpl and cronjob return from Run while handlers or jobs are at work: what they send
  afterwards is a send on a closed channel, which net/http recovers and a job does not.
- `ReadErrorIsAnError`: the body that breaks off is seen only inside the loop over its lines
  (`httpl.go:155`), so the answer is 200, while its README says 500.
- `NothingHeld`: the gRPC server, as input (`grpc.go:199`) and as output, leaves its listener
  open when a procedure is wrong; the subscriber calls a nil function when it is stopped before Run; the SQL input never looks
  at `rows.Err`.

Processors:

- With `Careless` scripts neither `HandedOn` nor `Answered` holds: a script that shares the tracker
  and then fails, or does not return the event it shared with, leaves a copy nobody
  reports (`starlark.go:48`), so the sender waits for ever; one that returns an event twice takes
  its counter below zero, which is a panic (`tracker.go:34`).
- ollama adds a nil error to an event whose prompt is no string (`ollama.go:134`), and rename
  counts as failed an event without any error (`rename.go:54`): `FailedIsMarked` leaves these two
  out.
- A query of the sql processor that breaks off keeps the rows of the failed attempt
  (`processors/sql/sql.go:108`), so the attempt after it adds them again.

Outputs:

- A `batch_buffer` below one is not corrected by the RabbitMQ output nor by the gRPC client.
- A message that is too large costs the Kafka output an attempt although nothing was sent
  (`writer.go:214`): with `retry_attempts = 1` the rest of its batch is reported failed
  without having been sent once.
- Fallbacks of the HTTP output are not reached with endless attempts.
- The gRPC caller has no deadline for a client stream and does not send the configured headers.
- gRPC server: a handler whose `SendMsg` failed leaves without closing its result, and the
  publisher waits for it for ever (`Jammed`); a stream after the close, for a procedure nobody
  used, panics (`router.go:116`); an unsubscription may be taken before its subscription, which
  leaves a subscriber that is not there (`GoneIsRemoved`, `router.go:148`); two
  unsubscriptions to a publisher that has ended hold the mutex for ever (`Locked`); a
  publisher may end with an event in its channel (`Abandoned`).

Building and shared plugins:

- The plugins made so far of the group that fails are not closed (`pipeline.go:690`, `769`),
  and a failed ping leaves a member and a closed client in the storage
  (`deduplicate.go:88`): `lost` counts them.  Each start has identifiers of its own, so
  the loss stays until the process ends.
- `DuplicateHasOriginal`: when the answer to SETNX is lost the attempt after it finds the key of
  its own event, which is labelled a duplicate of nothing.
- Values observed while the lines are not in step at a stop are not reported, and their cache
  stays.
- redis and ollama set their deadline outside the retries, so endless attempts end in a context
  that is over for ever.

## Fairness

- Service: the process and the goroutines of pipelines go on when they can (weak
  fairness): the Go scheduler.  A call that waits for a mutex gets it in the end
  (strong fairness of a call's steps): `sync.Mutex` hands over to a waiter that has
  starved.  Clients owe no call.
- Data plane: as long as some goroutine can move, some goroutine moves (weak fairness of
  all of them together, the ticker of the batcher included); this is less than the Go
  scheduler gives.  Nothing is assumed of the inputs: they may produce no event.
- Kafka input: weak fairness of each reader, of each delivery (this is what
  `EventsAcknowledged` of `EventFlow` shows) and of the ticker.  The broker owes no
  successful commit and no generation: the tick that must come is one where every
  commit fails.
- RabbitMQ input: weak fairness of consumers, deliveries and of the loop, and of a start of
  all queues: only a bounded number of calls fails.
- Inputs: weak fairness of Run, Stop, Close, the deliveries and of attempts that have
  begun: clients end their requests, or their connection does.  No request has to come.
- Processors (`IngestFairness`): weak fairness of the goroutine of the processor and of each
  copy's end, which `EventsAcknowledged` of `EventFlow` shows.  A pass ends in the end: services
  and scripts answer or fail.
- Outputs: weak fairness of the loop and of each writer, whose batcher ticks.  So each attempt
  is assumed to end, which a destination that never answers prevents where the code sets no
  deadline: the client stream of gRPC and the wait for the confirms of RabbitMQ.  Nothing is
  assumed of how an attempt ends, so with endless attempts nothing is claimed: the
  liveness property is about a limit above zero.
- Router: weak fairness of publishers, strong fairness of `main` and of the handlers (they
  wait for a mutex and for rendezvous) and of the receiving case of a publisher's
  select, which picks among ready cases at random.  A client reads what it is sent; it need
  not send its first message, nor hang up.
- Shared plugins: the ticker of some line ticks.

## Proofs

All theorems are proved for every value of the constants that the assumptions of
the modules allow.

- `PipelineServiceProofs`: `TypeCorrect` and `TypeOKCorrect` for every operation and
  failure; `OneRunnerCorrect`, `CancellableCorrect` and `BuildExclusiveCorrect` under
  `StartStopOnly` (clients start and stop; boot, exit, crashes and failures included).
  These are not inductive alone.  The invariant adds what a call knows at each of its
  steps (`PcInv`), that the entry it acts on after taking the mutex is the current one
  (`EntryInv`, `LockInv`, `CurrentInv`), that an object belongs to one call or one
  goroutine (`ObjectInv`, `LiveInv`, `ActiveInv`), and what is left when the process is
  down (`DownInv`).  `StartStopOnly` is needed: `service_stale_update` is the
  counterexample without it.  `ContractCorrect`, the refinement of `PipelineContract`,
  follows under the same assumption.
  `LaunchedOnceCorrect` holds for all operations and failures: by `RunInv` an object that is
  built is new and belongs to the call that builds it, and only an object that was
  launched has a cancel function.  `LockedNotEditedCorrect` assumes that no client adds
  (`NoAdd`): calls that work on one pipeline exclude each other by the mutex of its entry,
  however stale the entry is (`EditInv`), and an add after a delete makes an entry with
  another mutex.  `RunsStoredConfigCorrect` and `LocksFollowRunsCorrect` are about one client
  with every operation (`OneClient`; the latter with rows that are removed at boot and
  releases that do not fail, `RowsCleaned`): a call carries the registered entry and the
  stored configuration (`CallerInv`), and what runs or is locked is what they say
  (`KeepInv`, `LeftInv`).  With two clients that both start and stop, or start and update, they fail, see
  Observations.  So the run `service_edits` and the theorems go beyond each other: in it one
  of two clients edits, while the other one starts, stops and adds.
- `EventFlowProofs`: `TypeCorrect`, `DutyCorrect`, `HooksCorrect`, `OpenCorrect`, and
  `DeliveryCorrect`, the refinement of `DeliveryContract`, for any wiring.  The invariant
  has two parts: `FlowInv` follows the copies (each is in one place, the counter counts
  them), and `CloseInv` follows the cascade (the closers of a closed channel have ended;
  who has ended holds nothing and has emptied what it reads; who is stopped has seen all
  end).  The wiring is reasoned about once, in the lemmas `SinksOf`, `SourceOf`,
  `ClosersOf`, `SendersClose` and `EveryChanIsRead`.
- `KafkaCommitProofs`: `TypeCorrect`, `SemaphoreCorrect`, `DoneCorrect` and
  `CommitCorrect`, the refinement of `SourceContract`.  The invariant
  says of each partition that its queue is in the order of the offsets and lies between
  the committed and the next offset (`OrderOf`), that what the controller counts is what
  the pipeline owes (`CountsOf`), and that what was fetched is handled, queued or about to
  be queued (`CoverOf`).
- `RabbitInputProofs`: `TypeCorrect`, `SemaphoreCorrect`, `TagsCorrect`, `DoneCorrect` and
  `SourceCorrect`, the refinement of `SourceContract`.  The invariant says where the events of
  a message are (`CountInv`: on their way or not yet sent), that the acker counts exactly
  those (`AckInv`), that what an open channel still has to acknowledge is out at the broker
  (`OutInv`), which is why a message cannot come again while its old tag is known, and that an
  acker that does not run knows nothing (`AckerInv`).
- `InputsProofs`: `TypeCorrect` and `SourceCorrect`, the refinement of
  `SourceContract`, for all eight inputs.  `ServeIs` sorts their steps into eight forms
  (`Begins` to `Panics`); the invariant says of an attempt (`AttemptInv`) that one that
  sends has a row left, that one that waits has read everything or was cut, and that an answer
  is its end.  `SourceCorrect` assumes that httpl bodies do not break off: with them it does
  not hold (`ReadErrorIsAnError`).
  `IngestImplements` shows that an input with a processor behind it takes only steps of the
  input, whatever the processor does; so `IngestSourceCorrect` carries the above over.
  `HandedOnCorrect` is about the processor: the counter of an event is the number of its
  copies, and what failed is marked.  A pass is judged by what it still has to do with what it has
  in its hands (`Sound`: it gives away everything once, only what it has or makes, and its
  event last).  `RunsAreFresh` shows this of every pass of all 22 processors as it begins, for any
  number of copies; the step lemmas (`CopyStep` to `LastStep`) that a pass stays so; and
  `HandInv` adds that what others have is marked and counted.  Scripts that are `Careless` are
  excluded because `HandedOn` is false with them.
- `OutputsProofs`: `TypeCorrect`, `VerdictCorrect`, `NotSentAgainCorrect`,
  `GivenUpLastCorrect`, `PoolCorrect` and `SinkCorrect`, the refinement of `SinkContract`,
  for all the outputs.  The invariant says that an event is in one place (`PlaceInv`), that
  the pool lists the open writers, each for one key, and that what has ended holds nothing
  (`PoolInv`), that an output without a pool has its one writer until it is drained
  (`SelfInv`), that what is still to be sent is the part of a batch that is not
  acknowledged (`StatusInv`), and that the rest of a batch is acknowledged, refused, lost or was
  tried everywhere (`GiveUpInv`).

- `GrpcRouterProofs`: `TypeCorrect`, `DeliveredOnceCorrect` and `NobodyLeftOutCorrect`, for any
  number of procedures, streams and events.  The invariant says that a stream has joined one
  publisher once (`MemberInv`), where an event is on its way (`PlaceInv`: what was taken,
  what waits in a channel, what is published; these move on in order), and that what a
  stream got came before all that (`PastInv`).  Lists of subscribers lose an entry by being
  glued together, which `Glued` is about.
- `SharedPluginsProofs`: `TypeCorrect`, `CountsMembersCorrect`, `InUseIsOpenCorrect`,
  `StoppedIsFreeCorrect` and `OneOriginalCorrect`, for any configurations and any number of
  starts and failures.  They rest on `ClosedOnce`, which says of any configuration that what `Build` makes
  is made once and that `Close` goes once through what was made, wherever `Build` has ended; the only
  assumptions are that each plugin has an identifier of its own (`NameAssumption`) and that a
  configuration is made of lists (`ConfigAssumption`).  On top of it the
  invariant (`PlanInv`) says where a pipeline is in its plan and which of its instances are
  alive there (`PlaceInv`, `BuiltInv`), that a storage counts those and what was lost
  (`CountInv`), and that what is stored is open (`OpenInv`) and used (`ClientInv`).
  `StoppedIsFreeCorrect` assumes that who is the last to leave closes the client
  (`ClosedByLast`; ollama leaves without closing), and `OneOriginalCorrect` that pipelines
  whose events share keys have a deduplicate processor (`KeysAreChecked`).

So each invariant, action property and refinement that a passing run checks is a theorem, under the
assumptions named above.  Only
model-checked are the liveness properties, since liveness under fairness is outside the proof
system used here: `CallsReturn`, `ShutdownCompletes`, `EventsAcknowledged`, `Stops`, `QueueMoves`,
`Leaves`, `AllConsumed`, `Answered`, `Ends`, `Returns`, `EventsReported` and `StatsReported`.
Recursion is used in two places: what a pass makes of an event is a function of its index, and
`FlattenSeq` of the community modules is a recursive function, whose value is worked out in
`Flat` by a least counterexample, as induction theorems cannot be instantiated.

## Not modelled, and why

- Contents: events, labels, parsing, serialization, metrics, logs.
- The wiring of `EventFlow` has one filter per plugin (a chain adds nothing but more
  relays of the same kind) and always keeps the fan-in behind the lines.  Lookup units
  have no events.  Unbuffered channels are covered by those of capacity one, which allow
  more.
- An answer of the bulk API of Elasticsearch or OpenSearch with fewer or more items than
  operations, or with an error that has no reason (`indexer.go:161`, `166`): the model takes one item
  per operation, as the API documents.  A gRPC client output has either unary calls or a
  client stream in the model, not some procedures of each kind.
- A message the Kafka broker hands over twice within a generation.
- Several neptunus instances on one PostgreSQL storage; file modes and partial writes.
- A pipeline without processors (in `SharedPlugins`); a `not` filter inside another one; the
  expiry of keys, templates, metrics and idle statistics, which depend on the clock only.
- Filters send an event to one of two channels, which `EventFlow` leaves to chance, and so it
  does with what a processor makes: each event in its hands may be sent or dropped, in any
  order, and copied a bounded number of times.
- The steps of `Processors` are those on events: fields, services and scripts decide which of
  them a pass takes.  Scripts share the tracker with the events they return and return
  each once, unless `Careless` is set.  Other inputs before a processor, and chains of
  processors, were not composed with them; `EventFlow` has the chains.
- REST, CLI, configuration files, codecs, key keepers, lookups, metrics: they keep nothing
  between two calls that a property could be about.

## Plan

Modelled, checked and, but for liveness, proved: all of the above.  Next, in this order:

1. Proofs of the observations' counterparts: what does hold of a stop with one client
   (`StopCancels`), and of the entries of a running pipeline for any operations.
2. `PipelineService` with several instances on one storage.
3. The lookup engine and its readers.
