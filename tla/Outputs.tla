------------------------------- MODULE Outputs -------------------------------
(***************************************************************************)
(* The outputs that write to one destination at a time: Kafka,             *)
(* Elasticsearch, OpenSearch, HTTP, SQL, RabbitMQ, gRPC as a client,       *)
(* Prometheus remote write, exec and log.  Most have a loop that takes     *)
(* events from the pipeline, a pool of writers (one goroutine for each     *)
(* routing key), the batch each writer collects, and the attempts to       *)
(* write it; the last three read the channel of the pipeline themselves.   *)
(*                                                                         *)
(* A writer that was idle for long is removed from the pool and ends on    *)
(* its own; the loop may make a new writer for its key meanwhile.  The     *)
(* channels to the writers are unbuffered: a push and its receive are one  *)
(* step.  The clients of the destinations and the serializer are external: *)
(* they may answer whatever their interfaces allow.  The unit always takes *)
(* the reports.                                                            *)
(***************************************************************************)
EXTENDS Integers, FiniteSets, Functions

CONSTANTS
  Events,    \* events the pipeline may send to the output
  Keys,      \* their routing keys: topics, exchanges, addresses, tables, pipelines
  Writers,   \* writers that may exist at a time, the removed ones included (a bound)
  Options,   \* values of batch_buffer, retry_attempts and the number of fallbacks
  None

ASSUME OutputAssumption ==
  /\ Options \subseteq [buffer : Nat, attempts : Nat, fallbacks : Nat]
  /\ None \notin Writers /\ None \notin Events

VARIABLES
  cfg,       \* the plugin and its settings
  inbox,     \* events in the channel In
  closed,    \* In is closed
  loop,      \* of Run: select, push, wait (in pool.Close), returned
  hand,      \* the event Run holds
  aim,       \* the writer it pushes to
  pool,      \* pool[k]: the writer of k, or None
  phase,     \* phase[w]: off, collect, prepare, write, report
  shut,      \* shut[w]: its input is closed, or it has none of its own
  buf,       \* buf[w]: its batch, without the events already reported
  todo,      \* todo[w]: messages of the next attempt
  tries,     \* tries[w]: the attempt it is in
  addr,      \* addr[w]: how many addresses it has given up
  good,      \* events whose status has no error
  acked,     \* messages the destination has acknowledged
  lost,      \* messages whose channel was closed before the broker answered
  refused,   \* events no attempt can deliver
  reports    \* reports[e]: how often e was sent to Done

run    == <<inbox, closed, loop, hand, aim, pool>>
batch  == <<buf, todo, tries, addr>>
writer == <<phase, shut, batch>>
broker == <<acked, lost, refused>>
status == <<good, reports>>
vars   == <<cfg, run, writer, broker, status>>

-----------------------------------------------------------------------------
(* The settings: what Init of each plugin makes of the options, and        *)
(* whether its Run has a pool or reads the channel of the pipeline itself. *)

AtLeastOne(n) == IF n > 0 THEN n ELSE 1

Pooled(kind, o) ==
  [kind |-> kind, direct |-> FALSE, size |-> AtLeastOne(o.buffer), limit |-> o.attempts,
   others |-> 0]

Kafka(o)         == Pooled("kafka", o)
Elasticsearch(o) == Pooled("elasticsearch", o)
Opensearch(o)    == Pooled("opensearch", o)
Sql(o)           == Pooled("sql", o)
Http(o)          == [Pooled("http", o) EXCEPT !.others = o.fallbacks]
RabbitMQ(o)      == [Pooled("rabbitmq", o) EXCEPT !.size = o.buffer]
GrpcStream(o)    == [Pooled("grpc_stream", o) EXCEPT !.size = o.buffer]
GrpcUnary(o)     == [Pooled("grpc_unary", o) EXCEPT !.size = o.buffer]
Promremote(o)    == [Pooled("promremote", o) EXCEPT !.direct = TRUE, !.others = o.fallbacks]
Exec(o) == [Pooled("exec", o) EXCEPT !.direct = TRUE, !.size = 1, !.limit = 1]
Log(o)  == [Pooled("log", o) EXCEPT !.direct = TRUE, !.size = 1, !.limit = 1]

Settings ==
  UNION {{Kafka(o), Elasticsearch(o), Opensearch(o), Sql(o), Http(o), RabbitMQ(o),
          GrpcStream(o), GrpcUnary(o), Promremote(o), Exec(o), Log(o)} : o \in Options}

TypeOK ==
  /\ cfg \in Settings
  /\ inbox \subseteq Events /\ closed \in BOOLEAN
  /\ loop \in {"select", "push", "wait", "returned"}
  /\ hand \in Events \cup {None} /\ aim \in Writers \cup {None}
  /\ pool \in [Keys -> Writers \cup {None}]
  /\ phase \in [Writers -> {"off", "collect", "prepare", "write", "report"}]
  /\ shut \in [Writers -> BOOLEAN]
  /\ buf \in [Writers -> SUBSET Events]
  /\ todo \in [Writers -> SUBSET Events]
  /\ tries \in [Writers -> Nat]
  /\ \A w \in Writers : tries[w] \in 1 .. AtLeastOne(cfg.limit)
  /\ addr \in [Writers -> Nat]
  /\ \A w \in Writers : addr[w] \in 0 .. cfg.others
  /\ good \subseteq Events /\ acked \subseteq Events
  /\ lost \subseteq Events /\ refused \subseteq Events
  /\ reports \in [Events -> Nat]

\* An output without a pool has one writer: Run itself, which collects from In.
Init ==
  /\ cfg \in Settings
  /\ inbox = {} /\ closed = FALSE /\ hand = None /\ aim = None
  /\ pool = [k \in Keys |-> None]
  /\ \E self \in Writers :
       phase = [w \in Writers |-> IF cfg.direct /\ w = self THEN "collect" ELSE "off"]
  /\ loop = (IF cfg.direct THEN "wait" ELSE "select")
  /\ shut = [w \in Writers |-> cfg.direct]
  /\ buf = [w \in Writers |-> {}] /\ todo = [w \in Writers |-> {}]
  /\ tries = [w \in Writers |-> 1] /\ addr = [w \in Writers |-> 0]
  /\ good = {} /\ acked = {} /\ lost = {} /\ refused = {}
  /\ reports = [e \in Events |-> 0]

\* Events the output was given and has not reported.
Held == inbox \cup ({hand} \ {None}) \cup UNION {buf[w] : w \in Writers}

-----------------------------------------------------------------------------
(* The unit in front of the output.                                        *)

Arrive(e) ==
  /\ ~closed /\ e \notin Held /\ reports[e] = 0
  /\ inbox' = inbox \cup {e}
  /\ UNCHANGED <<cfg, closed, loop, hand, aim, pool, writer, broker, status>>

CloseIn ==
  /\ ~closed /\ closed' = TRUE
  /\ UNCHANGED <<cfg, inbox, loop, hand, aim, pool, writer, broker, status>>

-----------------------------------------------------------------------------
(* Run and the pool.                                                       *)

\* The writer the pool holds for k.
Known(k) == pool[k]

\* pool.Get finds a writer for k, or makes one and starts its goroutine.
Get(k, w) ==
  IF Known(k) # None
  THEN w = Known(k) /\ UNCHANGED <<pool, phase, shut>>
  ELSE /\ phase[w] = "off"
       /\ pool' = [pool EXCEPT ![k] = w]
       /\ phase' = [phase EXCEPT ![w] = "collect"]
       /\ shut' = [shut EXCEPT ![w] = FALSE]

\* An event is received and the writer of its routing key is looked up.
Take(e, k, w) ==
  /\ loop = "select" /\ e \in inbox
  /\ Get(k, w)
  /\ loop' = "push" /\ hand' = e /\ aim' = w
  /\ inbox' = inbox \ {e}
  /\ UNCHANGED <<cfg, closed, batch, broker, status>>

\* The gRPC client knows no procedure of the event's key: Run reports the event itself.
NoMethod(e) ==
  /\ cfg.kind \in {"grpc_stream", "grpc_unary"}
  /\ loop = "select" /\ e \in inbox
  /\ inbox' = inbox \ {e}
  /\ reports' = [reports EXCEPT ![e] = @ + 1]
  /\ refused' = refused \cup {e}
  /\ UNCHANGED <<cfg, closed, loop, hand, aim, pool, writer, acked, lost, good>>

\* The writer receives the event; a batch that is full is flushed.
Push ==
  /\ loop = "push" /\ phase[aim] = "collect"
  /\ loop' = "select" /\ hand' = None /\ aim' = None
  /\ buf' = [buf EXCEPT ![aim] = @ \cup {hand}]
  /\ phase' = [phase EXCEPT ![aim] =
                 IF Cardinality(buf'[aim]) = cfg.size THEN "prepare" ELSE @]
  /\ UNCHANGED <<cfg, inbox, closed, pool, shut, todo, tries, addr, broker, status>>

Unlisted(k) == [pool EXCEPT ![k] = None]

\* Mutated form of Shut: pool.Close does not close the writers.
Shut_None(S) == shut

\* The inputs of the writers in S are closed.
Shut(S) == [w \in Writers |-> shut[w] \/ w \in S]

\* The ticker finds that the writer of k was idle: pool.Remove does not wait for it.
Remove(k) ==
  /\ loop = "select" /\ pool[k] # None
  /\ shut' = [shut EXCEPT ![pool[k]] = TRUE] /\ pool' = Unlisted(k)
  /\ UNCHANGED <<cfg, inbox, closed, loop, hand, aim, phase, batch, broker, status>>

\* In is closed and empty: pool.Close closes every writer and waits.
ClosePool ==
  /\ loop = "select" /\ closed /\ inbox = {}
  /\ loop' = "wait"
  /\ shut' = Shut(Range(pool)) /\ pool' = [k \in Keys |-> None]
  /\ UNCHANGED <<cfg, inbox, closed, hand, aim, phase, batch, broker, status>>

\* Mutated form of Running: the wait group counts the writers in the pool only.
Running_Listed == {w \in Writers : phase[w] # "off" /\ w \in Range(pool)}

\* The writers the wait group of the pool counts.
Running == {w \in Writers : phase[w] # "off"}

Return ==
  /\ loop = "wait" /\ Running = {}
  /\ loop' = "returned"
  /\ UNCHANGED <<cfg, inbox, closed, hand, aim, pool, writer, broker, status>>

-----------------------------------------------------------------------------
(* A writer: its batch.                                                    *)

\* A flush of an empty batch does nothing.
Flushable(w) == buf[w] # {}

\* The ticker of the batcher, or the closed input, flushes what there is.
Flush(w) ==
  /\ phase[w] = "collect" /\ Flushable(w)
  /\ phase' = [phase EXCEPT ![w] = "prepare"]
  /\ UNCHANGED <<cfg, run, shut, batch, broker, status>>

\* An output without a pool receives an event itself.
Receive(w, e) ==
  /\ cfg.direct /\ phase[w] = "collect" /\ e \in inbox
  /\ inbox' = inbox \ {e}
  /\ buf' = [buf EXCEPT ![w] = @ \cup {e}]
  /\ phase' = [phase EXCEPT ![w] =
                 IF Cardinality(buf'[w]) = cfg.size THEN "prepare" ELSE @]
  /\ UNCHANGED <<cfg, closed, loop, hand, aim, pool, shut, todo, tries, addr, broker, status>>

\* Its input is closed and empty.
InputEnded(w) == shut[w] /\ (cfg.direct => closed /\ inbox = {})

\* Nothing is left to receive or to flush: the goroutine ends.
EndWriter(w) ==
  /\ phase[w] = "collect" /\ InputEnded(w) /\ buf[w] = {}
  /\ phase' = [phase EXCEPT ![w] = "off"]
  /\ UNCHANGED <<cfg, run, shut, batch, broker, status>>

\* An event leaves the batch of w: it is reported done.
Done(w, e) ==
  /\ reports' = [reports EXCEPT ![e] = @ + 1]
  /\ buf' = [buf EXCEPT ![w] = @ \ {e}]

\* An event makes no message: it is reported at once.
Skip(w, e) ==
  /\ phase[w] = "prepare" /\ e \in buf[w]
  /\ Done(w, e)
  /\ refused' = refused \cup {e}
  /\ UNCHANGED <<cfg, run, phase, shut, todo, tries, addr, acked, lost, good>>

\* The batch makes no message: all of it is reported.
Spoil(w) ==
  /\ phase[w] = "prepare"
  /\ phase' = [phase EXCEPT ![w] = "report"]
  /\ refused' = refused \cup buf[w]
  /\ UNCHANGED <<cfg, run, shut, batch, acked, lost, status>>

\* What may be written next of a batch: all of it, but the unary calls of gRPC take one
\* event after another.
Portions(w) ==
  IF cfg.kind = "grpc_unary" /\ buf[w] # {} THEN {{e} : e \in buf[w]} ELSE {buf[w]}

\* The events of the batch whose attempts are made, or were made last.
Tried(w) == IF cfg.kind = "grpc_unary" THEN todo[w] ELSE buf[w]

\* The other events become the messages of the first attempt, if there are any.
Prepared(w) ==
  /\ phase[w] = "prepare"
  /\ phase' = [phase EXCEPT ![w] = IF buf[w] = {} THEN "collect" ELSE "write"]
  /\ \E part \in Portions(w) : todo' = [todo EXCEPT ![w] = part]
  /\ tries' = [tries EXCEPT ![w] = 1] /\ addr' = [addr EXCEPT ![w] = 0]
  /\ UNCHANGED <<cfg, run, shut, buf, broker, status>>

\* What follows the report of e: the rest of what was tried, or of the batch.
AfterReport(w, e) ==
  CASE buf[w] = {e}   -> "collect"
    [] Tried(w) = {e} -> "prepare"
    [] OTHER          -> "report"

\* The events that were tried are reported when the last attempt was made.
Report(w, e) ==
  /\ phase[w] = "report" /\ e \in buf[w] /\ e \in Tried(w)
  /\ Done(w, e)
  /\ phase' = [phase EXCEPT ![w] = AfterReport(w, e)]
  /\ UNCHANGED <<cfg, run, shut, todo, tries, addr, broker, good>>

-----------------------------------------------------------------------------
(* A writer: its attempts.                                                 *)

\* Mutated form of MayRetry: zero means no retry.
MayRetry_Zero(n) == n < cfg.limit

MayRetry(n) == cfg.limit = 0 \/ n < cfg.limit

\* A fallback is tried, with a retryer of its own.
NextAddress(w) ==
  /\ addr' = [addr EXCEPT ![w] = @ + 1] /\ tries' = [tries EXCEPT ![w] = 1]
  /\ UNCHANGED phase

\* Nothing to send again: the retryer ends.
Settled(w) == phase' = [phase EXCEPT ![w] = "report"] /\ UNCHANGED <<tries, addr>>

\* The attempt failed: the retryer sleeps and tries again, or gives up.
Again(w) ==
  \/ /\ MayRetry(tries[w])
     /\ tries' = [tries EXCEPT ![w] = IF cfg.limit = 0 THEN @ ELSE @ + 1]
     /\ UNCHANGED <<phase, addr>>
  \/ ~MayRetry(tries[w]) /\ addr[w] < cfg.others /\ NextAddress(w)
  \/ ~MayRetry(tries[w]) /\ addr[w] = cfg.others /\ Settled(w)

\* Mutated form of Verdict: a message that will be sent again counts as delivered.
Verdict_Attempted(w, ok) == good \cup todo[w]

\* The status of the messages of an attempt: no error for those in ok.
Verdict(w, ok) == (good \ todo[w]) \cup ok

Attempt(w) == phase[w] = "write" /\ todo[w] # {}

\* An attempt: the messages in ok are delivered, those in again have to be sent again.
\* Without an error the attempts are over.
Written(w, ok, again) ==
  /\ Attempt(w)
  /\ acked' = acked \cup ok /\ refused' = refused \cup (todo[w] \ (ok \cup again))
  /\ good' = Verdict(w, ok)
  /\ IF ok = todo[w]
     THEN Settled(w) /\ UNCHANGED todo
     ELSE Again(w) /\ todo' = [todo EXCEPT ![w] = again]
  /\ UNCHANGED <<cfg, run, shut, buf, lost, reports>>

\* The whole attempt succeeds.
Accepted(w) == Written(w, todo[w], {})

\* The request fails as a whole, for now or for good.
Failed(w, temporary) ==
  /\ Attempt(w)
  /\ good' = Verdict(w, {})
  /\ IF temporary THEN Again(w) /\ UNCHANGED refused
                  ELSE Settled(w) /\ refused' = refused \cup todo[w]
  /\ UNCHANGED <<cfg, run, shut, buf, todo, acked, lost, reports>>

\* Kafka: one message is too large. Nothing was sent, the others remain.
TooLarge(w, e) ==
  /\ Attempt(w) /\ e \in todo[w]
  /\ good' = good \ {e} /\ refused' = refused \cup {e}
  /\ todo' = [todo EXCEPT ![w] = @ \ {e}]
  /\ Again(w)
  /\ UNCHANGED <<cfg, run, shut, buf, acked, lost, reports>>

\* Kafka: the last attempt has left no message to send again.
NoneLeft(w) ==
  /\ phase[w] = "write" /\ todo[w] = {}
  /\ Settled(w)
  /\ UNCHANGED <<cfg, run, shut, buf, todo, broker, status>>

\* Elasticsearch and OpenSearch: the request succeeds and each of its items has a result:
\* one for each operation, and an error with its reason.
Indexed(w, ok) ==
  /\ Attempt(w)
  /\ acked' = acked \cup ok /\ refused' = refused \cup (todo[w] \ ok)
  /\ good' = Verdict(w, ok)
  /\ Settled(w)
  /\ UNCHANGED <<cfg, run, shut, buf, todo, lost, reports>>

\* Mutated form of Unconfirmed: every message is published again.
Unconfirmed_All(w, acks, gone) == todo[w]

\* RabbitMQ: the messages an attempt leaves to the next one.
Unconfirmed(w, acks, gone) == todo[w] \ (acks \cup gone)

\* RabbitMQ: the broker confirms the messages in acks; the channel is closed before it
\* has answered for those in gone; the others were not published, or not acknowledged.
Confirmed(w, acks, gone) ==
  /\ Attempt(w)
  /\ acked' = acked \cup acks /\ lost' = lost \cup gone
  /\ good' = Verdict(w, acks \cup gone)
  /\ IF acks \cup gone = todo[w]
     THEN Settled(w) /\ UNCHANGED todo
     ELSE Again(w) /\ todo' = [todo EXCEPT ![w] = Unconfirmed(w, acks, gone)]
  /\ UNCHANGED <<cfg, run, shut, buf, refused, reports>>

-----------------------------------------------------------------------------
(* The writers of each plugin.                                             *)

TopicWriter(w) ==
  /\ cfg.kind = "kafka"
  /\ \/ \E e \in Events : Skip(w, e) \/ TooLarge(w, e)
     \/ \E ok \in SUBSET todo[w] : \E again \in SUBSET (todo[w] \ ok) : Written(w, ok, again)
     \/ \E temporary \in BOOLEAN : Failed(w, temporary)
     \/ NoneLeft(w)

\* An event that does not become an operation is skipped.
Indexer(w) == cfg.kind = "elasticsearch" /\ \E e \in Events : Skip(w, e)

\* A request that fails, or whose answer is an error or unreadable, is sent again.
IndexerPerform(w) ==
  /\ cfg.kind = "elasticsearch"
  /\ Failed(w, TRUE) \/ \E ok \in SUBSET todo[w] : Indexed(w, ok)

OpensearchIndexer(w) ==
  /\ cfg.kind = "opensearch"
  /\ \/ \E e \in Events : Skip(w, e)
     \/ \E ok \in SUBSET todo[w] : Indexed(w, ok)
     \/ Failed(w, TRUE)

\* The query parameters or the body of the whole batch may be beyond preparation.
Requester(w) == cfg.kind = "http" /\ Spoil(w)

RequesterPerform(w) == cfg.kind = "http" /\ (Accepted(w) \/ Failed(w, TRUE))

\* The statement binds and inserts the rows of the whole batch.
Querier(w) == cfg.kind = "sql" /\ (Accepted(w) \/ Failed(w, TRUE))

Publisher(w) == cfg.kind = "rabbitmq" /\ \E e \in Events : Skip(w, e)

\* Without a channel in confirm mode the attempt fails.
PublisherProduce(w) ==
  /\ cfg.kind = "rabbitmq"
  /\ \/ \E acks \in SUBSET todo[w] : \E gone \in SUBSET (todo[w] \ acks) :
          Confirmed(w, acks, gone)
     \/ Failed(w, TRUE)

\* gRPC: the batch goes through one client stream, whose answer is the answer to all.
SendBulk(w) ==
  /\ cfg.kind = "grpc_stream"
  /\ Accepted(w) \/ Failed(w, TRUE) \/ \E e \in Events : Skip(w, e)

\* gRPC: one call after another, each with attempts of its own.
SendUnary(w) ==
  /\ cfg.kind = "grpc_unary"
  /\ Accepted(w) \/ Failed(w, TRUE) \/ \E e \in Events : Skip(w, e)

\* A batch without a sample makes no request.
Marshal(w) == cfg.kind = "promremote" /\ Spoil(w)

\* An event without samples shares the fate of the request it adds nothing to.
WriteWithFallback(w) == cfg.kind = "promremote" /\ (Accepted(w) \/ Failed(w, TRUE))

\* The variables, the arguments or the input of the command may be beyond preparation.
Unpack(w) == cfg.kind = "exec" /\ \E e \in Events : Skip(w, e)

Command(w) == cfg.kind = "exec" /\ (Accepted(w) \/ Failed(w, TRUE))

Write(w) == cfg.kind = "log" /\ (Accepted(w) \/ \E e \in Events : Skip(w, e))

-----------------------------------------------------------------------------
LoopStep ==
  \/ \E e \in Events, k \in Keys, w \in Writers : Take(e, k, w)
  \/ \E e \in Events : NoMethod(e)
  \/ Push \/ ClosePool \/ Return

PluginStep(w) ==
  \/ TopicWriter(w)
  \/ Indexer(w) \/ IndexerPerform(w) \/ OpensearchIndexer(w)
  \/ Requester(w) \/ RequesterPerform(w)
  \/ Querier(w)
  \/ Publisher(w) \/ PublisherProduce(w)
  \/ SendBulk(w) \/ SendUnary(w)
  \/ Marshal(w) \/ WriteWithFallback(w)
  \/ Unpack(w) \/ Command(w) \/ Write(w)

WriterStep(w) ==
  \/ Flush(w) \/ EndWriter(w) \/ Prepared(w)
  \/ \E e \in Events : Receive(w, e) \/ Report(w, e)
  \/ PluginStep(w)

Next ==
  \/ \E e \in Events : Arrive(e)
  \/ CloseIn
  \/ LoopStep
  \/ \E k \in Keys : Remove(k)
  \/ \E w \in Writers : WriterStep(w)

Spec == Init /\ [][Next]_vars

(***************************************************************************)
(* The goroutines take the steps they can and the tickers of the batches   *)
(* tick.  Each attempt is assumed to end, in whatever way: most clients    *)
(* have a timeout, but the client stream of gRPC and the wait for the      *)
(* confirms of RabbitMQ have none, and for them this is an assumption.     *)
(* Nothing is assumed of idle writers or of the unit.                      *)
(***************************************************************************)
Fairness == WF_vars(LoopStep) /\ \A w \in Writers : WF_vars(WriterStep(w))

FairSpec == Spec /\ Fairness

-----------------------------------------------------------------------------
(* Properties.                                                             *)

\* Each event is reported done once and Run returns when all are, over retries, partial
\* failures and the removal of writers (pool.go, writer.go).
Contract == INSTANCE SinkContract
              WITH Items <- Events, held <- Held, over <- (loop = "returned")

SinkSpec == Contract!Spec

\* An event is reported without an error if and only if the destination has acknowledged
\* its message, whatever other messages of its batch met (the statuses in writer.go,
\* publisher.go, indexer.go).  Messages whose channel was closed before the broker answered
\* are left to UnackedIsRetried, which does not hold.
VerdictIsTrue ==
  \A e \in Events \ lost : reports[e] > 0 => (e \in good <=> e \in acked)

\* A message is reported without an error only if the broker has acknowledged it: README of
\* the RabbitMQ output, "unACKed messages also cause a retry".
UnackedIsRetried == \A e \in Events : reports[e] > 0 /\ e \in good => e \in acked

\* A message the destination has acknowledged takes part in no later attempt
\* (the retriable messages in writer.go, the publishings without an error in publisher.go).
NotSentAgain == \A w \in Writers : phase[w] = "write" => todo[w] \cap acked = {}

\* Every attempt at every address was made.
Exhausted(w) == cfg.limit > 0 /\ tries[w] = cfg.limit /\ addr[w] = cfg.others

\* A message is given up only if it was refused for good, or lost with its channel, or after
\* all the attempts at all the addresses: with endless attempts never (retryer.go,
\* performWithFallback).  An attempt that was not sent for a too large message counts.
GivenUpLast ==
  \A w \in Writers : phase[w] = "report" =>
    \/ Tried(w) \subseteq acked \cup lost \cup refused
    \/ Exhausted(w)

\* Run never pushes to a closed channel, which would panic, and a writer that is not
\* closed yet is known to the pool, or pool.Close would wait for it for ever.
OpenIsListed ==
  /\ loop = "push" => aim # None /\ aim \in Range(pool)
  /\ \A w \in Writers : w \in Range(pool) <=> phase[w] # "off" /\ ~shut[w]

\* With limited attempts an output whose input is closed returns.
Returns == (cfg.limit > 0 /\ closed) ~> loop = "returned"
=============================================================================
