----------------------------- MODULE RabbitInput ------------------------------
(***************************************************************************)
(* The RabbitMQ input: a consumer and an acker for each queue, and the     *)
(* loop that connects, starts them and waits until all of them have ended. *)
(*                                                                         *)
(* A consumer takes a slot of the semaphore for each message, hands the    *)
(* message to its acker and sends the events made of it; the hook of each  *)
(* event reports the delivery tag to the acker, which acknowledges a       *)
(* message after its last event.  The channels are unbuffered: a send and  *)
(* its receive are one step.  A delivery tag is told from another as the   *)
(* message is: a message is delivered once on a channel, or again after    *)
(* it was rejected, when nobody knows its tag any more.  The broker and    *)
(* the client library are external.                                        *)
(***************************************************************************)
EXTENDS Integers, FiniteSets

CONSTANTS
  Queues,          \* the queues that are consumed
  Length,          \* messages in each of them (a bound)
  Bad,             \* messages the parser fails on
  MaxEvents,       \* events a parser makes of one message, at most (a bound)
  MaxUndelivered,  \* capacity of a semaphore: with 0 a consumer would stop at once
  Policies,        \* values of on_parser_error to check, with requeue
  Faults           \* connections, channels and calls that fail (a bound)

Messages == Queues \X (1 .. Length)
Counts   == 0 .. MaxEvents
AllPolicies == {"drop", "reject", "requeue", "consume"}

ASSUME RabbitAssumption ==
  /\ IsFiniteSet(Queues)
  /\ Length \in Nat /\ MaxEvents \in Nat \ {0} /\ Faults \in Nat
  /\ MaxUndelivered \in Nat \ {0}
  /\ Bad \subseteq Messages /\ Policies \subseteq AllPolicies

VARIABLES
  policy,    \* on_parser_error: fixed
  phase,     \* of Run: connect, consume, left
  stopping,  \* fetchCtx is cancelled
  conn,      \* the connection is up
  faults,    \* what has failed so far
  at,        \* at[m]: the message at the broker: ready, out, acked, rejected
  handled,   \* messages of which every event was delivered
  open,      \* queues whose channel is open
  pc,        \* pc[q]: next step of the consumer
  cur,       \* cur[q]: its message, and the events of it not yet sent
  todo,      \* todo[m]: events of it that are not delivered
  flying,    \* flying[m]: those that are in the pipeline
  acker,     \* acker[q]: off, run, done (doneCh is closed)
  exiting,   \* queues whose acker has exitIfQueueEmpty
  acks,      \* messages in the maps of the ackers
  left,      \* left[m]: "events" of a message there
  sem        \* sem[q]: slots taken

fixed    == policy
loop     == <<phase, stopping, conn, faults>>
broker   == <<at, handled, open>>
consumer == <<pc, cur>>
pipeline == <<todo, flying>>
known    == <<acker, exiting, acks, left>>
vars     == <<fixed, loop, broker, consumer, pipeline, known, sem>>

TypeOK ==
  /\ policy \in AllPolicies
  /\ phase \in {"connect", "consume", "left"}
  /\ stopping \in BOOLEAN /\ conn \in BOOLEAN /\ faults \in 0 .. Faults
  /\ at \in [Messages -> {"ready", "out", "acked", "rejected"}]
  /\ handled \subseteq Messages /\ open \subseteq Queues
  /\ pc \in [Queues -> {"off", "recv", "slot", "push", "zero", "emit", "exit", "wait"}]
  /\ cur \in [Queues -> [k : 0 .. Length, n : Counts]]
  /\ todo \in [Messages -> Counts] /\ flying \in [Messages -> Counts]
  /\ acker \in [Queues -> {"off", "run", "done"}] /\ exiting \subseteq Queues
  /\ acks \subseteq Messages /\ left \in [Messages -> Counts]
  /\ sem \in [Queues -> 0 .. MaxUndelivered]

Nothing == [m \in Messages |-> 0]

Init ==
  /\ policy \in Policies
  /\ phase = "connect" /\ stopping = FALSE /\ conn = TRUE /\ faults = 0
  /\ at = [m \in Messages |-> "ready"] /\ handled = {} /\ open = {}
  /\ pc = [q \in Queues |-> "off"] /\ cur = [q \in Queues |-> [k |-> 0, n |-> 0]]
  /\ todo = Nothing /\ flying = Nothing
  /\ acker = [q \in Queues |-> "off"] /\ exiting = {}
  /\ acks = {} /\ left = Nothing /\ sem = [q \in Queues |-> 0]

-----------------------------------------------------------------------------
(* The loop of Run, and what may fail.                                     *)

Fault == faults < Faults /\ faults' = faults + 1

\* The messages of the queues S that are out are ready again.
Requeued(S) ==
  [m \in Messages |-> IF m[1] \in S /\ at[m] = "out" THEN "ready" ELSE at[m]]

\* declareAndBind fails; connect succeeds after it, unless it fails too.
Reconnect ==
  /\ phase = "connect" /\ ~stopping
  /\ \/ ~conn /\ conn' = TRUE /\ UNCHANGED faults
     \/ Fault /\ conn' \in BOOLEAN
  /\ UNCHANGED <<fixed, phase, stopping, broker, consumer, pipeline, known, sem>>

\* The queues S are consumed; Channel, Qos or Consume failed for the others, which
\* are not tried again before all of S have ended.
Start(S) ==
  /\ phase = "connect" /\ ~stopping /\ conn
  /\ IF S = Queues THEN UNCHANGED faults ELSE Fault
  /\ phase' = "consume" /\ open' = S
  /\ pc' = [q \in Queues |-> IF q \in S THEN "recv" ELSE "off"]
  /\ acker' = [q \in Queues |-> IF q \in S THEN "run" ELSE "off"]
  /\ exiting' = {} /\ acks' = {}
  /\ sem' = [q \in Queues |-> 0]
  /\ UNCHANGED <<fixed, stopping, conn, at, handled, cur, pipeline, left>>

AllEnded == \A q \in Queues : pc[q] = "off" /\ acker[q] # "run"

\* wg.Wait returns.
Ended ==
  /\ phase = "consume" /\ AllEnded
  /\ phase' = "connect"
  /\ UNCHANGED <<fixed, stopping, conn, faults, broker, consumer, pipeline, known, sem>>

Leave ==
  /\ phase = "connect" /\ stopping /\ phase' = "left"
  /\ UNCHANGED <<fixed, stopping, conn, faults, broker, consumer, pipeline, known, sem>>

Stop ==
  /\ ~stopping /\ stopping' = TRUE
  /\ UNCHANGED <<fixed, phase, conn, faults, broker, consumer, pipeline, known, sem>>

\* The channels of S are closed by the broker, or the connection is lost with all.
Break(S) ==
  /\ Fault
  /\ open' = open \ S /\ at' = Requeued(S)
  /\ conn' = (S # Queues /\ conn)
  /\ UNCHANGED <<fixed, phase, stopping, handled, consumer, pipeline, known, sem>>

-----------------------------------------------------------------------------
(* The consumer of a queue.                                                *)

\* The events that are made of a message.
Made(m) ==
  IF m \notin Bad THEN Counts
  ELSE IF policy = "consume" THEN {1} ELSE {0}

\* A message is parsed into n events; the library may hand one over that had come
\* before the context was cancelled.
Receive(q, k, n) ==
  LET m == <<q, k>>
  IN /\ pc[q] = "recv" /\ q \in open /\ at[m] = "ready"
     /\ m \in Bad => policy \notin {"reject", "requeue"}
     /\ n \in Made(m)
     /\ at' = [at EXCEPT ![m] = "out"]
     /\ pc' = [pc EXCEPT ![q] = "slot"] /\ cur' = [cur EXCEPT ![q] = [k |-> k, n |-> n]]
     /\ todo' = [todo EXCEPT ![m] = n]
     /\ handled' = IF n = 0 THEN handled \cup {m} ELSE handled
     /\ UNCHANGED <<fixed, loop, open, flying, known, sem>>

\* msg.Reject: with requeue the message comes again.
Reject(q, k) ==
  LET m == <<q, k>>
  IN /\ pc[q] = "recv" /\ q \in open /\ at[m] = "ready"
     /\ m \in Bad /\ policy = "reject"
     /\ at' = [at EXCEPT ![m] = "rejected"]
     /\ UNCHANGED <<fixed, loop, handled, open, consumer, pipeline, known, sem>>

TakeSlot(q) ==
  /\ pc[q] = "slot" /\ sem[q] < MaxUndelivered
  /\ sem' = [sem EXCEPT ![q] = @ + 1]
  /\ pc' = [pc EXCEPT ![q] = "push"]
  /\ UNCHANGED <<fixed, loop, broker, cur, pipeline, known>>

Push(q) ==
  LET m == <<q, cur[q].k>>
  IN /\ pc[q] = "push" /\ acker[q] = "run"
     /\ acks' = acks \cup {m} /\ left' = [left EXCEPT ![m] = cur[q].n]
     /\ pc' = [pc EXCEPT ![q] = IF cur[q].n = 0 THEN "zero" ELSE "emit"]
     /\ UNCHANGED <<fixed, loop, broker, cur, pipeline, acker, exiting, sem>>

Emit(q) ==
  LET m == <<q, cur[q].k>>
      n == cur[q].n - 1
  IN /\ pc[q] = "emit"
     /\ pc' = [pc EXCEPT ![q] = IF n = 0 THEN "recv" ELSE "emit"]
     /\ cur' = [cur EXCEPT ![q].n = n]
     /\ flying' = [flying EXCEPT ![m] = @ + 1]
     /\ UNCHANGED <<fixed, loop, broker, todo, known, sem>>

\* The deliveries are over: the channel is closed or the context is cancelled.
LeaveLoop(q) ==
  /\ pc[q] = "recv" /\ (q \notin open \/ stopping)
  /\ pc' = [pc EXCEPT ![q] = "exit"]
  /\ UNCHANGED <<fixed, loop, broker, cur, pipeline, known, sem>>

\* doneCh is closed: the consumer returns and closes its channel.
ConsumerDone(q) ==
  /\ pc[q] = "wait" /\ acker[q] = "done"
  /\ pc' = [pc EXCEPT ![q] = "off"]
  /\ open' = open \ {q} /\ at' = Requeued({q})
  /\ UNCHANGED <<fixed, loop, handled, cur, pipeline, known, sem>>

-----------------------------------------------------------------------------
(* The acker of a queue.                                                   *)

\* Mutated form of LastEvent: the first event of a message decides.
LastEvent_First(m) == TRUE

\* The report is of the only, or of the last event of the message.
LastEvent(m) == left[m] <= 1

\* Mutated form of ExitDue: the acker leaves without looking at the semaphore.
ExitDue_Now(n) == TRUE

ExitDue(n) == n = 0

\* Mutated form of Freed: a slot is freed only if the broker took the ack.
Freed_Acked(q) == IF q \in open THEN 1 ELSE 0

\* The slot is free again whether the ack succeeded or not.
Freed(q) == 1

\* A report of a tag: the message is acknowledged after its last event.
Reported(q, m) ==
  /\ acker[q] = "run"
  /\ IF m \in acks /\ LastEvent(m)
     THEN /\ acks' = acks \ {m} /\ left' = [left EXCEPT ![m] = 0]
          /\ at' = IF q \in open THEN [at EXCEPT ![m] = "acked"] ELSE at
          /\ sem' = [sem EXCEPT ![q] = @ - Freed(q)]
     ELSE /\ left' = IF m \in acks THEN [left EXCEPT ![m] = @ - 1] ELSE left
          /\ UNCHANGED <<acks, at, sem>>
  /\ acker' = [acker EXCEPT ![q] = IF q \in exiting /\ ExitDue(sem'[q]) THEN "done" ELSE @]
  /\ UNCHANGED exiting

\* Mutated form of ReportEmpty: the consumer takes a slot and says nothing.
ReportEmpty_Never(q) == FALSE

\* A message without events is reported by the consumer itself.
ReportEmpty(q) ==
  /\ pc[q] = "zero" /\ Reported(q, <<q, cur[q].k>>)
  /\ pc' = [pc EXCEPT ![q] = "recv"]
  /\ UNCHANGED <<fixed, loop, handled, open, cur, pipeline>>

\* The hook of an event, called where the event is delivered or dropped.
Deliver(m) ==
  /\ flying[m] > 0 /\ Reported(m[1], m)
  /\ flying' = [flying EXCEPT ![m] = @ - 1] /\ todo' = [todo EXCEPT ![m] = @ - 1]
  /\ handled' = IF todo[m] = 1 THEN handled \cup {m} ELSE handled
  /\ UNCHANGED <<fixed, loop, open, consumer>>

\* The consumer has left its loop.
ConsumerExit(q) ==
  /\ pc[q] = "exit" /\ acker[q] = "run"
  /\ pc' = [pc EXCEPT ![q] = "wait"]
  /\ exiting' = exiting \cup {q}
  /\ acker' = IF ExitDue(sem[q]) THEN [acker EXCEPT ![q] = "done"] ELSE acker
  /\ UNCHANGED <<fixed, loop, broker, cur, pipeline, acks, left, sem>>

Work(q) ==
  \/ TakeSlot(q) \/ Push(q) \/ Emit(q) \/ ReportEmpty(q)
  \/ LeaveLoop(q) \/ ConsumerExit(q) \/ ConsumerDone(q)

Fetch(q) == \E k \in 1 .. Length : Reject(q, k) \/ \E n \in Counts : Receive(q, k, n)

Next ==
  \/ Reconnect \/ Ended \/ Leave \/ Stop
  \/ \E S \in SUBSET Queues : Start(S) \/ Break(S)
  \/ \E q \in Queues : Work(q) \/ Fetch(q)
  \/ \E m \in Messages : Deliver(m)

Spec == Init /\ [][Next]_vars

(***************************************************************************)
(* Goroutines take the steps they can, the pipeline delivers every event   *)
(* (EventFlow: EventsAcknowledged) and the broker hands over what is       *)
(* ready, while the connection lasts: only Faults things fail.             *)
(***************************************************************************)
Fairness ==
  /\ \A q \in Queues : WF_vars(Work(q)) /\ WF_vars(Fetch(q))
  /\ \A m \in Messages : WF_vars(Deliver(m))
  /\ WF_vars(Reconnect) /\ WF_vars(Start(Queues)) /\ WF_vars(Ended) /\ WF_vars(Leave)

FairSpec == Spec /\ Fairness

-----------------------------------------------------------------------------
(* Properties.                                                             *)

\* "unexpected case, delivered tag not in map" does not happen: a message whose
\* events are on their way is in the map, which counts exactly what is missing.
TagsAreKnown ==
  \A m \in Messages : flying[m] > 0 => m \in acks /\ left[m] = todo[m]

\* A semaphore counts the messages that are not acknowledged, so it is empty when
\* the last one was.
SemaphoreCounts ==
  \A q \in Queues :
    sem[q] = Cardinality({m \in acks : m[1] = q}) + (IF pc[q] = "push" THEN 1 ELSE 0)

\* When an acker has returned nobody will send to it any more: no hook of its
\* messages is left, which would stop the output that calls it.
DoneIsClean ==
  \A m \in Messages : acker[m[1]] # "run" => flying[m] = 0

\* A stop ends the input after everything it has read was delivered.
Leaves == stopping ~> phase = "left"

\* The consumer of q has ended, or never began, while another one goes on: q is not
\* consumed until that one ends too.
Stranded(q) == phase = "consume" /\ pc[q] = "off" /\ ~AllEnded

\* Every message is acknowledged or rejected in the end, however often the connection
\* is lost, unless its queue is stranded, it is bad and requeued for ever or the input
\* is stopped.
AllConsumed ==
  \A m \in Messages :
    []<>(\/ at[m] \in {"acked", "rejected"} \/ stopping
         \/ Stranded(m[1]) \/ (policy = "requeue" /\ m \in Bad))

\* Only what was handled is acknowledged, over connections and channels.
Contract == INSTANCE SourceContract
              WITH confirmed <- {m \in Messages : at[m] = "acked"}

SourceSpec == Contract!Spec
=============================================================================
