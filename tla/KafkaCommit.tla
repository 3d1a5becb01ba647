----------------------------- MODULE KafkaCommit -----------------------------
(***************************************************************************)
(* The Kafka input: the readers of the partitions of one topic, the commit *)
(* controller they share, and the generations of the consumer group.       *)
(*                                                                         *)
(* A reader takes a slot of the commit semaphore for each message, hands   *)
(* the message to the controller and sends its events into the pipeline.   *)
(* The hook of a delivered event reports to the controller, which commits, *)
(* at each tick, the longest delivered prefix of the queue of each         *)
(* partition.  The channels are unbuffered: a send and its receive are one *)
(* step.  The broker and the group protocol of kafka-go are external.      *)
(***************************************************************************)
EXTENDS Integers, Sequences, FiniteSets, Functions

CONSTANTS
  Parts,           \* partitions assigned in a generation
  Length,          \* messages in each partition (a bound)
  MaxEvents,       \* events a parser makes of one message, at most (a bound)
  MaxUncommitted,  \* capacity of the commit semaphore
  Generations      \* generations that begin, those after a crash included (a bound)

ASSUME KafkaAssumption ==
  /\ IsFiniteSet(Parts)
  /\ Length \in Nat /\ MaxEvents \in Nat /\ Generations \in Nat
  /\ MaxUncommitted \in Nat

Offsets == 0 .. Length - 1
Counts  == 0 .. MaxEvents

VARIABLES
  phase,      \* of the group: idle, active, ending, left
  stopping,   \* the input was told to stop
  begun,      \* generations begun
  committed,  \* committed[p]: the offset stored at the broker
  handled,    \* messages of which every event was delivered
  pc,         \* pc[p]: next step of the reader of p
  pos,        \* pos[p]: the offset the reader fetches next
  cur,        \* cur[p]: the message the reader works on and its events not yet sent
  todo,       \* todo[p][o]: events of a message that are not delivered
  flying,     \* flying[p][o]: events of it that are in the pipeline
  sem,        \* slots taken of the commit semaphore
  queue,      \* queue[p]: the offsets in the controller's queue, oldest first
  left,       \* left[p][o]: "events" of a queued message
  ready,      \* ready[p]: queued messages that are "delivered"
  ctl,        \* the controller: off, run, done (doneCh is closed)
  readers,    \* readersCount
  exiting     \* exitIfQueueEmpty

broker     == <<committed, handled>>
reader     == <<pc, pos, cur>>
pipeline   == <<todo, flying>>
controller == <<queue, left, ready>>
exit       == <<ctl, readers, exiting>>
group      == <<phase, stopping, begun>>
vars       == <<group, broker, reader, pipeline, sem, controller, exit>>

TypeOK ==
  /\ phase \in {"idle", "active", "ending", "left"} /\ stopping \in BOOLEAN
  /\ begun \in 0 .. Generations
  /\ committed \in [Parts -> 0 .. Length]
  /\ handled \subseteq Parts \X Offsets
  /\ pc \in [Parts -> {"off", "fetch", "slot", "push", "emit", "exit", "wait"}]
  /\ pos \in [Parts -> 0 .. Length]
  /\ cur \in [Parts -> [off : 0 .. Length, n : Counts]]
  /\ todo \in [Parts -> [Offsets -> Nat]]
  /\ flying \in [Parts -> [Offsets -> Nat]]
  /\ sem \in 0 .. MaxUncommitted
  /\ queue \in [Parts -> Seq(Offsets)]
  /\ left \in [Parts -> [Offsets -> Counts]]
  /\ ready \in [Parts -> SUBSET Offsets]
  /\ ctl \in {"off", "run", "done"}
  /\ readers \in Int /\ exiting \in BOOLEAN

Nothing == [p \in Parts |-> [o \in Offsets |-> 0]]
NoMessage == [p \in Parts |-> [off |-> 0, n |-> 0]]

\* The offsets in the queue of p.
Queued(p) == Range(queue[p])

Init ==
  /\ phase = "idle" /\ stopping = FALSE /\ begun = 0
  /\ committed = [p \in Parts |-> 0] /\ handled = {}
  /\ pc = [p \in Parts |-> "off"] /\ pos = [p \in Parts |-> 0] /\ cur = NoMessage
  /\ todo = Nothing /\ flying = Nothing
  /\ sem = 0 /\ queue = [p \in Parts |-> <<>>]
  /\ left = Nothing /\ ready = [p \in Parts |-> {}]
  /\ ctl = "off" /\ readers = 0 /\ exiting = FALSE

-----------------------------------------------------------------------------
(* Generations.                                                            *)

\* SetOffset: every reader begins at the committed offset.
StartAt == committed

\* The processes of a generation: the readers at step, the controller at c.
Anew(step, c) ==
  /\ pc' = [p \in Parts |-> step] /\ pos' = StartAt /\ cur' = NoMessage
  /\ todo' = Nothing /\ flying' = Nothing
  /\ sem' = 0 /\ queue' = [p \in Parts |-> <<>>]
  /\ left' = Nothing /\ ready' = [p \in Parts |-> {}]
  /\ ctl' = c /\ readers' = Cardinality(Parts) /\ exiting' = FALSE
  /\ UNCHANGED broker

\* cg.Next returns a generation: a controller and a reader for each partition start.
\* It may do so after the stop, when both its context and a generation are ready.
Begin ==
  /\ phase = "idle" /\ begun < Generations
  /\ phase' = "active" /\ begun' = begun + 1
  /\ Anew("fetch", "run")
  /\ UNCHANGED stopping

Stop == ~stopping /\ phase # "left" /\ stopping' = TRUE
          /\ UNCHANGED <<phase, begun, broker, reader, pipeline, sem, controller, exit>>

\* The broker rebalances, or cg.Close ends the generation: its context is cancelled.
EndGeneration ==
  /\ phase = "active" /\ phase' = "ending"
  /\ UNCHANGED <<stopping, begun, broker, reader, pipeline, sem, controller, exit>>

\* Every function started in the generation has returned.
GenerationOver ==
  /\ phase = "ending" /\ ctl = "done" /\ \A p \in Parts : pc[p] = "off"
  /\ phase' = "idle"
  /\ UNCHANGED <<stopping, begun, broker, reader, pipeline, sem, controller, exit>>

\* The generation loop is left: Run returns.
Leave ==
  /\ phase = "idle" /\ stopping /\ phase' = "left"
  /\ UNCHANGED <<stopping, begun, broker, reader, pipeline, sem, controller, exit>>

\* The process dies and starts again: what is left is what the broker knows.
Crash ==
  /\ phase # "left" /\ begun < Generations
  /\ phase' = "idle" /\ stopping' = FALSE
  /\ Anew("off", "off")
  /\ UNCHANGED begun

-----------------------------------------------------------------------------
(* The reader of a partition.                                              *)

\* A message is fetched and parsed into n events; none, if the parser fails and the
\* message is to be dropped.
Work(p, o, n) ==
  /\ cur' = [cur EXCEPT ![p] = [off |-> o, n |-> n]]
  /\ pc' = [pc EXCEPT ![p] = "slot"]
  /\ todo' = [todo EXCEPT ![p][o] = @ + n]
  /\ handled' = IF n = 0 THEN handled \cup {<<p, o>>} ELSE handled
  /\ UNCHANGED <<group, committed, flying, sem, controller, exit>>

\* A message that has arrived may be returned after the context is cancelled.
Fetch(p, n) ==
  /\ pc[p] = "fetch" /\ pos[p] < Length
  /\ Work(p, pos[p], n)
  /\ pos' = [pos EXCEPT ![p] = @ + 1]

TakeSlot(p) ==
  /\ pc[p] = "slot" /\ sem < MaxUncommitted
  /\ sem' = sem + 1
  /\ pc' = [pc EXCEPT ![p] = "push"]
  /\ UNCHANGED <<group, broker, pos, cur, pipeline, controller, exit>>

NextAfter(n) == IF n = 0 THEN "fetch" ELSE "emit"

\* The message is handed over to the controller, which queues it unless it is there
\* ("normally it is never happens": kafka-go returns a message once in a generation).
Push(p) ==
  LET o == cur[p].off
      n == cur[p].n
  IN /\ pc[p] = "push" /\ ctl = "run"
     /\ pc' = [pc EXCEPT ![p] = NextAfter(n)]
     /\ IF o \in Queued(p)
        THEN sem' = sem - 1 /\ UNCHANGED controller
        ELSE /\ queue' = [queue EXCEPT ![p] = Append(@, o)]
             /\ left' = [left EXCEPT ![p][o] = n]
             /\ ready' = [ready EXCEPT ![p] = IF n = 0 THEN @ \cup {o} ELSE @ \ {o}]
             /\ UNCHANGED sem
     /\ UNCHANGED <<group, broker, pos, cur, pipeline, exit>>

\* The next event is sent into the pipeline.
Emit(p) ==
  LET o == cur[p].off
      n == cur[p].n - 1
  IN /\ pc[p] = "emit"
     /\ pc' = [pc EXCEPT ![p] = NextAfter(n)]
     /\ cur' = [cur EXCEPT ![p].n = n]
     /\ flying' = [flying EXCEPT ![p][o] = @ + 1]
     /\ UNCHANGED <<group, broker, pos, todo, sem, controller, exit>>

\* FetchMessage fails: the context is cancelled.
LeaveLoop(p) ==
  /\ pc[p] = "fetch" /\ phase = "ending"
  /\ pc' = [pc EXCEPT ![p] = "exit"]
  /\ UNCHANGED <<group, broker, pos, cur, pipeline, sem, controller, exit>>

\* doneCh is closed: the reader returns.
ReaderDone(p) ==
  /\ pc[p] = "wait" /\ ctl = "done"
  /\ pc' = [pc EXCEPT ![p] = "off"]
  /\ UNCHANGED <<group, broker, pos, cur, pipeline, sem, controller, exit>>

-----------------------------------------------------------------------------
(* The controller.                                                         *)

Remaining(n) == IF n = 0 THEN 0 ELSE n - 1

\* The hook of an event, called where the event is delivered or dropped.
Deliver(p, o) ==
  /\ flying[p][o] > 0 /\ ctl = "run"
  /\ flying' = [flying EXCEPT ![p][o] = @ - 1]
  /\ todo' = [todo EXCEPT ![p][o] = @ - 1]
  /\ handled' = IF todo[p][o] = 1 THEN handled \cup {<<p, o>>} ELSE handled
  /\ IF o \in Queued(p)
     THEN LET n == Remaining(left[p][o])
          IN /\ left' = [left EXCEPT ![p][o] = n]
             /\ ready' = IF n = 0 THEN [ready EXCEPT ![p] = @ \cup {o}] ELSE ready
             /\ UNCHANGED queue
     ELSE UNCHANGED controller
  /\ UNCHANGED <<group, committed, reader, sem, exit>>

\* Mutated form of Prefix: up to the last delivered message, behind others or not.
Prefix_Last(p) ==
  CHOOSE k \in 0 .. Len(queue[p]) :
    /\ k > 0 => queue[p][k] \in ready[p]
    /\ \A i \in k + 1 .. Len(queue[p]) : queue[p][i] \notin ready[p]

\* How many messages at the beginning of the queue of p are delivered.
Prefix(p) ==
  CHOOSE k \in 0 .. Len(queue[p]) :
    /\ \A i \in 1 .. k : queue[p][i] \in ready[p]
    /\ k < Len(queue[p]) => queue[p][k + 1] \notin ready[p]

\* Mutated form of Cleaned: the queue is cleaned only if the commit succeeded.
Cleaned_Committed(p, ok) == IF p \in ok THEN Prefix(p) ELSE 0

\* How many messages leave the queue of p, whether the commit succeeds or not.
Cleaned(p, ok) == Prefix(p)

\* The messages that leave the queues, and with them their slots.
Gone(ok) ==
  {m \in Parts \X Offsets : \E i \in 1 .. Cleaned(m[1], ok) : queue[m[1]][i] = m[2]}

\* Mutated form of ExitDue: the controller leaves without looking at the semaphore.
ExitDue_Now(n) == TRUE

ExitDue(n) == n = 0

\* Mutated form of TickExits: only the last reader's signal ends the controller.
TickExits_Never(n) == FALSE

TickExits(n) == exiting /\ ExitDue(n)

\* The commit phase: ok are the partitions whose offset the broker accepts.
Tick(ok) ==
  /\ ctl = "run"
  /\ committed' = [p \in Parts |-> IF p \in ok /\ Prefix(p) > 0
                                  THEN queue[p][Prefix(p)] + 1 ELSE committed[p]]
  /\ queue' = [p \in Parts |-> SubSeq(queue[p], Cleaned(p, ok) + 1, Len(queue[p]))]
  /\ sem' = sem - Cardinality(Gone(ok))
  /\ ctl' = IF TickExits(sem') THEN "done" ELSE ctl
  /\ UNCHANGED <<group, handled, reader, pipeline, left, ready, readers, exiting>>

\* A reader has left its loop.
ReaderExit(p) ==
  /\ pc[p] = "exit" /\ ctl = "run"
  /\ pc' = [pc EXCEPT ![p] = "wait"]
  /\ readers' = readers - 1
  /\ exiting' = (readers' <= 0)
  /\ ctl' = IF exiting' /\ ExitDue(sem) THEN "done" ELSE ctl
  /\ UNCHANGED <<group, broker, pos, cur, pipeline, sem, controller>>

ReaderStep(p) ==
  \/ TakeSlot(p) \/ Push(p) \/ Emit(p)
  \/ LeaveLoop(p) \/ ReaderExit(p) \/ ReaderDone(p)
  \/ \E n \in Counts : Fetch(p, n)

Commit == \E ok \in SUBSET Parts : Tick(ok)

Next ==
  \/ Begin \/ Stop \/ EndGeneration \/ GenerationOver \/ Leave \/ Crash
  \/ \E p \in Parts : ReaderStep(p)
  \/ \E p \in Parts, o \in Offsets : Deliver(p, o)
  \/ Commit

Spec == Init /\ [][Next]_vars

(***************************************************************************)
(* Goroutines take the steps they can, the ticker ticks, and the pipeline  *)
(* delivers every event (EventFlow: EventsAcknowledged).  The broker owes  *)
(* no generation and no successful commit, so the tick that must come is   *)
(* one where every commit fails; cg.Close ends the generation there is.    *)
(***************************************************************************)
Fairness ==
  /\ \A p \in Parts : WF_vars(ReaderStep(p))
  /\ \A p \in Parts, o \in Offsets : WF_vars(Deliver(p, o))
  /\ WF_vars(Tick({}))
  /\ WF_vars(stopping /\ EndGeneration) /\ WF_vars(GenerationOver) /\ WF_vars(Leave)

FairSpec == Spec /\ Fairness

-----------------------------------------------------------------------------
(* Properties.                                                             *)

\* The slots that are taken: of queued messages, and of readers about to queue one.
Slots == {m \in Parts \X Offsets : m[2] \in Queued(m[1])}
Pushing == {p \in Parts : pc[p] = "push"}

\* The semaphore counts the messages that are not committed, so a queue that is
\* empty lets the controller exit and a message that leaves frees its slot.
SemaphoreCounts == sem = Cardinality(Slots) + Cardinality(Pushing)

\* When the controller has closed doneCh nobody will send to it any more: no event
\* whose hook would wait for it is in the pipeline, and no reader is in its loop.
DoneIsClean ==
  ctl = "done" =>
    /\ \A p \in Parts : pc[p] \in {"wait", "off"} /\ queue[p] = <<>>
    /\ \A p \in Parts, o \in Offsets : flying[p][o] = 0

\* A message leaves the queue of the controller again, so a full semaphore never
\* stops a reader for good, even if every commit fails.
QueueMoves ==
  \A p \in Parts, o \in Offsets : o \in Queued(p) ~> o \notin Queued(p)

\* An input that is told to stop leaves the group after its events are delivered.
Leaves == stopping ~> (phase = "left" \/ ~stopping)

\* The input confirms only what was handled, over generations and crashes.
Contract == INSTANCE SourceContract
              WITH Messages <- Parts \X Offsets,
                   confirmed <- {m \in Parts \X Offsets : m[2] < committed[m[1]]}

CommitSpec == Contract!Spec
=============================================================================
