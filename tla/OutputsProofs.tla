----------------------------- MODULE OutputsProofs ----------------------------
(***************************************************************************)
(* Every batching output reports each event once, and truly, for any       *)
(* number of events, keys, writers, attempts and fallbacks, and any size   *)
(* of a batch.                                                             *)
(***************************************************************************)
EXTENDS Outputs, TLAPS

\* An event is in one place: in the channel, in the hands of Run, in one batch, or
\* reported.
PlaceInv ==
  /\ hand # None <=> loop = "push"
  /\ hand \notin inbox
  /\ \A e \in inbox : reports[e] = 0 /\ \A w \in Writers : e \notin buf[w]
  /\ hand # None => reports[hand] = 0 /\ \A w \in Writers : hand \notin buf[w]
  /\ \A w \in Writers : \A e \in buf[w] : reports[e] = 0
  /\ \A w \in Writers : \A v \in Writers \ {w} : buf[v] \cap buf[w] = {}

\* The pool lists the writers that are open, each for one key, and what has ended holds
\* nothing.
PoolInv ==
  /\ OpenIsListed
  /\ \A k, l \in Keys : pool[k] = pool[l] /\ pool[k] # None => k = l
  /\ \A w \in Writers : phase[w] = "off" => buf[w] = {}
  /\ cfg.direct => loop \in {"wait", "returned"} /\ \A w \in Writers : shut[w]
  /\ ~cfg.direct /\ loop \in {"wait", "returned"} =>
       /\ closed /\ inbox = {}
       /\ \A k \in Keys : pool[k] = None
  /\ loop = "returned" => \A w \in Writers : phase[w] = "off"

\* An output without a pool has its one writer until In is closed and empty.
SelfInv ==
  cfg.direct => \/ \E w \in Writers : phase[w] # "off"
                \/ closed /\ inbox = {}

\* The messages still to be sent are those of the batch that are not settled.
StatusInv ==
  /\ good = acked \cup lost
  /\ \A w \in Writers : phase[w] = "write" =>
       /\ todo[w] \subseteq buf[w]
       /\ todo[w] \cap acked = {} /\ todo[w] \cap lost = {}
  /\ \A e \in acked \cup lost :
       \/ reports[e] > 0
       \/ \E w \in Writers : e \in buf[w] /\ e \in Tried(w) /\ phase[w] \in {"write", "report"}

\* What leaves an attempt is settled, or no attempt is left.
GiveUpInv ==
  /\ \A w \in Writers : phase[w] = "write" =>
       Tried(w) \ todo[w] \subseteq acked \cup lost \cup refused
  /\ GivenUpLast

Inv ==
  /\ TypeOK
  /\ PlaceInv
  /\ PoolInv
  /\ SelfInv
  /\ StatusInv
  /\ GiveUpInv

USE OutputAssumption DEF OutputAssumption

\* The settings of every plugin are numbers.
LEMMA SettingsAre ==
  \A c \in Settings : /\ c.size \in Nat /\ c.limit \in Nat /\ c.others \in Nat
                      /\ c.direct \in BOOLEAN
<1> TAKE c \in Settings
<1>1. PICK o \in Options :
        c \in {Kafka(o), Elasticsearch(o), Opensearch(o), Sql(o), Http(o), RabbitMQ(o),
               GrpcStream(o), GrpcUnary(o), Promremote(o), Exec(o), Log(o)}
  BY DEF Settings
<1>2. o.buffer \in Nat /\ o.attempts \in Nat /\ o.fallbacks \in Nat
  OBVIOUS
<1>3. AtLeastOne(o.buffer) \in Nat
  BY <1>2 DEF AtLeastOne
<1>4. ASSUME NEW kind, c = Pooled(kind, o)
      PROVE  /\ c.size \in Nat /\ c.limit \in Nat /\ c.others \in Nat
             /\ c.direct \in BOOLEAN
  BY <1>2, <1>3, <1>4 DEF Pooled
<1>5. CASE c = Http(o)
  BY <1>2, <1>3, <1>5 DEF Pooled, Http
<1>6. CASE c = RabbitMQ(o)
  BY <1>2, <1>3, <1>6 DEF Pooled, RabbitMQ
<1>7. CASE c = Promremote(o)
  BY <1>2, <1>3, <1>7 DEF Pooled, Promremote
<1>8. CASE c = Exec(o)
  BY <1>2, <1>3, <1>8 DEF Pooled, Exec
<1>9. CASE c = Log(o)
  BY <1>2, <1>3, <1>9 DEF Pooled, Log
<1>10. CASE c = GrpcUnary(o)
  BY <1>2, <1>3, <1>10 DEF Pooled, GrpcUnary
<1>11. CASE c = GrpcStream(o)
  BY <1>2, <1>3, <1>11 DEF Pooled, GrpcStream
<1> QED
  BY <1>1, <1>4, <1>5, <1>6, <1>7, <1>8, <1>9, <1>10, <1>11
     DEF Kafka, Elasticsearch, Opensearch, Sql

\* A unary call is about one message: it is delivered or not.
Whole(w, ok) == cfg.kind = "grpc_unary" => ok = todo[w]

\* What a step of a writer is, whatever the plugin.
LEMMA WriterCases ==
  ASSUME NEW w \in Writers, WriterStep(w)
  PROVE  \/ Flush(w) \/ EndWriter(w) \/ Prepared(w) \/ NoneLeft(w)
         \/ Spoil(w) /\ cfg.kind # "grpc_unary"
         \/ \E e \in Events : \/ Receive(w, e) \/ Report(w, e)
                              \/ Skip(w, e) \/ TooLarge(w, e)
         \/ \E ok \in SUBSET todo[w] : \E again \in SUBSET (todo[w] \ ok) :
              Written(w, ok, again) /\ Whole(w, ok)
         \/ \E ok \in SUBSET todo[w] : Indexed(w, ok)
         \/ \E acks \in SUBSET todo[w] : \E gone \in SUBSET (todo[w] \ acks) :
              Confirmed(w, acks, gone) /\ cfg.kind # "grpc_unary"
         \/ \E temporary \in BOOLEAN : Failed(w, temporary)
<1>1. ASSUME Accepted(w)
      PROVE  \E ok \in SUBSET todo[w] : \E again \in SUBSET (todo[w] \ ok) :
               Written(w, ok, again) /\ Whole(w, ok)
  <2>1. todo[w] \in SUBSET todo[w] /\ {} \in SUBSET (todo[w] \ todo[w])
    OBVIOUS
  <2> QED
    BY <1>1, <2>1 DEF Accepted, Whole
<1>2. ASSUME TopicWriter(w)
      PROVE  cfg.kind # "grpc_unary"
  BY <1>2 DEF TopicWriter
<1>3. ASSUME PublisherProduce(w)
      PROVE  cfg.kind # "grpc_unary"
  BY <1>3 DEF PublisherProduce
<1>4. ASSUME Requester(w) \/ Marshal(w)
      PROVE  cfg.kind # "grpc_unary"
  BY <1>4 DEF Requester, Marshal
<1>5. cfg.kind # "grpc_unary" => \A ok : Whole(w, ok)
  BY DEF Whole
<1> QED
  BY <1>1, <1>2, <1>3, <1>4, <1>5 DEF WriterStep, PluginStep, TopicWriter, Indexer, IndexerPerform,
       OpensearchIndexer, Requester, RequesterPerform, Querier, Publisher,
       PublisherProduce, SendBulk, SendUnary, Marshal, WriteWithFallback, Unpack, Command, Write

-----------------------------------------------------------------------------
(* Type correctness.                                                       *)

LEMMA TypeStep == TypeOK /\ PlaceInv /\ [Next]_vars => TypeOK'
<1> SUFFICES ASSUME TypeOK, PlaceInv, [Next]_vars PROVE TypeOK'
  OBVIOUS
<1>a. cfg.limit \in Nat /\ cfg.others \in Nat
  BY SettingsAre DEF TypeOK
<1>1. ASSUME NEW e \in Events, Arrive(e) PROVE TypeOK'
  BY <1>1 DEF Arrive, TypeOK, writer, batch, broker, status
<1>2. CASE CloseIn
  BY <1>2 DEF CloseIn, TypeOK, writer, batch, broker, status
<1>3. ASSUME NEW e \in Events, NEW k \in Keys, NEW w \in Writers, Take(e, k, w)
      PROVE  TypeOK'
  <2>1. /\ pool' \in [Keys -> Writers \cup {None}] /\ shut' \in [Writers -> BOOLEAN]
        /\ phase' \in [Writers -> {"off", "collect", "prepare", "write", "report"}]
    <3>1. CASE pool[k] # None
      BY <1>3, <3>1 DEF Take, Get, Known, TypeOK
    <3>2. CASE pool[k] = None
      <4>1. /\ pool' = [pool EXCEPT ![k] = w] /\ phase' = [phase EXCEPT ![w] = "collect"]
            /\ shut' = [shut EXCEPT ![w] = FALSE]
        BY <1>3, <3>2 DEF Take, Get, Known
      <4> QED
        BY <4>1 DEF TypeOK
    <3> QED
      BY <3>1, <3>2
  <2> QED
    BY <1>3, <2>1 DEF Take, TypeOK, batch, broker, status
<1>4. CASE Push
  <2>1. buf' \in [Writers -> SUBSET Events]
    BY <1>4 DEF Push, TypeOK, PlaceInv
  <2>2. PICK new : new = IF Cardinality(buf'[aim]) = cfg.size THEN "prepare" ELSE "collect"
    OBVIOUS
  <2>3. phase' = [phase EXCEPT ![aim] = new] /\ new \in {"prepare", "collect"}
    BY <1>4, <2>2 DEF Push, TypeOK
  <2> QED
    BY <1>4, <2>1, <2>3 DEF Push, TypeOK, broker, status
<1>5. CASE ClosePool
  BY <1>5 DEF ClosePool, Shut, TypeOK, batch, broker, status
<1>6. CASE Return
  BY <1>6 DEF Return, TypeOK, writer, batch, broker, status
<1>7. ASSUME NEW k \in Keys, Remove(k) PROVE TypeOK'
  BY <1>7 DEF Remove, Unlisted, TypeOK, batch, broker, status
<1>8. ASSUME NEW w \in Writers, WriterStep(w) PROVE TypeOK'
  <2>1. CASE Flush(w)
    BY <2>1, <1>a DEF Flush, Flushable, run, batch, broker, status, AtLeastOne,
         MayRetry, TypeOK
  <2>2. CASE EndWriter(w)
    BY <2>2, <1>a DEF EndWriter, InputEnded, run, batch, broker, status, AtLeastOne,
         MayRetry, TypeOK
  <2>3. CASE Prepared(w)
    BY <2>3, <1>a DEF Prepared, Portions, run, broker, status, AtLeastOne, MayRetry, TypeOK
  <2>4. CASE NoneLeft(w)
    BY <2>4, <1>a DEF NoneLeft, Settled, run, broker, status, AtLeastOne, MayRetry,
         TypeOK
  <2>5. CASE Spoil(w)
    BY <2>5, <1>a DEF Spoil, run, batch, status, AtLeastOne, MayRetry, TypeOK
  <2>6. ASSUME NEW e \in Events, Receive(w, e) PROVE TypeOK'
    BY <2>6, <1>a DEF Receive, broker, status, AtLeastOne, MayRetry, TypeOK
  <2>7. ASSUME NEW e \in Events, Report(w, e) PROVE TypeOK'
    BY <2>7, <1>a DEF Report, AfterReport, Done, run, broker, AtLeastOne, MayRetry, TypeOK
  <2>8. ASSUME NEW e \in Events, Skip(w, e) PROVE TypeOK'
    BY <2>8, <1>a DEF Skip, Done, run, AtLeastOne, MayRetry, TypeOK
  <2>9. ASSUME NEW e \in Events, TooLarge(w, e) PROVE TypeOK'
    BY <2>9, <1>a DEF TooLarge, Attempt, Again, NextAddress, Settled, run, AtLeastOne,
         MayRetry, TypeOK
  <2>10. ASSUME NEW ok \in SUBSET todo[w], NEW again \in SUBSET (todo[w] \ ok),
               Written(w, ok, again)
        PROVE  TypeOK'
    BY <2>10, <1>a DEF Written, Attempt, Verdict, Again, NextAddress, Settled, run,
         AtLeastOne, MayRetry, TypeOK
  <2>11. ASSUME NEW ok \in SUBSET todo[w], Indexed(w, ok) PROVE TypeOK'
    BY <2>11, <1>a DEF Indexed, Attempt, Verdict, Settled, run, AtLeastOne, MayRetry,
         TypeOK
  <2>12. ASSUME NEW acks \in SUBSET todo[w], NEW gone \in SUBSET (todo[w] \ acks),
               Confirmed(w, acks, gone)
        PROVE  TypeOK'
    BY <2>12, <1>a DEF Confirmed, Unconfirmed, Attempt, Verdict, Again, NextAddress,
         Settled, run, AtLeastOne, MayRetry, TypeOK
  <2>13. ASSUME NEW temporary \in BOOLEAN, Failed(w, temporary) PROVE TypeOK'
    BY <2>13, <1>a DEF Failed, Attempt, Verdict, Again, NextAddress, Settled, run,
         AtLeastOne, MayRetry, TypeOK
  <2> QED
    BY <1>8, WriterCases, <2>1, <2>2, <2>3, <2>4, <2>5, <2>6, <2>7, <2>8, <2>9, <2>10,
         <2>11, <2>12, <2>13
<1>10. ASSUME NEW e \in Events, NoMethod(e) PROVE TypeOK'
  BY <1>10 DEF NoMethod, TypeOK, writer, batch
<1>9. CASE UNCHANGED vars
  BY <1>9 DEF TypeOK, vars, run, writer, batch, broker, status
<1> QED
  BY <1>1, <1>2, <1>3, <1>4, <1>5, <1>6, <1>7, <1>8, <1>9, <1>10 DEF Next, LoopStep


LEMMA PlaceStep == Inv /\ [Next]_vars => PlaceInv'
<1> SUFFICES ASSUME Inv, [Next]_vars PROVE PlaceInv'
  OBVIOUS
<1>1. ASSUME NEW e \in Events, Arrive(e) PROVE PlaceInv'
  BY <1>1 DEF Arrive, Held, writer, batch, broker, status, Inv, TypeOK, PlaceInv
<1>2. CASE CloseIn
  BY <1>2 DEF CloseIn, writer, batch, broker, status, Inv, TypeOK, PlaceInv
<1>3. ASSUME NEW e \in Events, NEW k \in Keys, NEW w \in Writers, Take(e, k, w)
      PROVE  PlaceInv'
  BY <1>3 DEF Take, Get, Known, batch, broker, status, Inv, TypeOK, PlaceInv
<1>4. CASE Push
  BY <1>4 DEF Push, broker, status, Inv, TypeOK, PlaceInv
<1>5. CASE ClosePool
  BY <1>5 DEF ClosePool, Shut, batch, broker, status, Inv, TypeOK, PlaceInv
<1>6. CASE Return
  BY <1>6 DEF Return, Running, writer, batch, broker, status, Inv, TypeOK, PlaceInv
<1>7. ASSUME NEW k \in Keys, Remove(k) PROVE PlaceInv'
  BY <1>7 DEF Remove, Unlisted, batch, broker, status, Inv, TypeOK, PlaceInv
<1>8. ASSUME NEW w \in Writers, WriterStep(w) PROVE PlaceInv'
  <2>1. CASE Flush(w)
    BY <2>1 DEF Flush, Flushable, run, batch, broker, status, Inv, TypeOK, PlaceInv
  <2>2. CASE EndWriter(w)
    BY <2>2 DEF EndWriter, InputEnded, run, batch, broker, status, Inv, TypeOK, PlaceInv
  <2>3. CASE Prepared(w)
    BY <2>3 DEF Prepared, Portions, run, broker, status, Inv, TypeOK, PlaceInv
  <2>4. CASE NoneLeft(w)
    BY <2>4 DEF NoneLeft, Settled, run, broker, status, Inv, TypeOK, PlaceInv
  <2>5. CASE Spoil(w)
    BY <2>5 DEF Spoil, run, batch, status, Inv, TypeOK, PlaceInv
  <2>6. ASSUME NEW e \in Events, Receive(w, e) PROVE PlaceInv'
    BY <2>6 DEF Receive, broker, status, Inv, TypeOK, PlaceInv
  <2>7. ASSUME NEW e \in Events, Report(w, e) PROVE PlaceInv'
    BY <2>7 DEF Report, AfterReport, Done, run, broker, Inv, TypeOK, PlaceInv
  <2>8. ASSUME NEW e \in Events, Skip(w, e) PROVE PlaceInv'
    BY <2>8 DEF Skip, Done, run, Inv, TypeOK, PlaceInv
  <2>9. ASSUME NEW e \in Events, TooLarge(w, e) PROVE PlaceInv'
    BY <2>9 DEF TooLarge, Attempt, Again, NextAddress, Settled, run, Inv, TypeOK,
         PlaceInv
  <2>10. ASSUME NEW ok \in SUBSET todo[w], NEW again \in SUBSET (todo[w] \ ok),
               Written(w, ok, again)
        PROVE  PlaceInv'
    BY <2>10 DEF Written, Attempt, Verdict, Again, NextAddress, Settled, run, Inv,
         TypeOK, PlaceInv
  <2>11. ASSUME NEW ok \in SUBSET todo[w], Indexed(w, ok) PROVE PlaceInv'
    BY <2>11 DEF Indexed, Attempt, Verdict, Settled, run, Inv, TypeOK, PlaceInv
  <2>12. ASSUME NEW acks \in SUBSET todo[w], NEW gone \in SUBSET (todo[w] \ acks),
               Confirmed(w, acks, gone)
        PROVE  PlaceInv'
    BY <2>12 DEF Confirmed, Unconfirmed, Attempt, Verdict, Again, NextAddress, Settled,
         run, Inv, TypeOK, PlaceInv
  <2>13. ASSUME NEW temporary \in BOOLEAN, Failed(w, temporary) PROVE PlaceInv'
    BY <2>13 DEF Failed, Attempt, Verdict, Again, NextAddress, Settled, run, Inv,
         TypeOK, PlaceInv
  <2> QED
    BY <1>8, WriterCases, <2>1, <2>2, <2>3, <2>4, <2>5, <2>6, <2>7, <2>8, <2>9, <2>10,
         <2>11, <2>12, <2>13
<1>10. ASSUME NEW e \in Events, NoMethod(e) PROVE PlaceInv'
  BY <1>10 DEF NoMethod, writer, batch, Inv, TypeOK, PlaceInv
<1>9. CASE UNCHANGED vars
  BY <1>9 DEF vars, run, writer, batch, broker, status, Inv, TypeOK, PlaceInv
<1> QED
  BY <1>1, <1>2, <1>3, <1>4, <1>5, <1>6, <1>7, <1>8, <1>9, <1>10 DEF Next, LoopStep

-----------------------------------------------------------------------------
(* The pool.                                                               *)

\* What the range of the pool is.
LEMMA Listed ==
  ASSUME TypeOK
  PROVE  \A w : w \in Range(pool) <=> \E k \in Keys : pool[k] = w
BY DEF TypeOK, Range

LEMMA PoolStep == Inv /\ [Next]_vars => PoolInv'
<1> SUFFICES ASSUME Inv, [Next]_vars PROVE PoolInv'
  OBVIOUS
<1>a. \A w : w \in Range(pool) <=> \E k \in Keys : pool[k] = w
  BY Listed DEF Inv
<1>b. \A w : w \in Range(pool') <=> \E k \in Keys : pool'[k] = w
  <2>1. TypeOK'
    BY TypeStep DEF Inv
  <2> QED
    BY <2>1 DEF TypeOK, Range
<1>1. ASSUME NEW e \in Events, Arrive(e) PROVE PoolInv'
  BY <1>1 DEF Arrive, Held, writer, batch, broker, status, Inv, TypeOK, PlaceInv,
       PoolInv, OpenIsListed
<1>2. CASE CloseIn
  BY <1>2 DEF CloseIn, writer, batch, broker, status, Inv, TypeOK, PlaceInv, PoolInv,
       OpenIsListed
<1>3. ASSUME NEW e \in Events, NEW k \in Keys, NEW w \in Writers, Take(e, k, w)
      PROVE  PoolInv'
  <2>1. CASE pool[k] # None
    <3>1. w = pool[k] /\ w \in Range(pool) /\ UNCHANGED <<pool, phase, shut>>
      BY <1>3, <2>1, <1>a DEF Take, Get, Known
    <3> QED
      BY <1>3, <3>1 DEF Take, Inv, PoolInv, OpenIsListed, batch
  <2>2. CASE pool[k] = None
    <3>1. /\ phase[w] = "off" /\ pool' = [pool EXCEPT ![k] = w]
          /\ phase' = [phase EXCEPT ![w] = "collect"]
          /\ shut' = [shut EXCEPT ![w] = FALSE]
      BY <1>3, <2>2 DEF Take, Get, Known
    <3>2. w \notin Range(pool) /\ \A l \in Keys : pool[l] # w
      BY <3>1, <1>a DEF Inv, PoolInv, OpenIsListed
    <3>3. \A l \in Keys : pool'[l] = IF l = k THEN w ELSE pool[l]
      BY <3>1 DEF Inv, TypeOK
    <3>4. \A v \in Writers : v \in Range(pool') <=> v = w \/ v \in Range(pool)
      BY <3>3, <2>2, <1>a, <1>b
    <3>5. OpenIsListed'
      <4>1. \A v \in Writers : v \in Range(pool') <=> phase'[v] # "off" /\ ~shut'[v]
        BY <3>1, <3>4 DEF Inv, TypeOK, PoolInv, OpenIsListed
      <4> QED
        BY <1>3, <3>4, <4>1 DEF Take, OpenIsListed
    <3>6. \A j, l \in Keys : pool'[j] = pool'[l] /\ pool'[j] # None => j = l
      BY <3>2, <3>3 DEF Inv, PoolInv
    <3>7. \A v \in Writers : phase'[v] = "off" => buf'[v] = {}
      BY <1>3, <3>1 DEF Take, batch, Inv, TypeOK, PoolInv
    <3>8. ~cfg'.direct /\ loop' = "push"
      BY <1>3 DEF Take, Inv, PoolInv
    <3> QED
      BY <3>5, <3>6, <3>7, <3>8 DEF PoolInv
  <2> QED
    BY <2>1, <2>2
<1>4. CASE Push
  BY <1>4 DEF Push, broker, status, Inv, TypeOK, PlaceInv, PoolInv, OpenIsListed
<1>5. CASE ClosePool
  <2>1. \A v \in Writers : v \notin Range(pool')
    BY <1>5, <1>b DEF ClosePool
  <2>2. \A v \in Writers : phase'[v] = "off" \/ shut'[v]
    BY <1>5 DEF ClosePool, Shut, Inv, PoolInv, OpenIsListed
  <2>3. OpenIsListed'
    BY <1>5, <2>1, <2>2 DEF ClosePool, OpenIsListed
  <2> QED
    BY <1>5, <2>3 DEF ClosePool, batch, Inv, PoolInv
<1>6. CASE Return
  BY <1>6 DEF Return, Running, writer, batch, broker, status, Inv, TypeOK, PlaceInv,
       PoolInv, OpenIsListed
<1>7. ASSUME NEW k \in Keys, Remove(k) PROVE PoolInv'
  <2>1. PICK w \in Writers : w = pool[k]
    BY <1>7 DEF Remove, Inv, TypeOK
  <2>2. /\ pool' = [pool EXCEPT ![k] = None] /\ shut' = [shut EXCEPT ![w] = TRUE]
        /\ loop = "select" /\ UNCHANGED <<loop, phase, buf>>
    BY <1>7, <2>1 DEF Remove, Unlisted, batch
  <2>3. \A l \in Keys : pool'[l] = IF l = k THEN None ELSE pool[l]
    BY <2>2 DEF Inv, TypeOK
  <2>4. \A l \in Keys : pool[l] = w => l = k
    BY <2>1 DEF Inv, PoolInv
  <2>5. \A v \in Writers : v \in Range(pool') <=> v # w /\ v \in Range(pool)
    BY <2>1, <2>3, <2>4, <1>a, <1>b
  <2>6. OpenIsListed'
    BY <2>2, <2>5 DEF Inv, TypeOK, PoolInv, OpenIsListed
  <2>7. \A j, l \in Keys : pool'[j] = pool'[l] /\ pool'[j] # None => j = l
    BY <2>3 DEF Inv, PoolInv
  <2>8. ~cfg'.direct /\ loop' = "select"
    BY <1>7 DEF Remove, Inv, PoolInv
  <2>9. \A v \in Writers : phase'[v] = "off" => buf'[v] = {}
    BY <1>7 DEF Remove, batch, Inv, PoolInv
  <2> QED
    BY <2>6, <2>7, <2>8, <2>9 DEF PoolInv
<1>8. ASSUME NEW w \in Writers, WriterStep(w) PROVE PoolInv'
  <2>1. CASE Flush(w)
    BY <2>1 DEF Flush, Flushable, run, batch, broker, status, Inv, TypeOK, PlaceInv,
         PoolInv, OpenIsListed
  <2>2. CASE EndWriter(w)
    BY <2>2 DEF EndWriter, InputEnded, run, batch, broker, status, Inv, TypeOK,
         PlaceInv, PoolInv, OpenIsListed
  <2>3. CASE Prepared(w)
    BY <2>3 DEF Prepared, Portions, run, broker, status, Inv, TypeOK, PlaceInv, PoolInv,
         OpenIsListed
  <2>4. CASE NoneLeft(w)
    BY <2>4 DEF NoneLeft, Settled, run, broker, status, Inv, TypeOK, PlaceInv, PoolInv,
         OpenIsListed
  <2>5. CASE Spoil(w)
    BY <2>5 DEF Spoil, run, batch, status, Inv, TypeOK, PlaceInv, PoolInv, OpenIsListed
  <2>6. ASSUME NEW e \in Events, Receive(w, e) PROVE PoolInv'
    BY <2>6 DEF Receive, broker, status, Inv, TypeOK, PlaceInv, PoolInv, OpenIsListed
  <2>7. ASSUME NEW e \in Events, Report(w, e) PROVE PoolInv'
    BY <2>7 DEF Report, AfterReport, Done, run, broker, Inv, TypeOK, PlaceInv, PoolInv, OpenIsListed
  <2>8. ASSUME NEW e \in Events, Skip(w, e) PROVE PoolInv'
    BY <2>8 DEF Skip, Done, run, Inv, TypeOK, PlaceInv, PoolInv, OpenIsListed
  <2>9. ASSUME NEW e \in Events, TooLarge(w, e) PROVE PoolInv'
    BY <2>9 DEF TooLarge, Attempt, Again, NextAddress, Settled, run, Inv, TypeOK,
         PlaceInv, PoolInv, OpenIsListed
  <2>10. ASSUME NEW ok \in SUBSET todo[w], NEW again \in SUBSET (todo[w] \ ok),
               Written(w, ok, again)
        PROVE  PoolInv'
    BY <2>10 DEF Written, Attempt, Verdict, Again, NextAddress, Settled, run, Inv,
         TypeOK, PlaceInv, PoolInv, OpenIsListed
  <2>11. ASSUME NEW ok \in SUBSET todo[w], Indexed(w, ok) PROVE PoolInv'
    BY <2>11 DEF Indexed, Attempt, Verdict, Settled, run, Inv, TypeOK, PlaceInv,
         PoolInv, OpenIsListed
  <2>12. ASSUME NEW acks \in SUBSET todo[w], NEW gone \in SUBSET (todo[w] \ acks),
               Confirmed(w, acks, gone)
        PROVE  PoolInv'
    BY <2>12 DEF Confirmed, Unconfirmed, Attempt, Verdict, Again, NextAddress, Settled,
         run, Inv, TypeOK, PlaceInv, PoolInv, OpenIsListed
  <2>13. ASSUME NEW temporary \in BOOLEAN, Failed(w, temporary) PROVE PoolInv'
    BY <2>13 DEF Failed, Attempt, Verdict, Again, NextAddress, Settled, run, Inv,
         TypeOK, PlaceInv, PoolInv, OpenIsListed
  <2> QED
    BY <1>8, WriterCases, <2>1, <2>2, <2>3, <2>4, <2>5, <2>6, <2>7, <2>8, <2>9, <2>10,
         <2>11, <2>12, <2>13
<1>10. ASSUME NEW e \in Events, NoMethod(e) PROVE PoolInv'
  BY <1>10 DEF NoMethod, writer, batch, Inv, TypeOK, PlaceInv, PoolInv, OpenIsListed
<1>9. CASE UNCHANGED vars
  BY <1>9 DEF vars, run, writer, batch, broker, status, Inv, TypeOK, PlaceInv, PoolInv,
       OpenIsListed
<1> QED
  BY <1>1, <1>2, <1>3, <1>4, <1>5, <1>6, <1>7, <1>8, <1>9, <1>10 DEF Next, LoopStep

LEMMA StatusStep == Inv /\ [Next]_vars => StatusInv'
<1> SUFFICES ASSUME Inv, [Next]_vars PROVE StatusInv'
  OBVIOUS
<1>1. ASSUME NEW e \in Events, Arrive(e) PROVE StatusInv'
  BY <1>1 DEF Arrive, Held, writer, batch, broker, status, Inv, TypeOK, PlaceInv,
       StatusInv, Tried
<1>2. CASE CloseIn
  BY <1>2 DEF CloseIn, writer, batch, broker, status, Inv, TypeOK, PlaceInv, StatusInv, Tried
<1>3. ASSUME NEW e \in Events, NEW k \in Keys, NEW w \in Writers, Take(e, k, w)
      PROVE  StatusInv'
  BY <1>3 DEF Take, Get, Known, batch, broker, status, Inv, TypeOK, PlaceInv,
       StatusInv, Tried
<1>4. CASE Push
  BY <1>4 DEF Push, broker, status, Inv, TypeOK, PlaceInv, StatusInv, Tried
<1>5. CASE ClosePool
  BY <1>5 DEF ClosePool, Shut, batch, broker, status, Inv, TypeOK, PlaceInv, StatusInv, Tried
<1>6. CASE Return
  BY <1>6 DEF Return, Running, writer, batch, broker, status, Inv, TypeOK, PlaceInv,
       StatusInv, Tried
<1>7. ASSUME NEW k \in Keys, Remove(k) PROVE StatusInv'
  BY <1>7 DEF Remove, Unlisted, batch, broker, status, Inv, TypeOK, PlaceInv,
       StatusInv, Tried
<1>8. ASSUME NEW w \in Writers, WriterStep(w) PROVE StatusInv'
  <2>1. CASE Flush(w)
    BY <2>1 DEF Flush, Flushable, run, batch, broker, status, Inv, TypeOK, PlaceInv,
         StatusInv, Tried
  <2>2. CASE EndWriter(w)
    BY <2>2 DEF EndWriter, InputEnded, run, batch, broker, status, Inv, TypeOK,
         PlaceInv, StatusInv, Tried
  <2>3. CASE Prepared(w)
    BY <2>3 DEF Prepared, Portions, run, broker, status, Inv, TypeOK, PlaceInv, StatusInv, Tried
  <2>4. CASE NoneLeft(w)
    BY <2>4 DEF NoneLeft, Settled, run, broker, status, Inv, TypeOK, PlaceInv, StatusInv, Tried
  <2>5. CASE Spoil(w)
    BY <2>5 DEF Spoil, run, batch, status, Inv, TypeOK, PlaceInv, StatusInv, Tried
  <2>6. ASSUME NEW e \in Events, Receive(w, e) PROVE StatusInv'
    BY <2>6 DEF Receive, broker, status, Inv, TypeOK, PlaceInv, StatusInv, Tried
  <2>7. ASSUME NEW e \in Events, Report(w, e) PROVE StatusInv'
    BY <2>7 DEF Report, AfterReport, Done, run, broker, Inv, TypeOK, PlaceInv, StatusInv, Tried
  <2>8. ASSUME NEW e \in Events, Skip(w, e) PROVE StatusInv'
    BY <2>8 DEF Skip, Done, run, Inv, TypeOK, PlaceInv, StatusInv, Tried
  <2>9. ASSUME NEW e \in Events, TooLarge(w, e) PROVE StatusInv'
    BY <2>9 DEF TooLarge, Attempt, Again, NextAddress, Settled, run, Inv, TypeOK,
         PlaceInv, StatusInv, Tried
  <2>10. ASSUME NEW ok \in SUBSET todo[w], NEW again \in SUBSET (todo[w] \ ok),
               Written(w, ok, again), Whole(w, ok)
        PROVE  StatusInv'
    BY <2>10 DEF Written, Whole, Attempt, Verdict, Again, NextAddress, Settled, run, Inv,
         TypeOK, PlaceInv, StatusInv, Tried
  <2>11. ASSUME NEW ok \in SUBSET todo[w], Indexed(w, ok) PROVE StatusInv'
    BY <2>11 DEF Indexed, Attempt, Verdict, Settled, run, Inv, TypeOK, PlaceInv,
         StatusInv, Tried
  <2>12. ASSUME NEW acks \in SUBSET todo[w], NEW gone \in SUBSET (todo[w] \ acks),
               Confirmed(w, acks, gone), cfg.kind # "grpc_unary"
        PROVE  StatusInv'
    BY <2>12 DEF Confirmed, Unconfirmed, Attempt, Verdict, Again, NextAddress, Settled,
         run, Inv, TypeOK, PlaceInv, StatusInv, Tried
  <2>13. ASSUME NEW temporary \in BOOLEAN, Failed(w, temporary) PROVE StatusInv'
    BY <2>13 DEF Failed, Attempt, Verdict, Again, NextAddress, Settled, run, Inv,
         TypeOK, PlaceInv, StatusInv, Tried
  <2> QED
    BY <1>8, WriterCases, <2>1, <2>2, <2>3, <2>4, <2>5, <2>6, <2>7, <2>8, <2>9, <2>10,
         <2>11, <2>12, <2>13
<1>10. ASSUME NEW e \in Events, NoMethod(e) PROVE StatusInv'
  BY <1>10 DEF NoMethod, writer, batch, Inv, TypeOK, PlaceInv, StatusInv, Tried
<1>9. CASE UNCHANGED vars
  BY <1>9 DEF vars, run, writer, batch, broker, status, Inv, TypeOK, PlaceInv,
       StatusInv, Tried
<1> QED
  BY <1>1, <1>2, <1>3, <1>4, <1>5, <1>6, <1>7, <1>8, <1>9, <1>10 DEF Next, LoopStep

\* What follows a failed attempt: another one, or the report of an exhausted batch.
LEMMA AgainIs ==
  ASSUME TypeOK, NEW w \in Writers, Again(w), cfg' = cfg
  PROVE  /\ \A v \in Writers \ {w} : /\ phase'[v] = phase[v]
                                     /\ tries'[v] = tries[v] /\ addr'[v] = addr[v]
         /\ phase'[w] = phase[w] \/ (phase'[w] = "report" /\ Exhausted(w)')
<1>a. /\ cfg.limit \in Nat /\ cfg.others \in Nat
      /\ tries[w] \in 1 .. AtLeastOne(cfg.limit)
  BY SettingsAre DEF TypeOK
<1>1. CASE /\ MayRetry(tries[w])
           /\ tries' = [tries EXCEPT ![w] = IF cfg.limit = 0 THEN @ ELSE @ + 1]
           /\ UNCHANGED <<phase, addr>>
  BY <1>1 DEF TypeOK
<1>2. CASE ~MayRetry(tries[w]) /\ addr[w] < cfg.others /\ NextAddress(w)
  BY <1>2 DEF NextAddress, TypeOK
<1>3. CASE ~MayRetry(tries[w]) /\ addr[w] = cfg.others /\ Settled(w)
  <2>1. cfg.limit > 0 /\ tries[w] = cfg.limit
    BY <1>3, <1>a DEF MayRetry, AtLeastOne
  <2> QED
    BY <1>3, <2>1 DEF Settled, Exhausted, TypeOK
<1> QED
  BY <1>1, <1>2, <1>3 DEF Again

\* The same for the other writers when an attempt settles its batch.
LEMMA SettledIs ==
  ASSUME TypeOK, NEW w \in Writers, Settled(w)
  PROVE  /\ \A v \in Writers \ {w} : phase'[v] = phase[v]
         /\ phase'[w] = "report" /\ tries' = tries /\ addr' = addr
BY DEF Settled, TypeOK

LEMMA GiveUpStep == Inv /\ [Next]_vars => GiveUpInv'
<1> SUFFICES ASSUME Inv, [Next]_vars PROVE GiveUpInv'
  OBVIOUS
<1>a. cfg.limit \in Nat /\ cfg.others \in Nat
  BY SettingsAre DEF Inv, TypeOK
<1>1. ASSUME NEW e \in Events, Arrive(e) PROVE GiveUpInv'
  BY <1>1 DEF Arrive, Held, writer, batch, broker, status, Inv, TypeOK, PlaceInv,
       StatusInv, GiveUpInv, GivenUpLast, Exhausted, Tried
<1>2. CASE CloseIn
  BY <1>2 DEF CloseIn, writer, batch, broker, status, Inv, TypeOK, PlaceInv, StatusInv,
       GiveUpInv, GivenUpLast, Exhausted, Tried
<1>3. ASSUME NEW e \in Events, NEW k \in Keys, NEW w \in Writers, Take(e, k, w)
      PROVE  GiveUpInv'
  BY <1>3 DEF Take, Get, Known, batch, broker, status, Inv, TypeOK, PlaceInv,
       StatusInv, GiveUpInv, GivenUpLast, Exhausted, Tried
<1>4. CASE Push
  BY <1>4 DEF Push, broker, status, Inv, TypeOK, PlaceInv, StatusInv,
       GiveUpInv, GivenUpLast, Exhausted, Tried
<1>5. CASE ClosePool
  BY <1>5 DEF ClosePool, Shut, batch, broker, status, Inv, TypeOK, PlaceInv, StatusInv,
       GiveUpInv, GivenUpLast, Exhausted, Tried
<1>6. CASE Return
  BY <1>6 DEF Return, Running, writer, batch, broker, status, Inv, TypeOK, PlaceInv,
       StatusInv, GiveUpInv, GivenUpLast, Exhausted, Tried
<1>7. ASSUME NEW k \in Keys, Remove(k) PROVE GiveUpInv'
  BY <1>7 DEF Remove, Unlisted, batch, broker, status, Inv, TypeOK, PlaceInv,
       StatusInv, GiveUpInv, GivenUpLast, Exhausted, Tried
<1>8. ASSUME NEW w \in Writers, WriterStep(w) PROVE GiveUpInv'
  <2>1. CASE Flush(w)
    BY <2>1, <1>a DEF Flush, Flushable, run, batch, broker, status, Inv, TypeOK,
         PlaceInv, StatusInv, GiveUpInv, GivenUpLast, Exhausted, Tried, MayRetry
  <2>2. CASE EndWriter(w)
    BY <2>2, <1>a DEF EndWriter, InputEnded, run, batch, broker, status, Inv, TypeOK,
         PlaceInv, StatusInv, GiveUpInv, GivenUpLast, Exhausted, Tried, MayRetry
  <2>3. CASE Prepared(w)
    BY <2>3, <1>a DEF Prepared, Portions, run, broker, status, Inv, TypeOK, PlaceInv, StatusInv,
         GiveUpInv, GivenUpLast, Exhausted, Tried, MayRetry
  <2>4. CASE NoneLeft(w)
    BY <2>4, <1>a DEF NoneLeft, Settled, run, broker, status, Inv, TypeOK, PlaceInv,
         StatusInv, GiveUpInv, GivenUpLast, Exhausted, Tried, MayRetry
  <2>5. CASE Spoil(w) /\ cfg.kind # "grpc_unary"
    BY <2>5, <1>a DEF Spoil, run, batch, status, Inv, TypeOK, PlaceInv, StatusInv,
         GiveUpInv, GivenUpLast, Exhausted, Tried, MayRetry
  <2>6. ASSUME NEW e \in Events, Receive(w, e) PROVE GiveUpInv'
    BY <2>6, <1>a DEF Receive, broker, status, Inv, TypeOK, PlaceInv, StatusInv,
         GiveUpInv, GivenUpLast, Exhausted, Tried, MayRetry
  <2>7. ASSUME NEW e \in Events, Report(w, e) PROVE GiveUpInv'
    BY <2>7, <1>a DEF Report, AfterReport, Done, run, broker, Inv, TypeOK, PlaceInv, StatusInv,
         GiveUpInv, GivenUpLast, Exhausted, Tried, MayRetry
  <2>8. ASSUME NEW e \in Events, Skip(w, e) PROVE GiveUpInv'
    BY <2>8, <1>a DEF Skip, Done, run, Inv, TypeOK, PlaceInv, StatusInv, GiveUpInv,
         GivenUpLast, Exhausted, Tried, MayRetry
  <2>9. ASSUME NEW e \in Events, TooLarge(w, e) PROVE GiveUpInv'
    BY <2>9, AgainIs, <1>a DEF TooLarge, Attempt, run, Inv, TypeOK,
         PlaceInv, StatusInv, GiveUpInv, GivenUpLast, Exhausted, Tried, MayRetry
  <2>10. ASSUME NEW ok \in SUBSET todo[w], NEW again \in SUBSET (todo[w] \ ok),
               Written(w, ok, again)
        PROVE  GiveUpInv'
    BY <2>10, AgainIs, SettledIs DEF Written, Attempt, Verdict, run, Inv,
         TypeOK, PlaceInv, StatusInv, GiveUpInv, GivenUpLast, Exhausted, Tried, MayRetry
  <2>11. ASSUME NEW ok \in SUBSET todo[w], Indexed(w, ok) PROVE GiveUpInv'
    BY <2>11, <1>a DEF Indexed, Attempt, Verdict, Settled, run, Inv, TypeOK, PlaceInv,
         StatusInv, GiveUpInv, GivenUpLast, Exhausted, Tried, MayRetry
  <2>12. ASSUME NEW acks \in SUBSET todo[w], NEW gone \in SUBSET (todo[w] \ acks),
               Confirmed(w, acks, gone)
        PROVE  GiveUpInv'
    BY <2>12, AgainIs, SettledIs DEF Confirmed, Unconfirmed, Attempt, Verdict, run, Inv, TypeOK, PlaceInv, StatusInv, GiveUpInv, GivenUpLast,
         Exhausted, Tried, MayRetry
  <2>13. ASSUME NEW temporary \in BOOLEAN, Failed(w, temporary) PROVE GiveUpInv'
    BY <2>13, AgainIs, SettledIs DEF Failed, Attempt, Verdict, run, Inv,
         TypeOK, PlaceInv, StatusInv, GiveUpInv, GivenUpLast, Exhausted, Tried, MayRetry
  <2> QED
    BY <1>8, WriterCases, <2>1, <2>2, <2>3, <2>4, <2>5, <2>6, <2>7, <2>8, <2>9, <2>10,
         <2>11, <2>12, <2>13
<1>10. ASSUME NEW e \in Events, NoMethod(e) PROVE GiveUpInv'
  BY <1>10 DEF NoMethod, writer, batch, Inv, TypeOK, PlaceInv, StatusInv,
       GiveUpInv, GivenUpLast, Exhausted, Tried
<1>9. CASE UNCHANGED vars
  BY <1>9 DEF vars, run, writer, batch, broker, status, Inv, TypeOK, PlaceInv,
       StatusInv, GiveUpInv, GivenUpLast, Exhausted, Tried
<1> QED
  BY <1>1, <1>2, <1>3, <1>4, <1>5, <1>6, <1>7, <1>8, <1>9, <1>10 DEF Next, LoopStep

-----------------------------------------------------------------------------
(* The invariants.                                                         *)

LEMMA SelfStep == Inv /\ [Next]_vars => SelfInv'
<1> SUFFICES ASSUME Inv, [Next]_vars PROVE SelfInv'
  OBVIOUS
<1>1. ASSUME NEW e \in Events, Arrive(e) PROVE SelfInv'
  BY <1>1 DEF Arrive, writer, Inv, SelfInv
<1>2. CASE CloseIn
  BY <1>2 DEF CloseIn, writer, Inv, SelfInv
<1>3. ASSUME \/ \E e \in Events, k \in Keys, w \in Writers : Take(e, k, w)
             \/ \E e \in Events : NoMethod(e)
             \/ Push \/ ClosePool \/ \E k \in Keys : Remove(k)
      PROVE  SelfInv'
  BY <1>3 DEF Take, NoMethod, Push, ClosePool, Remove, Inv, PoolInv, SelfInv
<1>4. CASE Return
  BY <1>4 DEF Return, writer, Inv, SelfInv
<1>5. ASSUME NEW w \in Writers, WriterStep(w) PROVE SelfInv'
  <2>a. phase \in [Writers -> {"off", "collect", "prepare", "write", "report"}]
    BY DEF Inv, TypeOK
  <2>b. ASSUME phase'[w] # "off" PROVE SelfInv'
    BY <2>b DEF SelfInv
  <2>1. CASE EndWriter(w)
    BY <2>1 DEF EndWriter, InputEnded, run, SelfInv
  <2>2. CASE Flush(w) \/ Prepared(w) \/ NoneLeft(w) \/ Spoil(w)
    BY <2>2, <2>a, <2>b DEF Flush, Prepared, NoneLeft, Spoil, Settled
  <2>3. ASSUME NEW e \in Events, Skip(w, e) \/ Report(w, e) PROVE SelfInv'
    BY <2>3, <2>a, <2>b DEF Skip, Report, AfterReport
  <2>4. ASSUME NEW e \in Events, Receive(w, e) PROVE SelfInv'
    <3>1. PICK new : new = IF Cardinality(buf'[w]) = cfg.size THEN "prepare" ELSE "collect"
      OBVIOUS
    <3>2. phase' = [phase EXCEPT ![w] = new] /\ new # "off"
      BY <2>4, <3>1 DEF Receive
    <3> QED
      BY <2>a, <2>b, <3>2
  <2>5. ASSUME NEW e \in Events, TooLarge(w, e) PROVE SelfInv'
    BY <2>5, <2>a, <2>b DEF TooLarge, Attempt, Again, NextAddress, Settled
  <2>6. ASSUME NEW ok \in SUBSET todo[w], NEW again \in SUBSET (todo[w] \ ok),
               Written(w, ok, again)
        PROVE  SelfInv'
    BY <2>6, <2>a, <2>b DEF Written, Attempt, Again, NextAddress, Settled
  <2>7. ASSUME NEW ok \in SUBSET todo[w], Indexed(w, ok) PROVE SelfInv'
    BY <2>7, <2>a, <2>b DEF Indexed, Attempt, Settled
  <2>8. ASSUME NEW acks \in SUBSET todo[w], NEW gone \in SUBSET (todo[w] \ acks),
               Confirmed(w, acks, gone)
        PROVE  SelfInv'
    BY <2>8, <2>a, <2>b DEF Confirmed, Attempt, Again, NextAddress, Settled
  <2>9. ASSUME NEW temporary \in BOOLEAN, Failed(w, temporary) PROVE SelfInv'
    BY <2>9, <2>a, <2>b DEF Failed, Attempt, Again, NextAddress, Settled
  <2> QED
    BY <1>5, WriterCases, <2>1, <2>2, <2>3, <2>4, <2>5, <2>6, <2>7, <2>8, <2>9
<1>6. CASE UNCHANGED vars
  BY <1>6 DEF vars, run, writer, Inv, SelfInv
<1> QED
  BY <1>1, <1>2, <1>3, <1>4, <1>5, <1>6 DEF Next, LoopStep

LEMMA InvHolds == Spec => []Inv
<1>1. Init => Inv
  <2> SUFFICES ASSUME Init PROVE Inv
    OBVIOUS
  <2>1. TypeOK
    <3>1. cfg.limit \in Nat /\ cfg.others \in Nat /\ cfg.direct \in BOOLEAN
      BY SettingsAre DEF Init
    <3>2. 1 \in 1 .. AtLeastOne(cfg.limit) /\ 0 \in 0 .. cfg.others
      BY <3>1 DEF AtLeastOne
    <3>3. \A w \in Writers : /\ tries[w] \in 1 .. AtLeastOne(cfg.limit)
                             /\ addr[w] \in 0 .. cfg.others
      BY <3>2 DEF Init
    <3>4. phase \in [Writers -> {"off", "collect", "prepare", "write", "report"}]
      BY DEF Init
    <3> QED
      BY <3>1, <3>3, <3>4 DEF Init, TypeOK
  <2>2. PlaceInv
    BY DEF Init, PlaceInv
  <2>3. PoolInv
    BY SettingsAre DEF Init, PoolInv, OpenIsListed, Range
  <2>4. SelfInv
    BY DEF Init, SelfInv
  <2>5. StatusInv /\ GiveUpInv
    BY DEF Init, StatusInv, GiveUpInv, GivenUpLast
  <2> QED
    BY <2>1, <2>2, <2>3, <2>4, <2>5 DEF Inv
<1>2. Inv /\ [Next]_vars => Inv'
  BY TypeStep, PlaceStep, PoolStep, SelfStep, StatusStep, GiveUpStep DEF Inv
<1> QED
  BY <1>1, <1>2, PTL DEF Spec

\* Every reachable state is well typed, and no batch is attempted more often than
\* retry_attempts allows, nor at more addresses than there are (retryer.go, requester.go).
THEOREM TypeCorrect == Spec => []TypeOK
<1>1. Inv => TypeOK
  BY DEF Inv
<1> QED
  BY <1>1, InvHolds, PTL

\* An event is reported without an error exactly when the destination has acknowledged it
\* (writer.go, publisher.go), unless its channel was lost before the broker answered.
THEOREM VerdictCorrect == Spec => []VerdictIsTrue
<1>1. Inv => VerdictIsTrue
  BY DEF Inv, StatusInv, VerdictIsTrue
<1> QED
  BY <1>1, InvHolds, PTL

\* No acknowledged message is sent again (the retriable messages in writer.go, the
\* publishings without an error in publisher.go).
THEOREM NotSentAgainCorrect == Spec => []NotSentAgain
<1>1. Inv => NotSentAgain
  BY DEF Inv, StatusInv, NotSentAgain
<1> QED
  BY <1>1, InvHolds, PTL

\* A message is given up only when it was refused for good or no attempt is left at any
\* address (retryer.go, performWithFallback in requester.go).
THEOREM GivenUpLastCorrect == Spec => []GivenUpLast
<1>1. Inv => GivenUpLast
  BY DEF Inv, GiveUpInv
<1> QED
  BY <1>1, InvHolds, PTL

\* Run pushes only to open writers, and the pool knows every open writer (pool.go).
THEOREM PoolCorrect == Spec => []OpenIsListed
<1>1. Inv => OpenIsListed
  BY DEF Inv, PoolInv
<1> QED
  BY <1>1, InvHolds, PTL

-----------------------------------------------------------------------------
(* The contract.                                                           *)

\* Where the events that are held may be.
InPlace(e) ==
  \/ e \in inbox
  \/ e = hand /\ hand # None
  \/ \E w \in Writers : e \in buf[w]

LEMMA HeldIs == \A e : e \in Held <=> InPlace(e)
<1> TAKE e
<1>1. e \in Held <=> \/ e \in inbox
                   \/ e \in {hand} \ {None}
                   \/ e \in UNION {buf[w] : w \in Writers}
  BY DEF Held
<1>2. e \in UNION {buf[w] : w \in Writers} <=> \E w \in Writers : e \in buf[w]
  OBVIOUS
<1> QED
  BY <1>1, <1>2 DEF InPlace

\* The same after a step.
LEMMA HeldIsNext == \A e : e \in Held' <=> InPlace(e)'
<1> TAKE e
<1>1. e \in Held' <=> \/ e \in inbox'
                    \/ e \in {hand'} \ {None}
                    \/ e \in UNION {buf'[w] : w \in Writers}
  BY DEF Held
<1>2. e \in UNION {buf'[w] : w \in Writers} <=> \E w \in Writers : e \in buf'[w]
  OBVIOUS
<1> QED
  BY <1>1, <1>2 DEF InPlace

\* A step that moves no event and does not return is none of the contract.
LEMMA QuietStep ==
  ASSUME UNCHANGED <<inbox, hand, buf, reports>>, loop # "returned", loop' # "returned"
  PROVE  UNCHANGED Contract!vars
BY DEF Contract!vars, Held

\* A report takes the event from the one place where it is.
LEMMA ReportStep ==
  ASSUME Inv, NEW w \in Writers, NEW e \in buf[w], phase[w] # "off", Done(w, e),
         UNCHANGED <<inbox, hand, loop>>
  PROVE  Contract!Report(e)
<1>1. e \in Held
  BY HeldIs DEF InPlace
<1>2. Held' = Held \ {e}
  <2>1. \A v \in Writers : buf'[v] = IF v = w THEN buf[v] \ {e} ELSE buf[v]
    BY DEF Done, Inv, TypeOK
  <2>2. e \notin inbox /\ e # hand
    BY DEF Inv, TypeOK, PlaceInv
  <2>3. \A v \in Writers \ {w} : e \notin buf[v]
    BY DEF Inv, PlaceInv
  <2>4. \A d \in Held' : d \in Held \ {e}
    BY <2>1, <2>2, <2>3, HeldIs, HeldIsNext DEF InPlace
  <2>5. \A d \in Held \ {e} : d \in Held'
    BY <2>1, HeldIs, HeldIsNext DEF InPlace
  <2> QED
    BY <2>4, <2>5
<1>3. loop # "returned"
  BY DEF Inv, PoolInv
<1> QED
  BY <1>1, <1>2, <1>3 DEF Contract!Report, Done

LEMMA StepRefines == Inv /\ [Next]_vars => [Contract!Next]_(Contract!vars)
<1> SUFFICES ASSUME Inv, [Next]_vars PROVE [Contract!Next]_(Contract!vars)
  OBVIOUS
<1>1. ASSUME NEW e \in Events, Arrive(e) PROVE [Contract!Next]_(Contract!vars)
  <2>1. loop # "returned" /\ loop' = loop
    BY <1>1 DEF Arrive, Inv, PoolInv, SelfInv
  <2>2. Held' = Held \cup {e}
    BY <1>1 DEF Arrive, Held, writer, batch
  <2>3. Contract!Accept(e)
    BY <1>1, <2>1, <2>2 DEF Arrive, Contract!Accept, status
  <2> QED
    BY <2>3 DEF Contract!Next
<1>2. CASE CloseIn
  BY <1>2 DEF CloseIn, Contract!vars, Held, writer, batch, status
<1>3. ASSUME NEW e \in Events, NEW k \in Keys, NEW w \in Writers, Take(e, k, w)
      PROVE  [Contract!Next]_(Contract!vars)
  <2>1. hand = None /\ e \in inbox /\ e # None
    BY <1>3 DEF Take, Inv, PlaceInv
  <2>2. inbox' = inbox \ {e} /\ hand' = e /\ buf' = buf /\ reports' = reports
    BY <1>3 DEF Take, batch, status
  <2>3. \A d : d \in Held' <=> d \in Held
    BY <2>1, <2>2, HeldIs, HeldIsNext DEF InPlace
  <2> QED
    BY <1>3, <2>2, <2>3 DEF Take, Contract!vars
<1>4. CASE Push
  <2>1. hand # None /\ aim \in Writers
    BY <1>4 DEF Push, Inv, TypeOK, PlaceInv, PoolInv, OpenIsListed, Range
  <2>2. hand' = None /\ inbox' = inbox /\ reports' = reports
    BY <1>4 DEF Push, status
  <2>3. \A v \in Writers : buf'[v] = IF v = aim THEN buf[v] \cup {hand} ELSE buf[v]
    BY <1>4 DEF Push, Inv, TypeOK
  <2>4. \A d : d \in Held' <=> d \in Held
    BY <2>1, <2>2, <2>3, HeldIs, HeldIsNext DEF InPlace
  <2> QED
    BY <1>4, <2>2, <2>4 DEF Push, Contract!vars
<1>5. CASE ClosePool
  BY <1>5, QuietStep DEF ClosePool, batch, status
<1>6. CASE Return
  <2>1. \A e : e \notin Held
    BY <1>6, HeldIs DEF InPlace, Return, Running, Inv, TypeOK, PlaceInv, PoolInv, SelfInv
  <2>2. Held' = Held /\ reports' = reports
    BY <1>6 DEF Return, Held, writer, batch, status
  <2>3. Contract!Finish
    BY <1>6, <2>1, <2>2 DEF Return, Contract!Finish
  <2> QED
    BY <2>3 DEF Contract!Next
<1>7. ASSUME NEW k \in Keys, Remove(k) PROVE [Contract!Next]_(Contract!vars)
  BY <1>7, QuietStep DEF Remove, batch, status
<1>8. ASSUME NEW w \in Writers, WriterStep(w) PROVE [Contract!Next]_(Contract!vars)
  <2>1. ASSUME NEW e \in Events, Skip(w, e) \/ Report(w, e)
        PROVE  [Contract!Next]_(Contract!vars)
    <3>1. e \in buf[w] /\ phase[w] # "off" /\ Done(w, e) /\ UNCHANGED <<inbox, hand, loop>>
      BY <2>1 DEF Skip, Report, run
    <3> QED
      BY <3>1, ReportStep DEF Contract!Next
  <2>2. ASSUME UNCHANGED <<inbox, hand, buf, reports, loop>>
        PROVE  UNCHANGED Contract!vars
    BY <2>2 DEF Contract!vars, Held
  <2>3. CASE Flush(w) \/ EndWriter(w) \/ Prepared(w) \/ NoneLeft(w) \/ Spoil(w)
    BY <2>2, <2>3 DEF Flush, EndWriter, Prepared, NoneLeft, Spoil, run, batch, status
  <2>4. ASSUME NEW e \in Events, TooLarge(w, e) PROVE UNCHANGED Contract!vars
    BY <2>2, <2>4 DEF TooLarge, run
  <2>5. ASSUME NEW ok \in SUBSET todo[w], NEW again \in SUBSET (todo[w] \ ok),
               Written(w, ok, again)
        PROVE  UNCHANGED Contract!vars
    BY <2>2, <2>5 DEF Written, run
  <2>6. ASSUME NEW temporary \in BOOLEAN, Failed(w, temporary)
        PROVE  UNCHANGED Contract!vars
    BY <2>2, <2>6 DEF Failed, run
  <2>7. ASSUME NEW ok \in SUBSET todo[w], Indexed(w, ok) PROVE UNCHANGED Contract!vars
    BY <2>2, <2>7 DEF Indexed, run
  <2>8. ASSUME NEW acks \in SUBSET todo[w], NEW gone \in SUBSET (todo[w] \ acks),
               Confirmed(w, acks, gone)
        PROVE  UNCHANGED Contract!vars
    BY <2>2, <2>8 DEF Confirmed, run
  <2>9. ASSUME NEW e \in Events, Receive(w, e) PROVE UNCHANGED Contract!vars
    <3>1. /\ e \in inbox /\ inbox' = inbox \ {e} /\ hand' = hand
          /\ reports' = reports /\ loop' = loop
      BY <2>9 DEF Receive, status
    <3>2. \A v \in Writers : buf'[v] = IF v = w THEN buf[v] \cup {e} ELSE buf[v]
      BY <2>9 DEF Receive, Inv, TypeOK
    <3>3. ASSUME NEW d PROVE d \in Held' <=> d \in Held
      <4>1. (\E v \in Writers : d \in buf'[v]) <=> d = e \/ \E v \in Writers : d \in buf[v]
        BY <3>2
      <4>2. InPlace(d)' <=> InPlace(d)
        BY <3>1, <4>1 DEF InPlace
      <4> QED
        BY <4>2, HeldIs, HeldIsNext
    <3> QED
      BY <3>1, <3>3 DEF Contract!vars
  <2> QED
    BY <1>8, WriterCases, <2>1, <2>3, <2>4, <2>5, <2>6, <2>7, <2>8, <2>9
<1>9. CASE UNCHANGED vars
  BY <1>9 DEF vars, run, writer, batch, status, Contract!vars, Held
<1>10. ASSUME NEW e \in Events, NoMethod(e) PROVE [Contract!Next]_(Contract!vars)
  <2>1. e \in inbox /\ inbox' = inbox \ {e} /\ hand' = hand /\ buf' = buf
    BY <1>10 DEF NoMethod, writer, batch
  <2>2. e # hand /\ \A w \in Writers : e \notin buf[w]
    BY <2>1 DEF Inv, PlaceInv
  <2>3. \A d : d \in Held' <=> d \in Held /\ d # e
    BY <2>1, <2>2, HeldIs, HeldIsNext DEF InPlace
  <2>4. e \in Held /\ Held' = Held \ {e}
    BY <2>1, <2>3, HeldIs DEF InPlace
  <2>5. Contract!Report(e)
    BY <1>10, <2>4 DEF NoMethod, Contract!Report
  <2> QED
    BY <2>5 DEF Contract!Next
<1> QED
  BY <1>1, <1>2, <1>3, <1>4, <1>5, <1>6, <1>7, <1>8, <1>9, <1>10 DEF Next, LoopStep

\* The output implements the contract of a sink: each event is reported done once, and
\* Run returns when it owes no report, however writers are removed and attempts fail.
THEOREM SinkCorrect == Spec => SinkSpec
<1>1. Init => Contract!Init
  BY DEF Init, Contract!Init, Held
<1>2. Inv /\ [Next]_vars => [Contract!Next]_(Contract!vars)
  BY StepRefines
<1> QED
  BY <1>1, <1>2, InvHolds, PTL DEF Spec, SinkSpec, Contract!Spec
=============================================================================
