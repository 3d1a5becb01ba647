--------------------------- MODULE RabbitInputProofs --------------------------
(***************************************************************************)
(* Proofs about RabbitInput, for every number of queues, messages and      *)
(* faults: an acker that has returned leaves no hook behind, the semaphore *)
(* counts the messages in the map of the acker, and the input keeps        *)
(* SourceContract over lost channels and connections.                      *)
(***************************************************************************)
EXTENDS RabbitInput, FiniteSetTheorems, TLAPS

-----------------------------------------------------------------------------
(* The invariant.                                                          *)

\* The consumer of m's queue has m in its hands.
InHand(m) == pc[m[1]] \in {"slot", "push", "zero", "emit"} /\ cur[m[1]].k = m[2]

\* Events of m that are not sent yet.
Unsent(m) == IF InHand(m) THEN cur[m[1]].n ELSE 0

\* The messages of a queue the acker knows, and the slot taken before a push.
Known(q) == {m \in acks : m[1] = q}
Slot(q)  == IF pc[q] = "push" THEN 1 ELSE 0

\* What is not delivered of a message is on its way or not yet sent.
CountInv == \A m \in Messages : todo[m] = flying[m] + Unsent(m)

\* What the acker knows of a message is what is missing, and it knows all that is on its
\* way; who is still to be reported counts at least one, an empty message excepted.
AckInv ==
  \A m \in Messages :
    /\ m \in acks => left[m] = todo[m]
    /\ m \notin acks => flying[m] = 0
    /\ m \in acks /\ todo[m] = 0 => InHand(m) /\ pc[m[1]] = "zero"
    /\ InHand(m) /\ pc[m[1]] \in {"zero", "emit"} => m \in acks
    /\ InHand(m) /\ pc[m[1]] = "zero" => todo[m] = 0
    /\ InHand(m) /\ pc[m[1]] \in {"slot", "push"} => m \notin acks

\* A message with the acker of an open channel, or in hand, is out at the broker.
OutInv ==
  \A m \in Messages :
    m[1] \in open /\ (m \in acks \/ InHand(m)) => at[m] = "out"

\* Who has nothing left to deliver was handled; who is acknowledged too.
HandledInv ==
  \A m \in Messages :
    /\ InHand(m) /\ todo[m] = 0 => m \in handled
    /\ at[m] = "acked" => m \in handled

\* The message in hand exists, and an emit has an event to send.
HandInv ==
  \A q \in Queues :
    /\ pc[q] \in {"slot", "push", "zero", "emit"} => cur[q].k \in 1 .. Length
    /\ pc[q] = "zero" => cur[q].n = 0
    /\ pc[q] = "emit" => cur[q].n > 0

\* An acker that does not run has nothing in its map and its consumer is leaving; one
\* that is told to leave has a consumer that waits for it.
AckerInv ==
  \A q \in Queues :
    /\ acker[q] # "run" => pc[q] \in {"wait", "off"} /\ Known(q) = {}
    /\ q \in exiting => pc[q] \in {"wait", "off"}

\* Between two connections every consumer and acker has ended.
PhaseInv == phase # "consume" => AllEnded

Inv ==
  /\ TypeOK /\ CountInv /\ AckInv /\ OutInv /\ HandledInv /\ HandInv
  /\ AckerInv /\ PhaseInv /\ SemaphoreCounts

-----------------------------------------------------------------------------
(* Messages and the maps of the ackers.                                    *)

LEMMA MessageParts ==
  /\ \A q \in Queues, k \in 1 .. Length : <<q, k>> \in Messages
  /\ \A m \in Messages : m[1] \in Queues /\ m[2] \in 1 .. Length /\ m = <<m[1], m[2]>>
BY DEF Messages

LEMMA KnownIsFinite ==
  ASSUME TypeOK, NEW q \in Queues
  PROVE  IsFiniteSet(Known(q)) /\ Cardinality(Known(q)) \in Nat
<1>1. IsFiniteSet(1 .. Length)
  BY RabbitAssumption, FS_Interval
<1>2. IsFiniteSet(Messages)
  BY <1>1, RabbitAssumption, FS_Product DEF Messages
<1>3. Known(q) \subseteq Messages
  BY DEF TypeOK, Known
<1> QED BY <1>2, <1>3, FS_Subset, FS_CardinalityType

\* An empty semaphore: the acker knows nothing.
LEMMA NoneKnown ==
  ASSUME TypeOK, SemaphoreCounts, NEW q \in Queues, sem[q] = 0
  PROVE  Known(q) = {}
<1>1. Cardinality(Known(q)) = 0
  BY KnownIsFinite DEF SemaphoreCounts, Known
<1> QED BY <1>1, KnownIsFinite, FS_EmptySet

\* The init predicate and the steps that touch no message.
LEMMA InitInv == Init => Inv
<1> SUFFICES ASSUME Init PROVE Inv
  OBVIOUS
<1>1. TypeOK
  <2>1. 0 \in Counts /\ 0 \in 0 .. Length /\ 0 \in 0 .. Faults /\ 0 \in 0 .. MaxUndelivered
    BY RabbitAssumption DEF Counts
  <2>2. policy \in AllPolicies
    BY RabbitAssumption DEF Init
  <2>3. Nothing \in [Messages -> Counts]
    BY <2>1 DEF Nothing
  <2> QED BY <2>1, <2>2, <2>3 DEF Init, TypeOK
<1>2. CountInv /\ AckInv /\ OutInv /\ HandledInv
  BY MessageParts DEF Init, CountInv, AckInv, OutInv, HandledInv, InHand, Unsent, Nothing
<1>3. HandInv /\ AckerInv /\ PhaseInv
  BY DEF Init, HandInv, AckerInv, PhaseInv, AllEnded, Known
<1>4. SemaphoreCounts
  <2> SUFFICES ASSUME NEW q \in Queues
               PROVE  sem[q] = Cardinality({m \in acks : m[1] = q})
                               + (IF pc[q] = "push" THEN 1 ELSE 0)
    BY DEF SemaphoreCounts
  <2>1. {m \in acks : m[1] = q} = {} /\ sem[q] = 0 /\ pc[q] # "push"
    BY DEF Init
  <2> QED BY <2>1, FS_EmptySet
<1> QED BY <1>1, <1>2, <1>3, <1>4 DEF Inv

\* What the steps of the loop, the broker and the leaving consumers keep.
LEMMA QuietStep ==
  ASSUME Inv, TypeOK', PhaseInv',
         UNCHANGED <<at, handled, open, pc, cur, todo, flying, acker, exiting, acks, left, sem>>
  PROVE  Inv'
<1>1. CountInv' /\ AckInv' /\ OutInv' /\ HandledInv'
  BY DEF Inv, CountInv, AckInv, OutInv, HandledInv, InHand, Unsent
<1>2. HandInv' /\ AckerInv' /\ SemaphoreCounts'
  BY DEF Inv, HandInv, AckerInv, SemaphoreCounts, Known
<1> QED BY <1>1, <1>2 DEF Inv

LEMMA LoopStep ==
  ASSUME Inv, Reconnect \/ Ended \/ Leave \/ Stop
  PROVE  Inv'
<1>1. TypeOK /\ PhaseInv
  BY DEF Inv
<1>2. UNCHANGED <<policy, at, handled, open, pc, cur, todo, flying, acker, exiting, acks, left, sem>>
  BY DEF Reconnect, Ended, Leave, Stop, fixed, broker, consumer, pipeline, known
<1>3. /\ phase' \in {"connect", "consume", "left"} /\ stopping' \in BOOLEAN
      /\ conn' \in BOOLEAN /\ faults' \in 0 .. Faults
  <2>1. phase' \in {"connect", "consume", "left"}
    BY <1>1 DEF Reconnect, Ended, Leave, Stop, TypeOK
  <2>2. stopping' \in BOOLEAN /\ conn' \in BOOLEAN
    BY <1>1, Zenon DEF Reconnect, Ended, Leave, Stop, TypeOK
  <2>3. faults' = faults \/ (faults < Faults /\ faults' = faults + 1)
    BY DEF Reconnect, Ended, Leave, Stop, Fault
  <2>4. faults' \in 0 .. Faults
    BY <1>1, <2>3, RabbitAssumption DEF TypeOK
  <2> QED BY <2>1, <2>2, <2>4
<1>4. TypeOK'
  <2>1. policy' \in AllPolicies
    BY <1>1, <1>2 DEF TypeOK
  <2>2. /\ at' = at /\ handled' = handled /\ open' = open /\ pc' = pc /\ cur' = cur
        /\ todo' = todo /\ flying' = flying /\ acker' = acker /\ exiting' = exiting
        /\ acks' = acks /\ left' = left /\ sem' = sem
    BY <1>2
  <2>3. /\ at' \in [Messages -> {"ready", "out", "acked", "rejected"}]
        /\ handled' \subseteq Messages /\ open' \subseteq Queues
    BY <1>1, <2>2 DEF TypeOK
  <2> QED BY <1>1, <1>3, <2>1, <2>2, <2>3 DEF TypeOK
<1>5. PhaseInv'
  BY <1>1, <1>2 DEF PhaseInv, AllEnded, Reconnect, Ended, Leave, Stop
<1> QED BY <1>2, <1>4, <1>5, QuietStep

LEMMA StartStep ==
  ASSUME Inv, NEW S \in SUBSET Queues, Start(S)
  PROVE  Inv'
<1> USE DEF Start
<1>1. TypeOK /\ AllEnded
  BY DEF Inv, PhaseInv
<1>2. TypeOK'
  BY <1>1, RabbitAssumption DEF TypeOK, fixed, Fault, pipeline
<1>3. \A m \in Messages : flying[m] = 0 /\ todo[m] = 0 /\ ~InHand(m)
  <2> SUFFICES ASSUME NEW m \in Messages
               PROVE  flying[m] = 0 /\ todo[m] = 0 /\ ~InHand(m)
    OBVIOUS
  <2>1. m[1] \in Queues /\ ~InHand(m)
    BY <1>1, MessageParts DEF AllEnded, InHand
  <2>2. m \notin acks
    BY <1>1, <2>1 DEF AllEnded, Inv, AckerInv, Known
  <2> QED BY <2>1, <2>2 DEF Inv, AckInv, CountInv, Unsent, TypeOK, Counts
<1>4. \A m \in Messages : InHand(m)' = FALSE
  BY MessageParts DEF InHand
<1>5. CountInv' /\ AckInv'
  BY <1>3, <1>4 DEF CountInv, AckInv, Unsent, pipeline
<1>6. OutInv' /\ HandledInv'
  BY <1>4 DEF Inv, OutInv, HandledInv
<1>7. HandInv' /\ AckerInv' /\ PhaseInv'
  BY DEF HandInv, AckerInv, Known, PhaseInv
<1>8. SemaphoreCounts'
  <2> SUFFICES ASSUME NEW q \in Queues
               PROVE  sem'[q] = Cardinality({m \in acks' : m[1] = q})
                               + (IF pc'[q] = "push" THEN 1 ELSE 0)
    BY DEF SemaphoreCounts
  <2>1. {m \in acks' : m[1] = q} = {} /\ sem'[q] = 0 /\ pc'[q] # "push"
    OBVIOUS
  <2> QED BY <2>1, FS_EmptySet
<1> QED BY <1>2, <1>5, <1>6, <1>7, <1>8 DEF Inv

LEMMA BreakStep ==
  ASSUME Inv, NEW S \in SUBSET Queues, Break(S)
  PROVE  Inv'
<1> USE DEF Break
<1>1. TypeOK
  BY DEF Inv
<1>2. at' \in [Messages -> {"ready", "out", "acked", "rejected"}]
  BY <1>1 DEF TypeOK, Requeued
<1>3. TypeOK'
  BY <1>1, <1>2, RabbitAssumption DEF TypeOK, fixed, Fault, consumer, pipeline, known
<1>4. UNCHANGED <<handled, pc, cur, todo, flying, acker, exiting, acks, left, sem>>
  BY DEF consumer, pipeline, known
<1>5. CountInv' /\ AckInv'
  BY <1>4 DEF Inv, CountInv, AckInv, InHand, Unsent
<1>6. OutInv' /\ HandledInv'
  BY <1>4, MessageParts DEF Inv, OutInv, HandledInv, InHand, Requeued
<1>7. HandInv' /\ AckerInv' /\ SemaphoreCounts'
  BY <1>4 DEF Inv, HandInv, AckerInv, SemaphoreCounts, Known
<1>8. PhaseInv'
  BY <1>4 DEF Inv, PhaseInv, AllEnded
<1> QED BY <1>3, <1>5, <1>6, <1>7, <1>8 DEF Inv

-----------------------------------------------------------------------------
(* The steps of a consumer.                                                *)

LEMMA ReceiveStep ==
  ASSUME Inv, NEW q \in Queues, NEW k \in 1 .. Length, NEW n \in Counts, Receive(q, k, n)
  PROVE  Inv'
<1> DEFINE r == <<q, k>>
<1>0. r \in Messages /\ r[1] = q /\ r[2] = k
  BY MessageParts
<1>1. TypeOK
  BY DEF Inv
<1>2. /\ pc[q] = "recv" /\ q \in open /\ at[r] = "ready"
      /\ at' = [at EXCEPT ![r] = "out"]
      /\ pc' = [pc EXCEPT ![q] = "slot"] /\ cur' = [cur EXCEPT ![q] = [k |-> k, n |-> n]]
      /\ todo' = [todo EXCEPT ![r] = n]
      /\ handled' = IF n = 0 THEN handled \cup {r} ELSE handled
  BY DEF Receive
<1>3. UNCHANGED <<policy, phase, stopping, conn, faults, open, flying, acker, exiting, acks, left, sem>>
  BY DEF Receive, fixed, loop, known
<1>4. TypeOK'
  <2>1. cur' \in [Queues -> [k : 0 .. Length, n : Counts]]
    BY <1>1, <1>2, RabbitAssumption DEF TypeOK
  <2>2. /\ at' \in [Messages -> {"ready", "out", "acked", "rejected"}]
        /\ todo' \in [Messages -> Counts] /\ handled' \subseteq Messages
    BY <1>0, <1>1, <1>2 DEF TypeOK
  <2>3. pc' \in [Queues -> {"off", "recv", "slot", "push", "zero", "emit", "exit", "wait"}]
    BY <1>1, <1>2 DEF TypeOK
  <2> QED BY <1>1, <1>3, <2>1, <2>2, <2>3 DEF TypeOK
<1>5. r \notin acks /\ flying[r] = 0
  BY <1>0, <1>2 DEF Inv, OutInv, AckInv
<1>6. /\ InHand(r)' /\ pc'[q] = "slot" /\ cur'[q].n = n /\ cur'[q].k = k
      /\ \A m \in Messages : m # r => InHand(m)' = InHand(m) /\ Unsent(m)' = Unsent(m)
  BY <1>0, <1>1, <1>2, MessageParts DEF InHand, Unsent, TypeOK
<1>7. CountInv'
  <2>1. todo'[r] = flying'[r] + Unsent(r)'
    BY <1>0, <1>1, <1>2, <1>3, <1>5, <1>6 DEF Unsent, TypeOK, Counts
  <2>2. \A m \in Messages : m # r => todo'[m] = todo[m]
    BY <1>0, <1>1, <1>2 DEF TypeOK
  <2> QED BY <1>3, <1>6, <2>1, <2>2 DEF Inv, CountInv
<1>8. \A m \in Messages : m # r => todo'[m] = todo[m] /\ at'[m] = at[m]
  BY <1>0, <1>1, <1>2 DEF TypeOK
<1>9. AckInv'
  <2> SUFFICES ASSUME NEW m \in Messages
               PROVE  /\ m \in acks' => left'[m] = todo'[m]
                      /\ m \notin acks' => flying'[m] = 0
                      /\ m \in acks' /\ todo'[m] = 0 => InHand(m)' /\ pc'[m[1]] = "zero"
                      /\ InHand(m)' /\ pc'[m[1]] \in {"zero", "emit"} => m \in acks'
                      /\ InHand(m)' /\ pc'[m[1]] = "zero" => todo'[m] = 0
                      /\ InHand(m)' /\ pc'[m[1]] \in {"slot", "push"} => m \notin acks'
    BY DEF AckInv
  <2>1. CASE m = r
    BY <1>0, <1>3, <1>5, <1>6, <2>1
  <2>2. CASE m # r
    <3>1. m[1] \in Queues /\ (InHand(m) => m[1] # q)
      BY <1>2, MessageParts DEF InHand
    <3>2. InHand(m) => pc'[m[1]] = pc[m[1]]
      BY <1>1, <1>2, <3>1 DEF TypeOK
    <3> QED BY <1>3, <1>6, <1>8, <2>2, <3>2 DEF Inv, AckInv
  <2> QED BY <2>1, <2>2
<1>10. OutInv'
  BY <1>0, <1>1, <1>2, <1>3, <1>6, <1>8 DEF Inv, OutInv, TypeOK
<1>11. HandledInv'
  BY <1>0, <1>1, <1>2, <1>6, <1>8 DEF Inv, HandledInv, TypeOK
<1>12. HandInv'
  BY <1>1, <1>2 DEF Inv, HandInv, TypeOK
<1>13. AckerInv' /\ PhaseInv' /\ SemaphoreCounts'
  BY <1>1, <1>2, <1>3 DEF Inv, AckerInv, PhaseInv, AllEnded, SemaphoreCounts, Known, TypeOK
<1> QED BY <1>4, <1>7, <1>9, <1>10, <1>11, <1>12, <1>13 DEF Inv

LEMMA RejectStep ==
  ASSUME Inv, NEW q \in Queues, NEW k \in 1 .. Length, Reject(q, k)
  PROVE  Inv'
<1>0. <<q, k>> \in Messages
  BY MessageParts
<1>1. TypeOK
  BY DEF Inv
<1>2. /\ q \in open /\ at[<<q, k>>] = "ready" /\ at' = [at EXCEPT ![<<q, k>>] = "rejected"]
      /\ UNCHANGED <<policy, phase, stopping, conn, faults, handled, open, pc, cur, todo, flying,
                     acker, exiting, acks, left, sem>>
  BY DEF Reject, fixed, loop, consumer, pipeline, known
<1>3. TypeOK'
  BY <1>0, <1>1, <1>2 DEF TypeOK
<1>4. CountInv' /\ AckInv'
  BY <1>2 DEF Inv, CountInv, AckInv, InHand, Unsent
<1>5. OutInv' /\ HandledInv'
  BY <1>0, <1>1, <1>2, MessageParts DEF Inv, OutInv, HandledInv, InHand, TypeOK
<1>6. HandInv' /\ AckerInv' /\ PhaseInv' /\ SemaphoreCounts'
  BY <1>2 DEF Inv, HandInv, AckerInv, PhaseInv, AllEnded, SemaphoreCounts, Known
<1> QED BY <1>3, <1>4, <1>5, <1>6 DEF Inv

\* The message a consumer has in its hands.
LEMMA HandOf ==
  ASSUME Inv, NEW q \in Queues, pc[q] \in {"slot", "push", "zero", "emit"}
  PROVE  /\ <<q, cur[q].k>> \in Messages
         /\ InHand(<<q, cur[q].k>>) /\ Unsent(<<q, cur[q].k>>) = cur[q].n
         /\ cur[q].n \in Nat
         /\ \A m \in Messages : m[1] = q /\ m # <<q, cur[q].k>> => ~InHand(m)
<1>1. cur[q].k \in 1 .. Length /\ cur[q].n \in Nat
  BY RabbitAssumption DEF Inv, HandInv, TypeOK, Counts
<1> QED BY <1>1, MessageParts DEF InHand, Unsent

LEMMA TakeSlotStep ==
  ASSUME Inv, NEW q \in Queues, TakeSlot(q)
  PROVE  Inv'
<1>1. TypeOK
  BY DEF Inv
<1>2. /\ pc[q] = "slot" /\ sem[q] < MaxUndelivered
      /\ sem' = [sem EXCEPT ![q] = @ + 1] /\ pc' = [pc EXCEPT ![q] = "push"]
      /\ UNCHANGED <<policy, phase, stopping, conn, faults, at, handled, open, cur, todo, flying,
                     acker, exiting, acks, left>>
  BY DEF TakeSlot, fixed, loop, broker, pipeline, known
<1>3. TypeOK'
  <2>1. sem' \in [Queues -> 0 .. MaxUndelivered]
    BY <1>1, <1>2, RabbitAssumption DEF TypeOK
  <2>2. pc' \in [Queues -> {"off", "recv", "slot", "push", "zero", "emit", "exit", "wait"}]
    BY <1>1, <1>2 DEF TypeOK
  <2> QED BY <1>1, <1>2, <2>1, <2>2 DEF TypeOK
<1>4. \A m \in Messages : InHand(m)' = InHand(m) /\ Unsent(m)' = Unsent(m)
  BY <1>1, <1>2, MessageParts DEF InHand, Unsent, TypeOK
<1>5. CountInv' /\ OutInv' /\ HandledInv'
  BY <1>2, <1>4 DEF Inv, CountInv, OutInv, HandledInv
<1>6. AckInv'
  BY <1>1, <1>2, <1>4, MessageParts DEF Inv, AckInv, TypeOK
<1>7. HandInv' /\ AckerInv' /\ PhaseInv'
  BY <1>1, <1>2 DEF Inv, HandInv, AckerInv, PhaseInv, AllEnded, Known, TypeOK
<1>8. SemaphoreCounts'
  <2> SUFFICES ASSUME NEW p \in Queues
               PROVE  sem'[p] = Cardinality({m \in acks' : m[1] = p})
                               + (IF pc'[p] = "push" THEN 1 ELSE 0)
    BY DEF SemaphoreCounts
  <2>1. Cardinality({m \in acks : m[1] = p}) \in Nat
    BY <1>1, KnownIsFinite DEF Known
  <2>2. acks' = acks
    BY <1>2
  <2>3. CASE p = q
    BY <1>1, <1>2, <2>1, <2>2, <2>3 DEF Inv, SemaphoreCounts, TypeOK
  <2>4. CASE p # q
    BY <1>1, <1>2, <2>1, <2>2, <2>4 DEF Inv, SemaphoreCounts, TypeOK
  <2> QED BY <2>3, <2>4
<1> QED BY <1>3, <1>5, <1>6, <1>7, <1>8 DEF Inv

LEMMA PushStep ==
  ASSUME Inv, NEW q \in Queues, Push(q)
  PROVE  Inv'
<1> DEFINE r == <<q, cur[q].k>>
<1>1. TypeOK
  BY DEF Inv
<1>2. /\ pc[q] = "push" /\ acker[q] = "run"
      /\ acks' = acks \cup {r} /\ left' = [left EXCEPT ![r] = cur[q].n]
      /\ pc' = [pc EXCEPT ![q] = IF cur[q].n = 0 THEN "zero" ELSE "emit"]
      /\ UNCHANGED <<policy, phase, stopping, conn, faults, at, handled, open, cur, todo, flying,
                     acker, exiting, sem>>
  BY DEF Push, fixed, loop, broker, pipeline
<1>3. r \in Messages /\ r[1] = q /\ r[2] = cur[q].k /\ cur[q].n \in Nat
  BY <1>2, HandOf
<1>4. InHand(r) /\ Unsent(r) = cur[q].n /\ \A m \in Messages : m[1] = q /\ m # r => ~InHand(m)
  BY <1>2, HandOf
<1>5. r \notin acks /\ flying[r] = 0 /\ todo[r] = cur[q].n
  BY <1>2, <1>3, <1>4 DEF Inv, AckInv, CountInv
<1>6. TypeOK'
  <2>1. acks' \subseteq Messages /\ left' \in [Messages -> Counts]
    BY <1>1, <1>2, <1>3 DEF TypeOK
  <2>2. pc' \in [Queues -> {"off", "recv", "slot", "push", "zero", "emit", "exit", "wait"}]
    BY <1>1, <1>2 DEF TypeOK
  <2> QED BY <1>1, <1>2, <2>1, <2>2 DEF TypeOK
<1>7. pc'[q] \in {"zero", "emit"} /\ (pc'[q] = "zero" <=> cur[q].n = 0)
  BY <1>1, <1>2 DEF TypeOK
<1>8. \A m \in Messages : InHand(m)' = InHand(m) /\ Unsent(m)' = Unsent(m)
  BY <1>1, <1>2, <1>7, MessageParts DEF InHand, Unsent, TypeOK
<1>9. CountInv' /\ HandledInv'
  BY <1>2, <1>8 DEF Inv, CountInv, HandledInv
<1>10. OutInv'
  BY <1>2, <1>4, <1>8 DEF Inv, OutInv
<1>11. AckInv'
  <2> SUFFICES ASSUME NEW m \in Messages
               PROVE  /\ m \in acks' => left'[m] = todo'[m]
                      /\ m \notin acks' => flying'[m] = 0
                      /\ m \in acks' /\ todo'[m] = 0 => InHand(m)' /\ pc'[m[1]] = "zero"
                      /\ InHand(m)' /\ pc'[m[1]] \in {"zero", "emit"} => m \in acks'
                      /\ InHand(m)' /\ pc'[m[1]] = "zero" => todo'[m] = 0
                      /\ InHand(m)' /\ pc'[m[1]] \in {"slot", "push"} => m \notin acks'
    BY DEF AckInv
  <2>1. CASE m = r
    BY <1>1, <1>2, <1>3, <1>4, <1>5, <1>7, <1>8, <2>1 DEF TypeOK
  <2>2. CASE m # r
    <3>1. left'[m] = left[m] /\ (m \in acks' <=> m \in acks)
      BY <1>1, <1>2, <1>3, <2>2 DEF TypeOK
    <3>2. InHand(m) => m[1] # q
      BY <1>4, <2>2
    <3>3. InHand(m) => pc'[m[1]] = pc[m[1]]
      BY <1>1, <1>2, <3>2, MessageParts DEF TypeOK
    <3> QED BY <1>2, <1>8, <3>1, <3>3 DEF Inv, AckInv
  <2> QED BY <2>1, <2>2
<1>12. HandInv' /\ PhaseInv'
  BY <1>1, <1>2, <1>3, <1>7 DEF Inv, HandInv, PhaseInv, AllEnded, TypeOK
<1>13. AckerInv'
  BY <1>1, <1>2, <1>3 DEF Inv, AckerInv, Known, TypeOK
<1>14. SemaphoreCounts'
  <2> SUFFICES ASSUME NEW p \in Queues
               PROVE  sem'[p] = Cardinality({m \in acks' : m[1] = p})
                               + (IF pc'[p] = "push" THEN 1 ELSE 0)
    BY DEF SemaphoreCounts
  <2>1. CASE p = q
    <3>1. {m \in acks' : m[1] = p} = Known(p) \cup {r}
      BY <1>2, <1>3, <2>1 DEF Known
    <3>2. r \notin Known(p) /\ IsFiniteSet(Known(p)) /\ Cardinality(Known(p)) \in Nat
      BY <1>1, <1>5, KnownIsFinite DEF Known
    <3>3. Cardinality(Known(p) \cup {r}) = Cardinality(Known(p)) + 1
      BY <3>2, FS_AddElement
    <3>4. sem[p] = Cardinality(Known(p)) + (IF pc[p] = "push" THEN 1 ELSE 0)
      BY DEF Inv, SemaphoreCounts, Known
    <3>5. sem'[p] = sem[p] /\ pc[p] = "push" /\ pc'[p] # "push"
      BY <1>2, <1>7, <2>1
    <3>6. sem'[p] = Cardinality(Known(p)) + 1
      BY <3>2, <3>4, <3>5
    <3>7. Cardinality({m \in acks' : m[1] = p}) = sem'[p]
      BY <3>1, <3>3, <3>6, Zenon
    <3>8. sem'[p] \in Nat
      BY <3>2, <3>6
    <3> QED BY <3>5, <3>7, <3>8
  <2>2. CASE p # q
    <3>1. {m \in acks' : m[1] = p} = {m \in acks : m[1] = p}
      BY <1>2, <1>3, <2>2
    <3>2. sem'[p] = sem[p] /\ pc'[p] = pc[p]
      BY <1>1, <1>2, <2>2 DEF TypeOK
    <3> QED BY <3>1, <3>2 DEF Inv, SemaphoreCounts
  <2> QED BY <2>1, <2>2
<1> QED BY <1>6, <1>9, <1>10, <1>11, <1>12, <1>13, <1>14 DEF Inv

LEMMA EmitStep ==
  ASSUME Inv, NEW q \in Queues, Emit(q)
  PROVE  Inv'
<1> DEFINE r == <<q, cur[q].k>>
<1>1. TypeOK
  BY DEF Inv
<1>2. /\ pc[q] = "emit"
      /\ pc' = [pc EXCEPT ![q] = IF cur[q].n - 1 = 0 THEN "recv" ELSE "emit"]
      /\ cur' = [cur EXCEPT ![q].n = cur[q].n - 1]
      /\ flying' = [flying EXCEPT ![r] = @ + 1]
      /\ UNCHANGED <<policy, phase, stopping, conn, faults, at, handled, open, todo,
                     acker, exiting, acks, left, sem>>
  BY DEF Emit, fixed, loop, broker, known
<1>3. r \in Messages /\ r[1] = q /\ r[2] = cur[q].k /\ cur[q].n \in Nat /\ cur[q].n > 0
  BY <1>2, HandOf DEF Inv, HandInv
<1>4. InHand(r) /\ Unsent(r) = cur[q].n /\ \A m \in Messages : m[1] = q /\ m # r => ~InHand(m)
  BY <1>2, HandOf
<1>5. /\ r \in acks /\ todo[r] = flying[r] + cur[q].n
      /\ todo[r] \in Nat /\ flying[r] \in Nat /\ todo[r] <= MaxEvents
  BY <1>1, <1>2, <1>3, <1>4, RabbitAssumption DEF Inv, AckInv, CountInv, TypeOK, Counts
<1>6. TypeOK'
  <2>1. cur[q] \in [k : 0 .. Length, n : Counts] /\ cur[q].n - 1 \in Counts
    <3>1. cur[q] \in [k : 0 .. Length, n : Counts]
      BY <1>1 DEF TypeOK
    <3>2. cur[q].n \in Counts
      BY <3>1
    <3>3. cur[q].n - 1 \in Counts
      BY <1>3, <3>2, RabbitAssumption DEF Counts
    <3> QED BY <3>1, <3>3
  <2>2. cur' \in [Queues -> [k : 0 .. Length, n : Counts]]
    BY <1>1, <1>2, <2>1 DEF TypeOK
  <2>3. flying' \in [Messages -> Counts]
    <3>1. flying[r] + 1 \in Counts
      BY <1>3, <1>5, RabbitAssumption DEF Counts
    <3> QED BY <1>1, <1>2, <3>1 DEF TypeOK
  <2>4. pc' \in [Queues -> {"off", "recv", "slot", "push", "zero", "emit", "exit", "wait"}]
    BY <1>1, <1>2 DEF TypeOK
  <2> QED BY <1>1, <1>2, <2>2, <2>3, <2>4 DEF TypeOK
<1>7. /\ cur'[q].n = cur[q].n - 1 /\ cur'[q].k = cur[q].k /\ flying'[r] = flying[r] + 1
      /\ pc'[q] = IF cur[q].n = 1 THEN "recv" ELSE "emit"
      /\ \A m \in Messages : m # r => flying'[m] = flying[m]
  BY <1>1, <1>2, <1>3 DEF TypeOK
<1>8. \A m \in Messages : m # r => InHand(m)' = InHand(m) /\ Unsent(m)' = Unsent(m)
  <2> SUFFICES ASSUME NEW m \in Messages, m # r
               PROVE  InHand(m)' = InHand(m) /\ Unsent(m)' = Unsent(m)
    OBVIOUS
  <2>1. CASE m[1] = q
    BY <1>3, <1>4, <1>7, <2>1, MessageParts DEF InHand, Unsent
  <2>2. CASE m[1] # q
    BY <1>1, <1>2, <2>2, MessageParts DEF InHand, Unsent, TypeOK
  <2> QED BY <2>1, <2>2
<1>9. InHand(r)' = (pc'[q] = "emit") /\ Unsent(r)' = cur[q].n - 1
  BY <1>3, <1>7 DEF InHand, Unsent
<1>10. CountInv'
  <2>1. todo'[r] = flying'[r] + Unsent(r)'
    BY <1>2, <1>3, <1>5, <1>7, <1>9
  <2> QED BY <1>2, <1>7, <1>8, <2>1 DEF Inv, CountInv
<1>11. AckInv'
  <2> SUFFICES ASSUME NEW m \in Messages
               PROVE  /\ m \in acks' => left'[m] = todo'[m]
                      /\ m \notin acks' => flying'[m] = 0
                      /\ m \in acks' /\ todo'[m] = 0 => InHand(m)' /\ pc'[m[1]] = "zero"
                      /\ InHand(m)' /\ pc'[m[1]] \in {"zero", "emit"} => m \in acks'
                      /\ InHand(m)' /\ pc'[m[1]] = "zero" => todo'[m] = 0
                      /\ InHand(m)' /\ pc'[m[1]] \in {"slot", "push"} => m \notin acks'
    BY DEF AckInv
  <2>1. CASE m = r
    <3>1. todo'[m] # 0 /\ todo'[m] = todo[m] /\ m \in acks' /\ left'[m] = todo[m]
      BY <1>2, <1>3, <1>5, <2>1 DEF Inv, AckInv
    <3>2. pc'[m[1]] \in {"recv", "emit"} /\ (InHand(m)' => pc'[m[1]] = "emit")
      BY <1>3, <1>7, <1>9, <2>1
    <3> QED BY <3>1, <3>2
  <2>2. CASE m # r
    <3>1. InHand(m) => m[1] # q
      BY <1>4, <2>2
    <3>2. InHand(m) => pc'[m[1]] = pc[m[1]]
      BY <1>1, <1>2, <3>1, MessageParts DEF TypeOK
    <3> QED BY <1>2, <1>7, <1>8, <2>2, <3>2 DEF Inv, AckInv
  <2> QED BY <2>1, <2>2
<1>12. OutInv' /\ HandledInv'
  <2>1. \A m \in Messages : InHand(m)' => InHand(m)
    BY <1>4, <1>8
  <2> QED BY <1>2, <2>1 DEF Inv, OutInv, HandledInv
<1>13. HandInv'
  <2> SUFFICES ASSUME NEW p \in Queues
               PROVE  /\ pc'[p] \in {"slot", "push", "zero", "emit"} => cur'[p].k \in 1 .. Length
                      /\ pc'[p] = "zero" => cur'[p].n = 0
                      /\ pc'[p] = "emit" => cur'[p].n > 0
    BY DEF HandInv
  <2>1. CASE p = q
    BY <1>2, <1>3, <1>7, <2>1 DEF Inv, HandInv
  <2>2. CASE p # q
    BY <1>1, <1>2, <2>2 DEF Inv, HandInv, TypeOK
  <2> QED BY <2>1, <2>2
<1>14. AckerInv' /\ PhaseInv'
  BY <1>1, <1>2 DEF Inv, AckerInv, PhaseInv, AllEnded, Known, TypeOK
<1>15. SemaphoreCounts'
  BY <1>1, <1>2 DEF Inv, SemaphoreCounts, TypeOK
<1> QED BY <1>6, <1>10, <1>11, <1>12, <1>13, <1>14, <1>15 DEF Inv

\* The consumer leaves: no message is in its hands.
LEMMA HandsFree ==
  ASSUME TypeOK, NEW q \in Queues, NEW to \in {"exit", "wait", "off"},
         pc[q] \in {"recv", "exit", "wait"}, pc' = [pc EXCEPT ![q] = to], cur' = cur
  PROVE  /\ pc' \in [Queues -> {"off", "recv", "slot", "push", "zero", "emit", "exit", "wait"}]
         /\ \A m \in Messages : InHand(m)' = InHand(m) /\ Unsent(m)' = Unsent(m)
         /\ \A m \in Messages : InHand(m) => pc'[m[1]] = pc[m[1]]
         /\ \A p \in Queues : p # q => pc'[p] = pc[p]
         /\ pc'[q] = to
<1>1. /\ pc' \in [Queues -> {"off", "recv", "slot", "push", "zero", "emit", "exit", "wait"}]
      /\ pc'[q] = to /\ \A p \in Queues : p # q => pc'[p] = pc[p]
  BY DEF TypeOK
<1>2. \A m \in Messages : InHand(m)' = InHand(m)
  BY <1>1, MessageParts DEF InHand
<1>3. \A m \in Messages : InHand(m) => pc'[m[1]] = pc[m[1]]
  BY <1>1, MessageParts DEF InHand
<1> QED BY <1>1, <1>2, <1>3 DEF Unsent

LEMMA LeaveLoopStep ==
  ASSUME Inv, NEW q \in Queues, LeaveLoop(q)
  PROVE  Inv'
<1>1. TypeOK
  BY DEF Inv
<1>2. /\ pc[q] = "recv" /\ pc' = [pc EXCEPT ![q] = "exit"]
      /\ UNCHANGED <<policy, phase, stopping, conn, faults, at, handled, open, cur, todo, flying,
                     acker, exiting, acks, left, sem>>
  BY DEF LeaveLoop, fixed, loop, broker, pipeline, known
<1>3. /\ pc' \in [Queues -> {"off", "recv", "slot", "push", "zero", "emit", "exit", "wait"}]
      /\ \A m \in Messages : InHand(m)' = InHand(m) /\ Unsent(m)' = Unsent(m)
      /\ \A m \in Messages : InHand(m) => pc'[m[1]] = pc[m[1]]
      /\ \A p \in Queues : p # q => pc'[p] = pc[p]
      /\ pc'[q] = "exit"
  BY <1>1, <1>2, HandsFree
<1>4. TypeOK'
  BY <1>1, <1>2, <1>3 DEF TypeOK
<1>5. CountInv' /\ AckInv' /\ OutInv' /\ HandledInv'
  BY <1>2, <1>3 DEF Inv, CountInv, AckInv, OutInv, HandledInv
<1>6. HandInv' /\ AckerInv'
  BY <1>2, <1>3 DEF Inv, HandInv, AckerInv, Known
<1>7. PhaseInv' /\ SemaphoreCounts'
  BY <1>2, <1>3 DEF Inv, PhaseInv, AllEnded, SemaphoreCounts
<1> QED BY <1>4, <1>5, <1>6, <1>7 DEF Inv

LEMMA ConsumerExitStep ==
  ASSUME Inv, NEW q \in Queues, ConsumerExit(q)
  PROVE  Inv'
<1>1. TypeOK
  BY DEF Inv
<1>2. /\ pc[q] = "exit" /\ acker[q] = "run" /\ pc' = [pc EXCEPT ![q] = "wait"]
      /\ exiting' = exiting \cup {q}
      /\ acker' = IF sem[q] = 0 THEN [acker EXCEPT ![q] = "done"] ELSE acker
      /\ UNCHANGED <<policy, phase, stopping, conn, faults, at, handled, open, cur, todo, flying,
                     acks, left, sem>>
  BY DEF ConsumerExit, ExitDue, fixed, loop, broker, pipeline
<1>3. /\ pc' \in [Queues -> {"off", "recv", "slot", "push", "zero", "emit", "exit", "wait"}]
      /\ \A m \in Messages : InHand(m)' = InHand(m) /\ Unsent(m)' = Unsent(m)
      /\ \A m \in Messages : InHand(m) => pc'[m[1]] = pc[m[1]]
      /\ \A p \in Queues : p # q => pc'[p] = pc[p]
      /\ pc'[q] = "wait"
  BY <1>1, <1>2, HandsFree
<1>4. acker' \in [Queues -> {"off", "run", "done"}] /\ \A p \in Queues : p # q => acker'[p] = acker[p]
  BY <1>1, <1>2 DEF TypeOK
<1>5. TypeOK'
  BY <1>1, <1>2, <1>3, <1>4 DEF TypeOK
<1>6. CountInv' /\ AckInv' /\ OutInv' /\ HandledInv'
  BY <1>2, <1>3 DEF Inv, CountInv, AckInv, OutInv, HandledInv
<1>7. HandInv'
  BY <1>2, <1>3 DEF Inv, HandInv
<1>8. acker'[q] # "run" => Known(q) = {}
  BY <1>1, <1>2, NoneKnown DEF Inv
<1>9. AckerInv'
  BY <1>2, <1>3, <1>4, <1>8 DEF Inv, AckerInv, Known
<1>10. PhaseInv' /\ SemaphoreCounts'
  BY <1>2, <1>3 DEF Inv, PhaseInv, AllEnded, SemaphoreCounts
<1> QED BY <1>5, <1>6, <1>7, <1>9, <1>10 DEF Inv

LEMMA ConsumerDoneStep ==
  ASSUME Inv, NEW q \in Queues, ConsumerDone(q)
  PROVE  Inv'
<1>1. TypeOK
  BY DEF Inv
<1>2. /\ pc[q] = "wait" /\ acker[q] = "done" /\ pc' = [pc EXCEPT ![q] = "off"]
      /\ open' = open \ {q} /\ at' = Requeued({q})
      /\ UNCHANGED <<policy, phase, stopping, conn, faults, handled, cur, todo, flying,
                     acker, exiting, acks, left, sem>>
  BY DEF ConsumerDone, fixed, loop, pipeline, known
<1>3. /\ pc' \in [Queues -> {"off", "recv", "slot", "push", "zero", "emit", "exit", "wait"}]
      /\ \A m \in Messages : InHand(m)' = InHand(m) /\ Unsent(m)' = Unsent(m)
      /\ \A m \in Messages : InHand(m) => pc'[m[1]] = pc[m[1]]
      /\ \A p \in Queues : p # q => pc'[p] = pc[p]
      /\ pc'[q] = "off"
  BY <1>1, <1>2, HandsFree
<1>4. /\ at' \in [Messages -> {"ready", "out", "acked", "rejected"}]
      /\ \A m \in Messages : m[1] # q => at'[m] = at[m]
      /\ \A m \in Messages : at'[m] = "acked" => at[m] = "acked"
  BY <1>1, <1>2 DEF TypeOK, Requeued
<1>5. TypeOK'
  BY <1>1, <1>2, <1>3, <1>4 DEF TypeOK
<1>6. CountInv' /\ AckInv'
  BY <1>2, <1>3 DEF Inv, CountInv, AckInv
<1>7. OutInv' /\ HandledInv'
  BY <1>2, <1>3, <1>4 DEF Inv, OutInv, HandledInv
<1>8. HandInv' /\ AckerInv'
  BY <1>2, <1>3 DEF Inv, HandInv, AckerInv, Known
<1>9. PhaseInv' /\ SemaphoreCounts'
  BY <1>2, <1>3 DEF Inv, PhaseInv, AllEnded, SemaphoreCounts
<1> QED BY <1>5, <1>6, <1>7, <1>8, <1>9 DEF Inv

-----------------------------------------------------------------------------
(* Reports.                                                                *)

\* A message leaves the map of its acker and its slot is free.
LEMMA MessageLeaves ==
  ASSUME Inv, NEW r \in acks, acks' = acks \ {r},
         sem' = [sem EXCEPT ![r[1]] = @ - 1],
         \A p \in Queues : pc'[p] = "push" <=> pc[p] = "push"
  PROVE  /\ sem' \in [Queues -> 0 .. MaxUndelivered] /\ SemaphoreCounts'
         /\ sem'[r[1]] = 0 => {m \in acks' : m[1] = r[1]} = {}
<1>1. TypeOK
  BY DEF Inv
<1>2. r \in Messages /\ r[1] \in Queues /\ r \in Known(r[1])
  BY <1>1, MessageParts DEF TypeOK, Known
<1> DEFINE q == r[1]
           c == Cardinality(Known(q))
<1>3. IsFiniteSet(Known(q)) /\ c \in Nat
  BY <1>1, <1>2, KnownIsFinite
<1>4. /\ {m \in acks' : m[1] = q} = Known(q) \ {r}
      /\ IsFiniteSet(Known(q) \ {r}) /\ Cardinality(Known(q) \ {r}) = c - 1
  BY <1>2, <1>3, FS_RemoveElement DEF Known
<1>5. c - 1 \in Nat
  BY <1>4, FS_CardinalityType
<1>6. sem[q] = c + Slot(q) /\ Slot(q) \in {0, 1} /\ sem[q] \in 0 .. MaxUndelivered
  BY <1>1, <1>2 DEF Inv, SemaphoreCounts, Known, Slot, TypeOK
<1>7. sem'[q] = sem[q] - 1 /\ sem'[q] \in 0 .. MaxUndelivered
  BY <1>1, <1>2, <1>3, <1>5, <1>6, RabbitAssumption DEF TypeOK
<1>8. \A p \in Queues : p # q => sem'[p] = sem[p]
  BY <1>1, <1>2 DEF TypeOK
<1>9. sem' \in [Queues -> 0 .. MaxUndelivered]
  BY <1>1, <1>2, <1>7 DEF TypeOK
<1>10. SemaphoreCounts'
  <2> SUFFICES ASSUME NEW p \in Queues
               PROVE  sem'[p] = Cardinality({m \in acks' : m[1] = p})
                               + (IF pc'[p] = "push" THEN 1 ELSE 0)
    BY DEF SemaphoreCounts
  <2>1. CASE p = q
    <3>1. Cardinality({m \in acks' : m[1] = p}) = c - 1
      BY <1>4, <2>1, Zenon
    <3>2. (IF pc'[p] = "push" THEN 1 ELSE 0) = Slot(q)
      BY <2>1 DEF Slot
    <3>3. sem'[p] = c - 1 + Slot(q)
      BY <1>3, <1>6, <1>7, <2>1
    <3> QED BY <3>1, <3>2, <3>3
  <2>2. CASE p # q
    <3>1. {m \in acks' : m[1] = p} = {m \in acks : m[1] = p}
      BY <1>2, <2>2
    <3>2. sem'[p] = sem[p]
      BY <1>8, <2>2
    <3> QED BY <3>1, <3>2 DEF Inv, SemaphoreCounts
  <2> QED BY <2>1, <2>2
<1>11. sem'[q] = 0 => Known(q) \ {r} = {}
  <2>1. sem'[q] = 0 => c - 1 = 0
    BY <1>3, <1>5, <1>6, <1>7
  <2> QED BY <1>4, <2>1, FS_EmptySet
<1> QED BY <1>4, <1>9, <1>10, <1>11

LEMMA ReportEmptyStep ==
  ASSUME Inv, NEW q \in Queues, ReportEmpty(q)
  PROVE  Inv'
<1> DEFINE r == <<q, cur[q].k>>
<1>1. TypeOK
  BY DEF Inv
<1>2. pc[q] = "zero" /\ Reported(q, r)
  BY DEF ReportEmpty
<1>3. r \in Messages /\ r[1] = q /\ InHand(r) /\ \A m \in Messages : m[1] = q /\ m # r => ~InHand(m)
  BY <1>2, HandOf
<1>4. r \in acks /\ todo[r] = 0 /\ left[r] = 0
  BY <1>2, <1>3 DEF Inv, AckInv
<1>5. flying[r] = 0 /\ r \in handled
  <2>1. flying[r] \in Nat /\ Unsent(r) = 0
    BY <1>1, <1>2, <1>3 DEF TypeOK, Counts, Unsent, Inv, HandInv
  <2> QED BY <1>3, <1>4, <2>1 DEF Inv, CountInv, HandledInv
<1>6. q \notin exiting
  BY <1>2 DEF Inv, AckerInv
<1>7. /\ acks' = acks \ {r} /\ left' = [left EXCEPT ![r] = 0]
      /\ at' = IF q \in open THEN [at EXCEPT ![r] = "acked"] ELSE at
      /\ sem' = [sem EXCEPT ![q] = @ - 1]
      /\ exiting' = exiting /\ acker[q] = "run"
      /\ acker' = [acker EXCEPT ![q] = IF q \in exiting /\ sem'[q] = 0 THEN "done" ELSE @]
  BY <1>2, <1>4 DEF Reported, LastEvent, Freed, ExitDue
<1>8. acker' = acker
  BY <1>1, <1>6, <1>7 DEF TypeOK
<1>9. /\ pc' = [pc EXCEPT ![q] = "recv"]
      /\ UNCHANGED <<policy, phase, stopping, conn, faults, handled, open, cur, todo, flying>>
  BY DEF ReportEmpty, fixed, loop, pipeline
<1>10. /\ pc' \in [Queues -> {"off", "recv", "slot", "push", "zero", "emit", "exit", "wait"}]
       /\ pc'[q] = "recv" /\ \A p \in Queues : p # q => pc'[p] = pc[p]
  BY <1>1, <1>9 DEF TypeOK
<1>11. /\ sem' \in [Queues -> 0 .. MaxUndelivered] /\ SemaphoreCounts'
  <2>1. \A p \in Queues : pc'[p] = "push" <=> pc[p] = "push"
    BY <1>2, <1>10
  <2> QED BY <1>3, <1>4, <1>7, <2>1, MessageLeaves
<1>12. TypeOK'
  <2>1. acks' \subseteq Messages /\ left' \in [Messages -> Counts]
    BY <1>1, <1>3, <1>7, RabbitAssumption DEF TypeOK, Counts
  <2>2. at' \in [Messages -> {"ready", "out", "acked", "rejected"}]
    BY <1>1, <1>3, <1>7 DEF TypeOK
  <2> QED BY <1>1, <1>7, <1>8, <1>9, <1>10, <1>11, <2>1, <2>2 DEF TypeOK
<1>13. /\ \A m \in Messages : m # r => InHand(m)' = InHand(m) /\ Unsent(m)' = Unsent(m)
       /\ ~InHand(r)' /\ Unsent(r)' = 0
       /\ \A m \in Messages : InHand(m) /\ m # r => pc'[m[1]] = pc[m[1]]
  <2>1. ~InHand(r)' /\ Unsent(r)' = 0
    BY <1>3, <1>10 DEF InHand, Unsent
  <2>2. \A m \in Messages : InHand(m) /\ m # r => pc'[m[1]] = pc[m[1]]
    BY <1>3, <1>10, MessageParts
  <2>3. \A m \in Messages : m # r => InHand(m)' = InHand(m)
    BY <1>3, <1>9, <1>10, MessageParts DEF InHand
  <2>4. \A m \in Messages : m # r => Unsent(m)' = Unsent(m)
    BY <1>9, <2>3 DEF Unsent
  <2> QED BY <2>1, <2>2, <2>3, <2>4
<1>14. CountInv'
  BY <1>4, <1>5, <1>9, <1>13 DEF Inv, CountInv
<1>15. \A m \in Messages : m # r => left'[m] = left[m] /\ at'[m] = at[m] /\ (m \in acks' <=> m \in acks)
  BY <1>1, <1>3, <1>7 DEF TypeOK
<1>16. AckInv'
  <2>1. r \notin acks'
    BY <1>7
  <2> QED BY <1>5, <1>9, <1>13, <1>15, <2>1 DEF Inv, AckInv
<1>17. OutInv' /\ HandledInv'
  BY <1>5, <1>7, <1>9, <1>13, <1>15 DEF Inv, OutInv, HandledInv
<1>18. HandInv' /\ AckerInv' /\ PhaseInv'
  BY <1>2, <1>7, <1>8, <1>9, <1>10 DEF Inv, HandInv, AckerInv, Known, PhaseInv, AllEnded
<1> QED BY <1>11, <1>12, <1>14, <1>16, <1>17, <1>18 DEF Inv

\* What a report of an event of r finds: r is in the map, and counts what is missing.
LEMMA Reporting ==
  ASSUME Inv, NEW r \in Messages, Deliver(r)
  PROVE  /\ r[1] \in Queues /\ r \in acks /\ acker[r[1]] = "run"
         /\ flying[r] \in Nat \ {0} /\ todo[r] \in Nat \ {0} /\ Unsent(r) \in Nat
         /\ todo[r] = flying[r] + Unsent(r) /\ left[r] = todo[r]
         /\ InHand(r) => pc[r[1]] = "emit" /\ Unsent(r) > 0
<1>1. TypeOK /\ r[1] \in Queues
  BY MessageParts DEF Inv
<1>2. flying[r] > 0 /\ acker[r[1]] = "run"
  BY DEF Deliver, Reported
<1>3. flying[r] \in Nat /\ todo[r] \in Nat
  BY <1>1 DEF TypeOK, Counts
<1>4. r \in acks /\ left[r] = todo[r]
  BY <1>2 DEF Inv, AckInv
<1>5. todo[r] = flying[r] + Unsent(r)
  BY DEF Inv, CountInv
<1>6. Unsent(r) \in Nat
  BY <1>1, HandOf DEF InHand, Unsent, TypeOK, Counts
<1>7. todo[r] # 0
  BY <1>2, <1>3, <1>5, <1>6
<1>8. InHand(r) => pc[r[1]] = "emit" /\ Unsent(r) > 0
  BY <1>1, <1>4, <1>7 DEF Inv, AckInv, HandInv, InHand, Unsent
<1> QED BY <1>1, <1>2, <1>3, <1>4, <1>5, <1>6, <1>7, <1>8

LEMMA DeliverStep ==
  ASSUME Inv, NEW r \in Messages, Deliver(r)
  PROVE  Inv'
<1> DEFINE q == r[1]
<1>1. TypeOK
  BY DEF Inv
<1>2. /\ q \in Queues /\ r \in acks /\ acker[q] = "run"
      /\ flying[r] \in Nat \ {0} /\ todo[r] \in Nat \ {0} /\ Unsent(r) \in Nat
      /\ todo[r] = flying[r] + Unsent(r) /\ left[r] = todo[r]
      /\ InHand(r) => pc[q] = "emit" /\ Unsent(r) > 0
  BY Reporting
<1>3. /\ flying' = [flying EXCEPT ![r] = @ - 1] /\ todo' = [todo EXCEPT ![r] = @ - 1]
      /\ handled' = IF todo[r] = 1 THEN handled \cup {r} ELSE handled
      /\ exiting' = exiting
      /\ acker' = [acker EXCEPT ![q] = IF q \in exiting /\ sem'[q] = 0 THEN "done" ELSE @]
      /\ UNCHANGED <<policy, phase, stopping, conn, faults, open, pc, cur>>
  BY DEF Deliver, Reported, ExitDue, fixed, loop, consumer
<1>4. \A m \in Messages : InHand(m)' = InHand(m) /\ Unsent(m)' = Unsent(m)
  BY <1>3 DEF InHand, Unsent
<1>5. /\ flying'[r] = flying[r] - 1 /\ todo'[r] = todo[r] - 1
      /\ \A m \in Messages : m # r => flying'[m] = flying[m] /\ todo'[m] = todo[m]
  BY <1>1, <1>3 DEF TypeOK
<1>6. flying' \in [Messages -> Counts] /\ todo' \in [Messages -> Counts] /\ handled' \subseteq Messages
  <2>1. flying[r] - 1 \in Counts /\ todo[r] - 1 \in Counts
    BY <1>1, <1>2, RabbitAssumption DEF TypeOK, Counts
  <2> QED BY <1>1, <1>3, <2>1 DEF TypeOK
<1>7. /\ acker' \in [Queues -> {"off", "run", "done"}]
      /\ \A p \in Queues : p # q => acker'[p] = acker[p]
      /\ acker'[q] # "run" => q \in exiting /\ sem'[q] = 0
  BY <1>1, <1>2, <1>3 DEF TypeOK
<1>8. CountInv'
  <2>1. todo'[r] = flying'[r] + Unsent(r)'
    BY <1>2, <1>4, <1>5
  <2> QED BY <1>4, <1>5, <2>1 DEF Inv, CountInv
<1>9. HandInv' /\ PhaseInv'
  <2>1. HandInv'
    BY <1>3 DEF Inv, HandInv
  <2>2. PhaseInv'
    BY <1>2, <1>3 DEF Inv, PhaseInv, AllEnded
  <2> QED BY <2>1, <2>2
<1>10. CASE LastEvent(r)
  <2>1. todo[r] = 1 /\ flying[r] = 1 /\ ~InHand(r)
    BY <1>2, <1>10 DEF LastEvent
  <2>2. /\ acks' = acks \ {r} /\ left' = [left EXCEPT ![r] = 0]
        /\ at' = IF q \in open THEN [at EXCEPT ![r] = "acked"] ELSE at
        /\ sem' = [sem EXCEPT ![q] = @ - 1]
    BY <1>2, <1>10 DEF Deliver, Reported, Freed
  <2>3. /\ sem' \in [Queues -> 0 .. MaxUndelivered] /\ SemaphoreCounts'
        /\ sem'[q] = 0 => {m \in acks' : m[1] = q} = {}
    BY <1>2, <1>3, <2>2, MessageLeaves
  <2>4. TypeOK'
    <3>1. acks' \subseteq Messages /\ left' \in [Messages -> Counts]
      BY <1>1, <2>2, RabbitAssumption DEF TypeOK, Counts
    <3>2. at' \in [Messages -> {"ready", "out", "acked", "rejected"}]
      BY <1>1, <2>2 DEF TypeOK
    <3> QED BY <1>1, <1>3, <1>6, <1>7, <2>3, <3>1, <3>2 DEF TypeOK
  <2>5. /\ r \notin acks' /\ flying'[r] = 0 /\ r \in handled'
        /\ \A m \in Messages : m # r =>
             left'[m] = left[m] /\ at'[m] = at[m] /\ (m \in acks' <=> m \in acks)
    BY <1>1, <1>3, <1>5, <2>1, <2>2 DEF TypeOK
  <2>6. AckInv'
    BY <1>3, <1>4, <1>5, <2>1, <2>5 DEF Inv, AckInv
  <2>7. OutInv' /\ HandledInv'
    BY <1>3, <1>4, <1>5, <2>1, <2>5 DEF Inv, OutInv, HandledInv
  <2>8. AckerInv'
    <3>1. \A p \in Queues : p # q => Known(p)' = Known(p)
      BY <2>2 DEF Known
    <3> QED BY <1>3, <1>7, <2>3, <3>1 DEF Inv, AckerInv, Known
  <2> QED BY <1>8, <1>9, <2>3, <2>4, <2>6, <2>7, <2>8 DEF Inv
<1>11. CASE ~LastEvent(r)
  <2>1. todo[r] > 1
    BY <1>2, <1>11 DEF LastEvent
  <2>2. left' = [left EXCEPT ![r] = @ - 1] /\ acks' = acks /\ at' = at /\ sem' = sem
    BY <1>2, <1>11 DEF Deliver, Reported
  <2>3. TypeOK'
    <3>1. left[r] - 1 \in Counts
      <4>1. todo[r] \in Counts
        BY <1>1 DEF TypeOK
      <4> QED BY <1>2, <4>1, RabbitAssumption DEF Counts
    <3>2. left' \in [Messages -> Counts]
      BY <1>1, <2>2, <3>1 DEF TypeOK
    <3> QED BY <1>1, <1>3, <1>6, <1>7, <2>2, <3>2 DEF TypeOK
  <2>4. /\ left'[r] = todo'[r] /\ todo'[r] # 0
        /\ \A m \in Messages : m # r => left'[m] = left[m]
    BY <1>1, <1>2, <1>5, <2>1, <2>2 DEF TypeOK
  <2>5. AckInv'
    BY <1>2, <1>3, <1>4, <1>5, <2>2, <2>4 DEF Inv, AckInv
  <2>6. OutInv' /\ HandledInv'
    BY <1>3, <1>4, <1>5, <2>2, <2>4 DEF Inv, OutInv, HandledInv
  <2>7. SemaphoreCounts'
    BY <1>3, <2>2 DEF Inv, SemaphoreCounts
  <2>8. AckerInv'
    <3>1. sem[q] = 0 => Known(q) = {}
      BY <1>1, <1>2, NoneKnown DEF Inv
    <3> QED BY <1>3, <1>7, <2>2, <3>1 DEF Inv, AckerInv, Known
  <2> QED BY <1>8, <1>9, <2>3, <2>5, <2>6, <2>7, <2>8 DEF Inv
<1> QED BY <1>10, <1>11

-----------------------------------------------------------------------------
(* The theorems.                                                           *)

LEMMA NextInv == Inv /\ [Next]_vars => Inv'
<1> SUFFICES ASSUME Inv, [Next]_vars PROVE Inv'
  OBVIOUS
<1>1. CASE Reconnect \/ Ended \/ Leave \/ Stop
  BY <1>1, LoopStep
<1>2. CASE \E S \in SUBSET Queues : Start(S) \/ Break(S)
  BY <1>2, StartStep, BreakStep
<1>3. CASE \E q \in Queues : Work(q)
  BY <1>3, TakeSlotStep, PushStep, EmitStep, ReportEmptyStep, LeaveLoopStep, ConsumerExitStep,
     ConsumerDoneStep DEF Work
<1>4. CASE \E q \in Queues : Fetch(q)
  BY <1>4, RejectStep, ReceiveStep DEF Fetch
<1>5. CASE \E m \in Messages : Deliver(m)
  BY <1>5, DeliverStep
<1>6. CASE UNCHANGED vars
  <2>1. UNCHANGED <<policy, phase, stopping, conn, faults, at, handled, open, pc, cur, todo, flying,
                    acker, exiting, acks, left, sem>>
    BY <1>6 DEF vars, fixed, loop, broker, consumer, pipeline, known
  <2>2. TypeOK' /\ PhaseInv'
    BY <2>1 DEF Inv, TypeOK, PhaseInv, AllEnded
  <2> QED BY <2>1, <2>2, QuietStep
<1> QED BY <1>1, <1>2, <1>3, <1>4, <1>5, <1>6 DEF Next

LEMMA InvAlways == Spec => []Inv
<1>1. Inv /\ [Next]_vars => Inv'
  BY NextInv
<1> QED BY InitInv, <1>1, PTL DEF Spec

\* The RabbitMQ input is well typed for any number of queues and messages; no semaphore
\* goes beyond max_undelivered (consumer.go:101).
THEOREM TypeCorrect == Spec => []TypeOK
<1>1. Inv => TypeOK
  BY DEF Inv
<1> QED BY InvAlways, <1>1, PTL

\* A semaphore counts the messages in the map of its acker, so it is empty when the last
\* one was acknowledged (consumer.go:209).
THEOREM SemaphoreCorrect == Spec => []SemaphoreCounts
<1>1. Inv => SemaphoreCounts
  BY DEF Inv
<1> QED BY InvAlways, <1>1, PTL

\* "unexpected case, delivered tag not in map" does not happen (consumer.go:175).
THEOREM TagsCorrect == Spec => []TagsAreKnown
<1>1. Inv => TagsAreKnown
  BY DEF Inv, TagsAreKnown, AckInv, TypeOK, Counts
<1> QED BY InvAlways, <1>1, PTL

\* When an acker has returned no hook of its messages is left (consumer.go:150).
THEOREM DoneCorrect == Spec => []DoneIsClean
<1>1. Inv => DoneIsClean
  BY MessageParts DEF Inv, DoneIsClean, AckInv, AckerInv, Known
<1> QED BY InvAlways, <1>1, PTL

-----------------------------------------------------------------------------
(* The refinement of SourceContract.                                       *)

\* The messages the broker considers done.
Confirmed == {m \in Messages : at[m] = "acked"}

LEMMA QuietRefines ==
  ASSUME handled' = handled, Confirmed' = Confirmed
  PROVE  [Contract!Next]_(Contract!vars)
BY DEF Contract!vars, Confirmed

\* What is out at a closed channel is not acknowledged, nor what the channel is closed for.
LEMMA RequeuedRefines ==
  ASSUME NEW S, handled' = handled, at' = Requeued(S)
  PROVE  [Contract!Next]_(Contract!vars)
<1>1. Confirmed' = Confirmed
  BY DEF Confirmed, Requeued
<1> QED BY <1>1, QuietRefines

LEMMA ReceiveRefines ==
  ASSUME Inv, NEW q \in Queues, NEW k \in 1 .. Length, NEW n \in Counts, Receive(q, k, n)
  PROVE  [Contract!Next]_(Contract!vars)
<1>1. /\ <<q, k>> \in Messages /\ at[<<q, k>>] = "ready" /\ at' = [at EXCEPT ![<<q, k>>] = "out"]
      /\ handled' = IF n = 0 THEN handled \cup {<<q, k>>} ELSE handled
  BY MessageParts DEF Receive
<1>2. Confirmed' = Confirmed
  BY <1>1 DEF Inv, TypeOK, Confirmed
<1>3. CASE n = 0
  BY <1>1, <1>2, <1>3 DEF Contract!Next, Contract!Handle, Confirmed
<1>4. CASE n # 0
  BY <1>1, <1>2, <1>4, QuietRefines
<1> QED BY <1>3, <1>4

\* A step that acknowledges r, where the channel is open.
LEMMA AckIs ==
  ASSUME Inv, NEW r \in Messages,
         at' = IF r[1] \in open THEN [at EXCEPT ![r] = "acked"] ELSE at
  PROVE  Confirmed' = IF r[1] \in open THEN Confirmed \cup {r} ELSE Confirmed
BY DEF Inv, TypeOK, Confirmed

LEMMA ReportEmptyRefines ==
  ASSUME Inv, NEW q \in Queues, ReportEmpty(q)
  PROVE  [Contract!Next]_(Contract!vars)
<1> DEFINE r == <<q, cur[q].k>>
<1>1. pc[q] = "zero" /\ Reported(q, r) /\ handled' = handled
  BY DEF ReportEmpty
<1>2. r \in Messages /\ r[1] = q /\ InHand(r)
  BY <1>1, HandOf
<1>3. r \in acks /\ left[r] = 0 /\ r \in handled
  BY <1>1, <1>2 DEF Inv, AckInv, HandledInv
<1>4. at' = IF r[1] \in open THEN [at EXCEPT ![r] = "acked"] ELSE at
  BY <1>1, <1>2, <1>3 DEF Reported, LastEvent
<1>5. Confirmed' = IF r[1] \in open THEN Confirmed \cup {r} ELSE Confirmed
  BY <1>2, <1>4, AckIs
<1>6. CASE r[1] \in open
  <2>1. PICK S : S = {r}
    OBVIOUS
  <2>2. S \in SUBSET Messages /\ S \subseteq handled /\ Confirmed' = Confirmed \cup S
    BY <1>2, <1>3, <1>5, <1>6, <2>1
  <2>3. Contract!Confirm(S)
    BY <1>1, <2>2 DEF Contract!Confirm, Confirmed
  <2> QED BY <2>2, <2>3 DEF Contract!Next
<1>7. CASE r[1] \notin open
  BY <1>1, <1>5, <1>7, QuietRefines
<1> QED BY <1>6, <1>7

LEMMA DeliverRefines ==
  ASSUME Inv, NEW r \in Messages, Deliver(r)
  PROVE  [Contract!Next]_(Contract!vars)
<1>1. r \in acks /\ left[r] = todo[r] /\ todo[r] \in Nat \ {0}
  BY Reporting
<1>2. handled' = IF todo[r] = 1 THEN handled \cup {r} ELSE handled
  BY DEF Deliver
<1>3. CASE LastEvent(r)
  <2>1. handled' = handled \cup {r}
    BY <1>1, <1>2, <1>3 DEF LastEvent
  <2>2. at' = IF r[1] \in open THEN [at EXCEPT ![r] = "acked"] ELSE at
    BY <1>1, <1>3 DEF Deliver, Reported
  <2>3. Confirmed' = IF r[1] \in open THEN Confirmed \cup {r} ELSE Confirmed
    BY <2>2, AckIs
  <2>4. CASE r[1] \in open
    BY <2>1, <2>3, <2>4 DEF Contract!Next, Contract!HandleAndConfirm, Confirmed
  <2>5. CASE r[1] \notin open
    BY <2>1, <2>3, <2>5 DEF Contract!Next, Contract!Handle, Confirmed
  <2> QED BY <2>4, <2>5
<1>4. CASE ~LastEvent(r)
  <2>1. handled' = handled /\ at' = at
    BY <1>1, <1>2, <1>4 DEF LastEvent, Deliver, Reported
  <2>2. Confirmed' = Confirmed
    BY <2>1 DEF Confirmed
  <2> QED BY <2>1, <2>2, QuietRefines
<1> QED BY <1>3, <1>4

LEMMA StepRefines ==
  ASSUME Inv, [Next]_vars
  PROVE  [Contract!Next]_(Contract!vars)
<1>1. CASE UNCHANGED <<at, handled>>
  <2>1. Confirmed' = Confirmed
    BY <1>1 DEF Confirmed
  <2> QED BY <1>1, <2>1, QuietRefines
<1>2. CASE Reconnect \/ Ended \/ Leave \/ Stop \/ UNCHANGED vars
  <2>1. UNCHANGED <<at, handled>>
    BY <1>2 DEF Reconnect, Ended, Leave, Stop, broker, vars
  <2> QED BY <1>1, <2>1
<1>3. ASSUME NEW S \in SUBSET Queues, Start(S) \/ Break(S)
      PROVE  [Contract!Next]_(Contract!vars)
  <2>1. CASE Start(S)
    BY <1>1, <2>1 DEF Start
  <2>2. CASE Break(S)
    BY <2>2, RequeuedRefines DEF Break
  <2> QED BY <1>3, <2>1, <2>2
<1>4. ASSUME NEW q \in Queues, Work(q)
      PROVE  [Contract!Next]_(Contract!vars)
  <2>1. CASE TakeSlot(q) \/ Push(q) \/ Emit(q) \/ LeaveLoop(q) \/ ConsumerExit(q)
    <3>1. UNCHANGED <<at, handled>>
      BY <2>1 DEF TakeSlot, Push, Emit, LeaveLoop, ConsumerExit, broker
    <3> QED BY <1>1, <3>1
  <2>2. CASE ConsumerDone(q)
    BY <2>2, RequeuedRefines DEF ConsumerDone
  <2>3. CASE ReportEmpty(q)
    BY <2>3, ReportEmptyRefines
  <2> QED BY <1>4, <2>1, <2>2, <2>3 DEF Work
<1>5. ASSUME NEW q \in Queues, NEW k \in 1 .. Length, Reject(q, k)
      PROVE  [Contract!Next]_(Contract!vars)
  <2>1. /\ <<q, k>> \in Messages /\ at[<<q, k>>] = "ready" /\ handled' = handled
        /\ at' = [at EXCEPT ![<<q, k>>] = "rejected"]
    BY <1>5, MessageParts DEF Reject
  <2>2. Confirmed' = Confirmed
    BY <2>1 DEF Inv, TypeOK, Confirmed
  <2> QED BY <2>1, <2>2, QuietRefines
<1>6. CASE \E q \in Queues : Fetch(q)
  BY <1>5, <1>6, ReceiveRefines DEF Fetch
<1>7. CASE \E m \in Messages : Deliver(m)
  BY <1>7, DeliverRefines
<1> QED BY <1>2, <1>3, <1>4, <1>6, <1>7 DEF Next

\* The RabbitMQ input implements the contract of a source: only what the pipeline has
\* handled is acknowledged, over lost channels and connections (consumer.go:181, 198).
THEOREM SourceCorrect == Spec => SourceSpec
<1>1. Init => Contract!Init
  BY DEF Init, Contract!Init
<1>2. Inv /\ [Next]_vars => [Contract!Next]_(Contract!vars)
  BY StepRefines
<1> QED BY <1>1, <1>2, InvAlways, PTL DEF Spec, SourceSpec, Contract!Spec
=============================================================================
