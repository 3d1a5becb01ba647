-------------------------- MODULE KafkaCommitProofs --------------------------
(***************************************************************************)
(* The commit controller of the Kafka input confirms only what was         *)
(* handled, and is left clean, for any number of partitions, messages,     *)
(* events and generations.                                                 *)
(***************************************************************************)
EXTENDS KafkaCommit, FiniteSetTheorems, WellFoundedInduction, TLAPS

Holding(p) == pc[p] \in {"slot", "push"}   \* a message that is not queued yet
Working == {p \in Parts : pc[p] \notin {"wait", "off"}}
Due(p, o) == IF pc[p] \in {"slot", "push", "emit"} /\ cur[p].off = o THEN cur[p].n ELSE 0

\* A queue holds its messages in the order of the partition, from the committed
\* offset up to the one that is fetched next.
OrderOf(p) ==
  /\ committed[p] <= pos[p]
  /\ \A i \in 1 .. Len(queue[p]) :
       /\ committed[p] <= queue[p][i] /\ queue[p][i] < pos[p]
       /\ \A j \in 1 .. i - 1 : queue[p][j] < queue[p][i]
       /\ Holding(p) => queue[p][i] < cur[p].off
  /\ Holding(p) => /\ cur[p].off \in Offsets /\ cur[p].off + 1 = pos[p]
                   /\ committed[p] <= cur[p].off
  /\ pc[p] = "emit" => cur[p].off \in Queued(p) /\ cur[p].n > 0

\* What the controller knows of a message is what the pipeline owes to it.
CountsOf(p, o) ==
  /\ todo[p][o] = flying[p][o] + Due(p, o)
  /\ o \notin Queued(p) => flying[p][o] = 0
  /\ o \in Queued(p) => left[p][o] = todo[p][o]
  /\ o \in Queued(p) => (o \in ready[p] <=> left[p][o] = 0)
  /\ (o \in Queued(p) \/ (Holding(p) /\ cur[p].off = o)) =>
       (todo[p][o] = 0 => <<p, o>> \in handled)

\* A message that was fetched is handled, queued, or about to be queued.
CoverOf(p, o) ==
  /\ o < committed[p] => <<p, o>> \in handled
  /\ o < pos[p] => \/ <<p, o>> \in handled
                   \/ o \in Queued(p)
                   \/ Holding(p) /\ cur[p].off = o

ExitInv ==
  /\ ctl = "run" => readers = Cardinality(Working)
  /\ ctl = "run" /\ exiting => Working = {}
  /\ ctl = "done" => Working = {} /\ sem = 0

PartInv(p) ==
  /\ OrderOf(p)
  /\ \A o \in Offsets : CountsOf(p, o)
  /\ \A o \in Offsets : CoverOf(p, o)

Inv ==
  /\ TypeOK
  /\ \A p \in Parts : PartInv(p)
  /\ SemaphoreCounts
  /\ ExitInv

USE KafkaAssumption

-----------------------------------------------------------------------------
(* Lemmas about the queues.                                                *)

LEMMA QueuedIs ==
  ASSUME NEW p, queue[p] \in Seq(Offsets)
  PROVE  /\ Queued(p) = {queue[p][i] : i \in 1 .. Len(queue[p])}
         /\ Queued(p) \subseteq Offsets
         /\ Len(queue[p]) \in Nat
         /\ \A i \in 1 .. Len(queue[p]) : queue[p][i] \in Offsets
BY DEF Queued, Range

\* The least element of a set of natural numbers.
LEMMA Least ==
  ASSUME NEW S \in SUBSET Nat, S # {}
  PROVE  \E k \in S : \A i \in S : k <= i
<1>1. IsWellFoundedOn(OpToRel(<, Nat), Nat)
  BY NatLessThanWellFounded
<1>2. PICK k \in S : \A i \in S : <<i, k>> \notin OpToRel(<, Nat)
  BY <1>1, WFMin
<1>3. \A i \in S : ~(i < k)
  BY <1>2 DEF OpToRel
<1> QED
  BY <1>3

\* The delivered prefix of a queue: it is delivered, and what follows is not.
LEMMA PrefixIs ==
  ASSUME NEW p, queue[p] \in Seq(Offsets)
  PROVE  /\ Prefix(p) \in 0 .. Len(queue[p])
         /\ \A i \in 1 .. Prefix(p) : queue[p][i] \in ready[p]
         /\ Prefix(p) < Len(queue[p]) => queue[p][Prefix(p) + 1] \notin ready[p]
<1> DEFINE P(k) == /\ \A i \in 1 .. k : queue[p][i] \in ready[p]
                   /\ k < Len(queue[p]) => queue[p][k + 1] \notin ready[p]
           S == {k \in 0 .. Len(queue[p]) :
                   k = Len(queue[p]) \/ queue[p][k + 1] \notin ready[p]}
<1>1. S \in SUBSET Nat /\ Len(queue[p]) \in S /\ Len(queue[p]) \in Nat
  OBVIOUS
<1>2. PICK k \in S : \A i \in S : k <= i
  BY <1>1, Least
<1>3. k \in 0 .. Len(queue[p]) /\ P(k)
  <2>1. ASSUME NEW i \in 1 .. k PROVE queue[p][i] \in ready[p]
    <3>0. k \in 0 .. Len(queue[p]) /\ Len(queue[p]) \in Nat
      BY <1>1, <1>2
    <3>1. PICK j \in 0 .. Len(queue[p]) : j < k /\ j + 1 = i
      <4>1. i \in Int /\ 1 <= i /\ i <= k
        BY <3>0, <2>1
      <4>2. i - 1 \in 0 .. Len(queue[p]) /\ i - 1 < k /\ (i - 1) + 1 = i
        BY <3>0, <4>1
      <4> QED
        BY <4>2
    <3>2. j \notin S
      BY <1>1, <1>2, <3>1
    <3> QED
      BY <1>1, <3>1, <3>2
  <2> QED
    BY <1>1, <1>2, <2>1
<1>4. Prefix(p) = CHOOSE n \in 0 .. Len(queue[p]) : P(n)
  BY DEF Prefix
<1> HIDE DEF P
<1>5. Prefix(p) \in 0 .. Len(queue[p]) /\ P(Prefix(p))
  BY <1>3, <1>4
<1> QED
  BY <1>5 DEF P

-----------------------------------------------------------------------------
(* Lemmas about steps.                                                     *)

\* Nothing that concerns partition p changes.
Same(p) ==
  /\ pc'[p] = pc[p] /\ pos'[p] = pos[p] /\ cur'[p] = cur[p]
  /\ todo'[p] = todo[p] /\ flying'[p] = flying[p]
  /\ queue'[p] = queue[p] /\ left'[p] = left[p] /\ ready'[p] = ready[p]
  /\ committed'[p] = committed[p]
  /\ \A o \in Offsets : <<p, o>> \in handled' <=> <<p, o>> \in handled

LEMMA SameInv ==
  ASSUME NEW p, PartInv(p), Same(p)
  PROVE  PartInv(p)'
<1>1. Queued(p)' = Queued(p) /\ (Holding(p)' <=> Holding(p))
  BY DEF Same, Queued, Range, Holding
<1>2. \A o : Due(p, o)' = Due(p, o)
  BY DEF Same, Due
<1>3. OrderOf(p)'
  BY <1>1 DEF PartInv, OrderOf, Same
<1>4. \A o \in Offsets : CountsOf(p, o)'
  BY <1>1, <1>2 DEF PartInv, CountsOf, Same
<1>5. \A o \in Offsets : CoverOf(p, o)'
  BY <1>1 DEF PartInv, CoverOf, Same
<1> QED
  BY <1>3, <1>4, <1>5 DEF PartInv

\* The slots and the working readers, when no queue changes.
LEMMA SameCounts ==
  ASSUME queue' = queue
  PROVE  Slots' = Slots
BY DEF Slots, Queued, Range

LEMMA InitInv == Init => Inv
<1> SUFFICES ASSUME Init PROVE Inv
  OBVIOUS
<1>1. TypeOK
  <2>1. 0 \in Counts /\ 0 \in 0 .. Length /\ 0 \in 0 .. MaxUncommitted
        /\ 0 \in 0 .. Generations
    BY DEF Counts
  <2>2. Nothing \in [Parts -> [Offsets -> Counts]] /\ Nothing \in [Parts -> [Offsets -> Nat]]
    BY <2>1 DEF Nothing
  <2>3. NoMessage \in [Parts -> [off : 0 .. Length, n : Counts]]
    BY <2>1 DEF NoMessage
  <2>4. [p \in Parts |-> <<>>] \in [Parts -> Seq(Offsets)]
    OBVIOUS
  <2>5. handled \subseteq Parts \X Offsets
    BY DEF Init
  <2>6. queue \in [Parts -> Seq(Offsets)]
    BY <2>4 DEF Init
  <2>7. todo \in [Parts -> [Offsets -> Nat]] /\ flying \in [Parts -> [Offsets -> Nat]]
        /\ left \in [Parts -> [Offsets -> Counts]]
    BY <2>2 DEF Init
  <2>8. cur \in [Parts -> [off : 0 .. Length, n : Counts]]
    BY <2>3 DEF Init
  <2>9. /\ committed \in [Parts -> 0 .. Length] /\ pos \in [Parts -> 0 .. Length]
        /\ pc \in [Parts -> {"off", "fetch", "slot", "push", "emit", "exit", "wait"}]
        /\ ready \in [Parts -> SUBSET Offsets]
    BY <2>1 DEF Init
  <2>10. phase \in {"idle", "active", "ending", "left"} /\ ctl \in {"off", "run", "done"}
    BY DEF Init
  <2>11. stopping \in BOOLEAN
    BY DEF Init
  <2>12. exiting \in BOOLEAN
    BY DEF Init
  <2>13. begun \in 0 .. Generations /\ sem \in 0 .. MaxUncommitted /\ readers \in Int
    BY <2>1 DEF Init
  <2> QED
    BY <2>5, <2>6, <2>7, <2>8, <2>9, <2>10, <2>11, <2>12, <2>13 DEF TypeOK
<1>2. ASSUME NEW p \in Parts PROVE PartInv(p) /\ Queued(p) = {}
  BY DEF Init, PartInv, OrderOf, CountsOf, CoverOf, Holding, Due, Queued, Range,
         Nothing, NoMessage, Offsets
<1>3. Slots = {} /\ Pushing = {}
  BY <1>2 DEF Slots, Pushing, Init
<1>4. SemaphoreCounts
  BY <1>3, FS_EmptySet DEF SemaphoreCounts, Init
<1>5. ExitInv
  BY DEF Init, ExitInv
<1> QED
  BY <1>1, <1>2, <1>4, <1>5 DEF Inv

\* A step that changes nothing of the readers, the controller and the messages.
LEMMA QuietInv ==
  ASSUME Inv, TypeOK', UNCHANGED <<broker, reader, pipeline, sem, controller, exit>>
  PROVE  Inv'
<1> USE DEF broker, reader, pipeline, controller, exit
<1>1. \A p \in Parts : PartInv(p)'
  BY SameInv DEF Same, Inv
<1>2. SemaphoreCounts'
  BY SameCounts DEF SemaphoreCounts, Pushing, Inv
<1>3. ExitInv'
  BY DEF ExitInv, Working, Inv
<1> QED
  BY <1>1, <1>2, <1>3 DEF Inv

\* A step that concerns partition p only.
LEMMA LocalInv ==
  ASSUME Inv, NEW p \in Parts, TypeOK', PartInv(p)', SemaphoreCounts', ExitInv',
         \A q \in Parts : q # p => Same(q)
  PROVE  Inv'
<1>1. ASSUME NEW q \in Parts PROVE PartInv(q)'
  <2>1. CASE q = p
    BY <2>1
  <2>2. CASE q # p
    BY <2>2, SameInv DEF Inv
  <2> QED
    BY <2>1, <2>2
<1> QED
  BY <1>1 DEF Inv

\* A step of a reader that works before and after it, and hands over no message.
LEMMA WorkingSame ==
  ASSUME TypeOK, TypeOK', NEW p \in Parts, ExitInv,
         \A q \in Parts : q # p => pc'[q] = pc[q],
         p \in Working <=> pc'[p] \notin {"wait", "off"},
         UNCHANGED exit, ctl = "done" => sem' = sem
  PROVE  ExitInv'
<1>1. Working' = Working
  BY DEF Working
<1> QED
  BY <1>1 DEF ExitInv, exit

LEMMA FetchInv ==
  ASSUME Inv, NEW p \in Parts, NEW n \in Counts, Fetch(p, n)
  PROVE  Inv'
<1> USE DEF group, pipeline, controller, exit
<1>1. TypeOK /\ PartInv(p) /\ pc[p] = "fetch" /\ pos[p] < Length
  BY DEF Inv, Fetch
<1>2. pos[p] \in Offsets /\ pos[p] + 1 \in 0 .. Length /\ n \in Nat
  <2>1. pos[p] \in 0 .. Length /\ Length \in Nat /\ MaxEvents \in Nat
    BY <1>1, KafkaAssumption DEF TypeOK
  <2> QED
    BY <1>1, <2>1 DEF Offsets, Counts
<1>3. /\ pc' = [pc EXCEPT ![p] = "slot"] /\ pos' = [pos EXCEPT ![p] = pos[p] + 1]
      /\ cur' = [cur EXCEPT ![p] = [off |-> pos[p], n |-> n]]
      /\ todo' = [todo EXCEPT ![p][pos[p]] = todo[p][pos[p]] + n]
      /\ handled' = IF n = 0 THEN handled \cup {<<p, pos[p]>>} ELSE handled
      /\ UNCHANGED <<committed, flying, sem, queue, left, ready, ctl, readers, exiting>>
      /\ UNCHANGED <<phase, stopping, begun>>
  BY DEF Fetch, Work
<1>4. TypeOK'
  <2>1. [off |-> pos[p], n |-> n] \in [off : 0 .. Length, n : Counts]
    BY <1>1 DEF TypeOK
  <2>2. todo[p][pos[p]] + n \in Nat
    BY <1>1, <1>2 DEF TypeOK
  <2>3. todo' \in [Parts -> [Offsets -> Nat]]
    BY <1>1, <1>2, <1>3, <2>2 DEF TypeOK
  <2>4. handled' \subseteq Parts \X Offsets
    BY <1>1, <1>2, <1>3 DEF TypeOK
  <2>5. pos' \in [Parts -> 0 .. Length]
    BY <1>1, <1>2, <1>3 DEF TypeOK
  <2>6. cur' \in [Parts -> [off : 0 .. Length, n : Counts]]
    BY <1>1, <1>3, <2>1 DEF TypeOK
  <2> QED
    BY <1>1, <1>3, <2>3, <2>4, <2>5, <2>6 DEF TypeOK
<1>5. /\ pc'[p] = "slot" /\ pos'[p] = pos[p] + 1
      /\ cur'[p].off = pos[p] /\ cur'[p].n = n /\ Queued(p)' = Queued(p)
      /\ \A o \in Offsets : todo'[p][o] = IF o = pos[p] THEN todo[p][o] + n ELSE todo[p][o]
  BY <1>1, <1>2, <1>3 DEF TypeOK, Queued
<1>6. PartInv(p)'
  <2>1. Holding(p)' /\ ~Holding(p) /\ \A o : Due(p, o) = 0 /\ Due(p, o)' = IF o = pos[p] THEN n ELSE 0
    BY <1>1, <1>5 DEF Holding, Due
  <2>2. queue[p] \in Seq(Offsets) /\ committed[p] \in Nat /\ pos[p] \in Nat
    BY <1>1 DEF TypeOK
  <2>3. pos[p] \notin Queued(p)
    BY <1>1, <2>2, QueuedIs DEF PartInv, OrderOf, Offsets
  <2>4. OrderOf(p)'
    <3>1. \A i \in 1 .. Len(queue[p]) : queue[p][i] \in Nat
      BY <2>2, QueuedIs DEF Offsets
    <3> QED
      BY <1>1, <1>2, <1>3, <1>5, <2>1, <2>2, <3>1 DEF PartInv, OrderOf
  <2>5. ASSUME NEW o \in Offsets PROVE CountsOf(p, o)'
    <3>1. todo[p][o] \in Nat /\ flying[p][o] \in Nat
      BY <1>1 DEF TypeOK
    <3>2. CountsOf(p, o)
      BY <1>1 DEF PartInv
    <3>3. CASE o = pos[p]
      BY <1>2, <1>3, <1>5, <2>1, <2>3, <3>1, <3>2, <3>3 DEF CountsOf
    <3>4. CASE o # pos[p]
      BY <1>2, <1>3, <1>5, <2>1, <3>1, <3>2, <3>4 DEF CountsOf
    <3> QED
      BY <3>3, <3>4
  <2>6. ASSUME NEW o \in Offsets PROVE CoverOf(p, o)'
    <3>1. CoverOf(p, o)
      BY <1>1 DEF PartInv
    <3>2. o < pos'[p] => o < pos[p] \/ o = pos[p]
      BY <1>5, <2>2 DEF Offsets
    <3> QED
      BY <1>3, <1>5, <2>1, <3>1, <3>2 DEF CoverOf
  <2> QED
    BY <2>4, <2>5, <2>6 DEF PartInv
<1>7. SemaphoreCounts'
  <2>1. Pushing' = Pushing
    BY <1>1, <1>3 DEF Pushing, TypeOK
  <2> QED
    BY <1>3, <2>1, SameCounts DEF SemaphoreCounts, Inv
<1>8. ExitInv'
  BY <1>1, <1>3, <1>4, <1>5, WorkingSame DEF Inv, Working, TypeOK
<1>9. \A q \in Parts : q # p => Same(q)
  BY <1>1, <1>2, <1>3 DEF Same, TypeOK
<1> QED
  BY <1>4, <1>6, <1>7, <1>8, <1>9, LocalInv

\* A step of a reader between two lines that touch nothing but its counter.
LEMMA MoveInv ==
  ASSUME Inv, NEW p \in Parts, NEW l,
         \/ pc[p] = "fetch" /\ l = "exit"
         \/ pc[p] = "wait" /\ l = "off",
         pc' = [pc EXCEPT ![p] = l],
         UNCHANGED <<group, broker, pos, cur, pipeline, sem, controller, exit>>
  PROVE  Inv'
<1> USE DEF group, broker, pipeline, controller, exit
<1>1. TypeOK /\ PartInv(p) /\ pc'[p] = l /\ Queued(p)' = Queued(p)
  BY DEF Inv, TypeOK, Queued
<1>2. TypeOK'
  BY <1>1 DEF TypeOK
<1>3. PartInv(p)'
  <2>1. ~Holding(p) /\ ~Holding(p)' /\ \A o : Due(p, o) = 0 /\ Due(p, o)' = 0
    BY <1>1 DEF Holding, Due
  <2>2. OrderOf(p)'
    BY <1>1, <2>1 DEF PartInv, OrderOf
  <2>3. \A o \in Offsets : CountsOf(p, o)'
    BY <1>1, <2>1 DEF PartInv, CountsOf
  <2>4. \A o \in Offsets : CoverOf(p, o)'
    BY <1>1, <2>1 DEF PartInv, CoverOf
  <2> QED
    BY <2>2, <2>3, <2>4 DEF PartInv
<1>4. SemaphoreCounts'
  <2>1. Pushing' = Pushing
    BY <1>1 DEF Pushing, TypeOK
  <2> QED
    BY <2>1, SameCounts DEF SemaphoreCounts, Inv
<1>5. ExitInv'
  BY <1>1, <1>2, WorkingSame DEF Inv, Working, TypeOK
<1>6. \A q \in Parts : q # p => Same(q)
  BY <1>1 DEF Same, TypeOK
<1> QED
  BY <1>2, <1>3, <1>4, <1>5, <1>6, LocalInv

LEMMA FiniteCounts ==
  /\ IsFiniteSet(Slots) /\ Cardinality(Slots) \in Nat
  /\ IsFiniteSet(Pushing) /\ Cardinality(Pushing) \in Nat
<1>1. IsFiniteSet(Offsets)
  BY FS_Interval DEF Offsets
<1>2. IsFiniteSet(Parts \X Offsets)
  BY <1>1, FS_Product
<1>3. Slots \in SUBSET (Parts \X Offsets) /\ Pushing \in SUBSET Parts
  BY DEF Slots, Pushing
<1>4. IsFiniteSet(Slots) /\ IsFiniteSet(Pushing)
  BY <1>2, <1>3, FS_Subset
<1> QED
  BY <1>4, FS_CardinalityType

LEMMA TakeSlotInv ==
  ASSUME Inv, NEW p \in Parts, TakeSlot(p)
  PROVE  Inv'
<1> USE DEF TakeSlot, group, broker, pipeline, controller, exit
<1>1. TypeOK /\ PartInv(p) /\ pc'[p] = "push" /\ Queued(p)' = Queued(p)
  BY DEF Inv, TypeOK, Queued
<1>2. TypeOK'
  <2>1. sem + 1 \in 0 .. MaxUncommitted
    BY <1>1 DEF TypeOK
  <2> QED
    BY <1>1, <2>1 DEF TypeOK
<1>3. PartInv(p)'
  <2>1. Holding(p) /\ Holding(p)' /\ \A o : Due(p, o)' = Due(p, o)
    BY <1>1 DEF Holding, Due
  <2>2. OrderOf(p)'
    BY <1>1, <2>1 DEF PartInv, OrderOf
  <2>3. \A o \in Offsets : CountsOf(p, o)'
    BY <1>1, <2>1 DEF PartInv, CountsOf
  <2>4. \A o \in Offsets : CoverOf(p, o)'
    BY <1>1, <2>1 DEF PartInv, CoverOf
  <2> QED
    BY <2>2, <2>3, <2>4 DEF PartInv
<1>4. SemaphoreCounts'
  <2>1. Pushing' = Pushing \cup {p} /\ p \notin Pushing
    BY <1>1 DEF Pushing, TypeOK
  <2>2. Cardinality(Pushing') = Cardinality(Pushing) + 1
    BY <2>1, FiniteCounts, FS_AddElement
  <2> QED
    BY <2>2, SameCounts, FiniteCounts DEF SemaphoreCounts, Inv
<1>5. ExitInv'
  <2>1. p \in Working
    BY <1>1 DEF Working
  <2> QED
    BY <1>1, <1>2, <2>1, WorkingSame DEF Inv, TypeOK, ExitInv
<1>6. \A q \in Parts : q # p => Same(q)
  BY <1>1 DEF Same, TypeOK
<1> QED
  BY <1>2, <1>3, <1>4, <1>5, <1>6, LocalInv

LEMMA EmitInv ==
  ASSUME Inv, NEW p \in Parts, Emit(p)
  PROVE  Inv'
<1> USE DEF group, broker, pipeline, controller, exit
<1>1. TypeOK /\ PartInv(p) /\ pc[p] = "emit"
  BY DEF Inv, Emit
<1>2. PICK o : o = cur[p].off
  OBVIOUS
<1>3. PICK n : n = cur[p].n - 1
  OBVIOUS
<1>4. queue[p] \in Seq(Offsets) /\ cur[p] \in [off : 0 .. Length, n : Counts]
  BY <1>1 DEF TypeOK
<1>5. o \in Queued(p) /\ o \in Offsets /\ n \in Counts /\ cur[p].n = n + 1 /\ n \in Nat
  BY <1>1, <1>2, <1>3, <1>4, QueuedIs DEF PartInv, OrderOf, Counts
<1>6. /\ pc' = [pc EXCEPT ![p] = NextAfter(n)]
      /\ cur' = [cur EXCEPT ![p].n = n]
      /\ flying' = [flying EXCEPT ![p][o] = flying[p][o] + 1]
      /\ UNCHANGED <<group, broker, pos, todo, sem, controller, exit>>
  BY <1>2, <1>3 DEF Emit
<1>7. NextAfter(n) \in {"fetch", "emit"} /\ (NextAfter(n) = "emit" <=> n # 0)
  BY DEF NextAfter
<1>8. /\ pc'[p] = NextAfter(n) /\ cur'[p].off = o /\ cur'[p].n = n
      /\ Queued(p)' = Queued(p)
      /\ \A x \in Offsets : flying'[p][x] = IF x = o THEN flying[p][x] + 1 ELSE flying[p][x]
  BY <1>1, <1>2, <1>4, <1>5, <1>6 DEF TypeOK, Queued
<1>9. TypeOK'
  <2>1. flying' \in [Parts -> [Offsets -> Nat]]
    <3>1. flying[p][o] + 1 \in Nat
      BY <1>1, <1>5 DEF TypeOK
    <3> QED
      BY <1>1, <1>6, <3>1 DEF TypeOK
  <2>2. cur' \in [Parts -> [off : 0 .. Length, n : Counts]]
    BY <1>1, <1>5, <1>6 DEF TypeOK
  <2>3. pc' \in [Parts -> {"off", "fetch", "slot", "push", "emit", "exit", "wait"}]
    BY <1>1, <1>6, <1>7 DEF TypeOK
  <2> QED
    BY <1>1, <1>6, <2>1, <2>2, <2>3 DEF TypeOK
<1>10. PartInv(p)'
  <2>1. ~Holding(p) /\ ~Holding(p)'
    BY <1>1, <1>7, <1>8 DEF Holding
  <2>2. \A x : Due(p, x) = IF x = o THEN n + 1 ELSE 0
    BY <1>1, <1>2, <1>5 DEF Due
  <2>3. \A x : Due(p, x)' = IF x = o THEN n ELSE 0
    BY <1>7, <1>8 DEF Due
  <2>4. OrderOf(p)'
    BY <1>1, <1>5, <1>6, <1>7, <1>8, <2>1 DEF PartInv, OrderOf
  <2>5. ASSUME NEW x \in Offsets PROVE CountsOf(p, x)'
    <3>1. CountsOf(p, x) /\ flying[p][x] \in Nat /\ todo[p][x] \in Nat
      BY <1>1 DEF PartInv, TypeOK
    <3> QED
      BY <1>5, <1>6, <1>8, <2>1, <2>2, <2>3, <3>1 DEF CountsOf
  <2>6. \A x \in Offsets : CoverOf(p, x)'
    BY <1>1, <1>6, <1>8, <2>1 DEF PartInv, CoverOf
  <2> QED
    BY <2>4, <2>5, <2>6 DEF PartInv
<1>11. SemaphoreCounts'
  <2>1. Pushing' = Pushing
    BY <1>1, <1>6, <1>7 DEF Pushing, TypeOK
  <2> QED
    BY <1>6, <2>1, SameCounts DEF SemaphoreCounts, Inv
<1>12. ExitInv'
  <2>1. p \in Working /\ pc'[p] \notin {"wait", "off"}
    BY <1>1, <1>7, <1>8 DEF Working
  <2>2. \A q \in Parts : q # p => pc'[q] = pc[q]
    BY <1>1, <1>6 DEF TypeOK
  <2> QED
    BY <1>1, <1>6, <1>9, <2>1, <2>2, WorkingSame DEF Inv
<1>13. \A q \in Parts : q # p => Same(q)
  BY <1>1, <1>6 DEF Same, TypeOK
<1> QED
  BY <1>9, <1>10, <1>11, <1>12, <1>13, LocalInv

LEMMA AppendIs ==
  ASSUME NEW S, NEW q \in Seq(S), NEW x \in S
  PROVE  /\ Append(q, x) \in Seq(S) /\ Len(Append(q, x)) = Len(q) + 1 /\ Len(q) \in Nat
         /\ \A i \in 1 .. Len(q) : Append(q, x)[i] = q[i]
         /\ Append(q, x)[Len(q) + 1] = x
OBVIOUS

LEMMA PushInv ==
  ASSUME Inv, NEW p \in Parts, Push(p)
  PROVE  Inv'
<1> USE DEF group, broker, pipeline, exit
<1>1. TypeOK /\ PartInv(p) /\ pc[p] = "push"
  BY DEF Inv, Push
<1>2. PICK o : o = cur[p].off
  OBVIOUS
<1>3. PICK n : n = cur[p].n
  OBVIOUS
<1>4. queue[p] \in Seq(Offsets) /\ cur[p] \in [off : 0 .. Length, n : Counts]
      /\ committed[p] \in Nat /\ pos[p] \in Nat
  BY <1>1 DEF TypeOK
<1>5. /\ Holding(p) /\ o \in Offsets /\ n \in Counts /\ n \in Nat /\ o \in Nat
      /\ \A i \in 1 .. Len(queue[p]) : queue[p][i] \in Nat /\ queue[p][i] < o
  BY <1>1, <1>2, <1>3, <1>4, QueuedIs DEF PartInv, OrderOf, Counts, Holding, Offsets
<1>6. o \notin Queued(p)
  BY <1>4, <1>5, QueuedIs
<1>7. /\ pc' = [pc EXCEPT ![p] = NextAfter(n)]
      /\ queue' = [queue EXCEPT ![p] = Append(queue[p], o)]
      /\ left' = [left EXCEPT ![p][o] = n]
      /\ ready' = [ready EXCEPT ![p] = IF n = 0 THEN ready[p] \cup {o} ELSE ready[p] \ {o}]
      /\ UNCHANGED <<group, broker, pos, cur, pipeline, sem, exit>>
  BY <1>2, <1>3, <1>6 DEF Push
<1>8. NextAfter(n) \in {"fetch", "emit"} /\ (NextAfter(n) = "emit" <=> n # 0)
  BY DEF NextAfter
<1>9. TypeOK'
  <2>1. queue' \in [Parts -> Seq(Offsets)]
    BY <1>1, <1>4, <1>5, <1>7, AppendIs DEF TypeOK
  <2>2. left' \in [Parts -> [Offsets -> Counts]]
    BY <1>1, <1>5, <1>7 DEF TypeOK
  <2>3. ready' \in [Parts -> SUBSET Offsets]
    BY <1>1, <1>5, <1>7 DEF TypeOK
  <2>4. pc' \in [Parts -> {"off", "fetch", "slot", "push", "emit", "exit", "wait"}]
    BY <1>1, <1>7, <1>8 DEF TypeOK
  <2> QED
    BY <1>1, <1>7, <2>1, <2>2, <2>3, <2>4 DEF TypeOK
<1>10. /\ pc'[p] = NextAfter(n) /\ cur'[p].off = o /\ cur'[p].n = n
       /\ queue'[p] = Append(queue[p], o)
       /\ \A x \in Offsets : left'[p][x] = IF x = o THEN n ELSE left[p][x]
       /\ \A x \in Offsets : x # o => (x \in ready'[p] <=> x \in ready[p])
       /\ o \in ready'[p] <=> n = 0
  BY <1>1, <1>2, <1>3, <1>5, <1>7 DEF TypeOK
<1>11. Queued(p)' = Queued(p) \cup {o}
  <2>1. queue'[p] \in Seq(Offsets)
    BY <1>9 DEF TypeOK
  <2>2. Queued(p)' = {queue'[p][i] : i \in 1 .. Len(queue'[p])}
    BY <2>1 DEF Queued, Range
  <2>3. Queued(p) = {queue[p][i] : i \in 1 .. Len(queue[p])}
    BY <1>4, QueuedIs
  <2>4. /\ Len(queue'[p]) = Len(queue[p]) + 1 /\ Len(queue[p]) \in Nat
        /\ \A i \in 1 .. Len(queue[p]) : queue'[p][i] = queue[p][i]
        /\ queue'[p][Len(queue[p]) + 1] = o
    BY <1>4, <1>5, <1>10, AppendIs
  <2>5. 1 .. Len(queue'[p]) = (1 .. Len(queue[p])) \cup {Len(queue[p]) + 1}
    BY <2>4
  <2>6. Queued(p)' \subseteq Queued(p) \cup {o}
    BY <2>2, <2>3, <2>4, <2>5
  <2>7. ASSUME NEW x \in Queued(p) PROVE x \in Queued(p)'
    <3>1. PICK i \in 1 .. Len(queue[p]) : x = queue[p][i]
      BY <2>3, <2>7
    <3> QED
      BY <2>2, <2>4, <2>5, <3>1
  <2>8. o \in Queued(p)'
    BY <2>2, <2>4, <2>5
  <2> QED
    BY <2>6, <2>7, <2>8
<1>12. PartInv(p)'
  <2>1. ~Holding(p)'
    BY <1>8, <1>10 DEF Holding
  <2>2. \A x : Due(p, x) = IF x = o THEN n ELSE 0
    BY <1>1, <1>2, <1>3 DEF Due
  <2>3. \A x : Due(p, x)' = IF x = o THEN n ELSE 0
    BY <1>8, <1>10 DEF Due
  <2>4. OrderOf(p)'
    <3>1. ASSUME NEW i \in 1 .. Len(queue'[p])
          PROVE  /\ committed'[p] <= queue'[p][i] /\ queue'[p][i] < pos'[p]
                 /\ \A j \in 1 .. i - 1 : queue'[p][j] < queue'[p][i]
      <4>1. CASE i \in 1 .. Len(queue[p])
        BY <1>1, <1>4, <1>5, <1>7, <1>10, <4>1, AppendIs DEF PartInv, OrderOf
      <4>2. CASE i = Len(queue[p]) + 1
        BY <1>1, <1>2, <1>4, <1>5, <1>7, <1>10, <4>2, AppendIs DEF PartInv, OrderOf
      <4> QED
        BY <1>4, <1>5, <1>10, <3>1, <4>1, <4>2, AppendIs
    <3> QED
      BY <1>1, <1>5, <1>7, <1>8, <1>10, <1>11, <2>1, <3>1 DEF PartInv, OrderOf
  <2>5. ASSUME NEW x \in Offsets PROVE CountsOf(p, x)'
    <3>1. CountsOf(p, x) /\ flying[p][x] \in Nat /\ todo[p][x] \in Nat
      BY <1>1 DEF PartInv, TypeOK
    <3>2. CASE x = o
      <4>1. CountsOf(p, o) /\ flying[p][o] \in Nat /\ todo[p][o] \in Nat /\ Due(p, o) = n
        BY <2>2, <3>1, <3>2
      <4>2. flying[p][o] = 0 /\ todo[p][o] = n
        BY <1>5, <1>6, <4>1 DEF CountsOf
      <4>3. n = 0 => <<p, o>> \in handled
        BY <1>2, <1>5, <4>1, <4>2 DEF CountsOf
      <4>4. /\ todo' = todo /\ flying' = flying /\ handled' = handled
            /\ left'[p][o] = n /\ Due(p, o)' = n /\ o \in Queued(p)'
        BY <1>5, <1>7, <1>10, <1>11, <2>3
      <4>5. CountsOf(p, o)'
        BY <1>5, <1>10, <4>2, <4>3, <4>4 DEF CountsOf
      <4> QED
        BY <3>2, <4>5
    <3>3. CASE x # o
      BY <1>2, <1>5, <1>7, <1>10, <1>11, <2>1, <2>2, <2>3, <3>1, <3>3 DEF CountsOf
    <3> QED
      BY <3>2, <3>3
  <2>6. \A x \in Offsets : CoverOf(p, x)'
    BY <1>1, <1>2, <1>7, <1>11, <2>1 DEF PartInv, CoverOf
  <2> QED
    BY <2>4, <2>5, <2>6 DEF PartInv
<1>13. \A q \in Parts : q # p => Same(q)
  BY <1>1, <1>7 DEF Same, TypeOK
<1>14. SemaphoreCounts'
  <2>1. Pushing' = Pushing \ {p} /\ p \in Pushing
    BY <1>1, <1>7, <1>8 DEF Pushing, TypeOK
  <2>2. Slots' = Slots \cup {<<p, o>>} /\ <<p, o>> \notin Slots
    <3>1. \A q \in Parts : q # p => Queued(q)' = Queued(q)
      BY <1>13 DEF Same, Queued, Range
    <3> QED
      BY <1>5, <1>6, <1>11, <3>1 DEF Slots
  <2>3. Cardinality(Pushing') = Cardinality(Pushing) - 1
    BY <2>1, FiniteCounts, FS_RemoveElement
  <2>4. Cardinality(Slots') = Cardinality(Slots) + 1
    BY <2>2, FiniteCounts, FS_AddElement
  <2> QED
    BY <1>7, <2>3, <2>4, FiniteCounts DEF SemaphoreCounts, Inv
<1>15. ExitInv'
  <2>1. p \in Working /\ pc'[p] \notin {"wait", "off"}
    BY <1>1, <1>8, <1>10 DEF Working
  <2>2. \A q \in Parts : q # p => pc'[q] = pc[q]
    BY <1>1, <1>7 DEF TypeOK
  <2> QED
    BY <1>1, <1>7, <1>9, <2>1, <2>2, WorkingSame DEF Inv
<1> QED
  BY <1>9, <1>12, <1>13, <1>14, <1>15, LocalInv

LEMMA DeliverInv ==
  ASSUME Inv, NEW p \in Parts, NEW o \in Offsets, Deliver(p, o)
  PROVE  Inv'
<1> USE DEF group, reader, exit
<1>1. TypeOK /\ PartInv(p) /\ flying[p][o] > 0
  BY DEF Inv, Deliver
<1>2. /\ flying[p][o] \in Nat /\ todo[p][o] \in Nat /\ left[p][o] \in Counts
      /\ cur[p].n \in Nat /\ left[p][o] \in Nat
  BY <1>1 DEF TypeOK, Counts
<1>3. /\ o \in Queued(p) /\ left[p][o] = todo[p][o] /\ todo[p][o] = flying[p][o] + Due(p, o)
      /\ Due(p, o) \in Nat /\ o \notin ready[p] /\ left[p][o] >= 1
  <2>1. CountsOf(p, o)
    BY <1>1 DEF PartInv
  <2>2. Due(p, o) \in Nat
    BY <1>2 DEF Due
  <2> QED
    BY <1>1, <1>2, <2>1, <2>2 DEF CountsOf
<1>4. PICK n : n = left[p][o] - 1
  OBVIOUS
<1>5. Remaining(left[p][o]) = n /\ n \in Counts /\ n \in Nat /\ left[p][o] = n + 1
  BY <1>2, <1>3, <1>4 DEF Remaining, Counts
<1>6. /\ flying' = [flying EXCEPT ![p][o] = flying[p][o] - 1]
      /\ todo' = [todo EXCEPT ![p][o] = todo[p][o] - 1]
      /\ handled' = IF todo[p][o] = 1 THEN handled \cup {<<p, o>>} ELSE handled
      /\ left' = [left EXCEPT ![p][o] = n]
      /\ ready' = IF n = 0 THEN [ready EXCEPT ![p] = ready[p] \cup {o}] ELSE ready
      /\ queue' = queue
      /\ UNCHANGED <<group, committed, reader, sem, exit>>
  BY <1>3, <1>5 DEF Deliver
<1>7. TypeOK'
  <2>1. flying' \in [Parts -> [Offsets -> Nat]] /\ todo' \in [Parts -> [Offsets -> Nat]]
    <3>1. flying[p][o] - 1 \in Nat /\ todo[p][o] - 1 \in Nat
      BY <1>1, <1>2, <1>3
    <3> QED
      BY <1>1, <1>6, <3>1 DEF TypeOK
  <2>2. left' \in [Parts -> [Offsets -> Counts]]
    BY <1>1, <1>5, <1>6 DEF TypeOK
  <2>3. ready' \in [Parts -> SUBSET Offsets]
    BY <1>1, <1>6 DEF TypeOK
  <2>4. handled' \subseteq Parts \X Offsets
    BY <1>1, <1>6 DEF TypeOK
  <2> QED
    BY <1>1, <1>6, <2>1, <2>2, <2>3, <2>4 DEF TypeOK
<1>8. /\ Queued(p)' = Queued(p) /\ (Holding(p)' <=> Holding(p))
      /\ \A x : Due(p, x)' = Due(p, x)
      /\ \A x \in Offsets :
           /\ flying'[p][x] = IF x = o THEN flying[p][x] - 1 ELSE flying[p][x]
           /\ todo'[p][x] = IF x = o THEN todo[p][x] - 1 ELSE todo[p][x]
           /\ left'[p][x] = IF x = o THEN n ELSE left[p][x]
           /\ x # o => (x \in ready'[p] <=> x \in ready[p])
           /\ x # o => (<<p, x>> \in handled' <=> <<p, x>> \in handled)
      /\ o \in ready'[p] <=> n = 0
      /\ n = 0 => <<p, o>> \in handled'
      /\ handled \subseteq handled'
  <2>1. Queued(p)' = Queued(p) /\ (Holding(p)' <=> Holding(p)) /\ \A x : Due(p, x)' = Due(p, x)
    BY <1>6 DEF Queued, Holding, Due
  <2>2. \A x \in Offsets :
           /\ flying'[p][x] = IF x = o THEN flying[p][x] - 1 ELSE flying[p][x]
           /\ todo'[p][x] = IF x = o THEN todo[p][x] - 1 ELSE todo[p][x]
           /\ left'[p][x] = IF x = o THEN n ELSE left[p][x]
    BY <1>1, <1>6 DEF TypeOK
  <2>3. /\ \A x \in Offsets : x # o => (x \in ready'[p] <=> x \in ready[p])
        /\ o \in ready'[p] <=> n = 0
    BY <1>1, <1>3, <1>6 DEF TypeOK
  <2>4. /\ \A x \in Offsets : x # o => (<<p, x>> \in handled' <=> <<p, x>> \in handled)
        /\ n = 0 => <<p, o>> \in handled'
        /\ handled \subseteq handled'
    BY <1>3, <1>5, <1>6
  <2> QED
    BY <2>1, <2>2, <2>3, <2>4
<1>9. PartInv(p)'
  <2>1. OrderOf(p)'
    BY <1>1, <1>6, <1>8 DEF PartInv, OrderOf
  <2>2. ASSUME NEW x \in Offsets PROVE CountsOf(p, x)'
    <3>1. CountsOf(p, x)
      BY <1>1 DEF PartInv
    <3>2. CASE x = o
      <4>1. /\ flying'[p][o] = flying[p][o] - 1 /\ todo'[p][o] = todo[p][o] - 1
            /\ left'[p][o] = n /\ o \in Queued(p)' /\ Due(p, o)' = Due(p, o)
        BY <1>3, <1>8
      <4>2. todo'[p][o] = n /\ todo'[p][o] = flying'[p][o] + Due(p, o)'
        BY <1>2, <1>3, <1>5, <4>1
      <4>3. CountsOf(p, o)'
        BY <1>8, <4>1, <4>2 DEF CountsOf
      <4> QED
        BY <3>2, <4>3
    <3>3. CASE x # o
      BY <1>6, <1>8, <3>1, <3>3 DEF CountsOf
    <3> QED
      BY <3>2, <3>3
  <2>3. \A x \in Offsets : CoverOf(p, x)'
    BY <1>1, <1>6, <1>8 DEF PartInv, CoverOf
  <2> QED
    BY <2>1, <2>2, <2>3 DEF PartInv
<1>10. SemaphoreCounts'
  BY <1>6, SameCounts DEF SemaphoreCounts, Inv, Pushing
<1>11. ExitInv'
  BY <1>6 DEF ExitInv, Inv, Working
<1>12. \A q \in Parts : q # p => Same(q)
  BY <1>1, <1>6 DEF Same, TypeOK
<1> QED
  BY <1>7, <1>9, <1>10, <1>11, <1>12, LocalInv

LEMMA SuffixIs ==
  ASSUME NEW S, NEW q \in Seq(S), NEW k \in 0 .. Len(q)
  PROVE  /\ SubSeq(q, k + 1, Len(q)) \in Seq(S)
         /\ Len(SubSeq(q, k + 1, Len(q))) = Len(q) - k /\ Len(q) \in Nat
         /\ \A i \in 1 .. Len(q) - k : SubSeq(q, k + 1, Len(q))[i] = q[k + i]
OBVIOUS

\* What a tick does to the queue of p: the first k messages leave it.
LEMMA TickQueue ==
  ASSUME Inv, NEW ok \in SUBSET Parts, Tick(ok), NEW p \in Parts, NEW k, k = Prefix(p)
  PROVE  /\ k \in 0 .. Len(queue[p]) /\ queue[p] \in Seq(Offsets) /\ queue'[p] \in Seq(Offsets)
         /\ Len(queue[p]) \in Nat /\ Len(queue'[p]) = Len(queue[p]) - k
         /\ \A i \in 1 .. Len(queue[p]) - k : queue'[p][i] = queue[p][k + i]
         /\ \A i \in 1 .. k : queue[p][i] \in ready[p]
         /\ Queued(p)' = {queue[p][i] : i \in k + 1 .. Len(queue[p])}
         /\ Queued(p) = {queue[p][i] : i \in 1 .. Len(queue[p])}
<1>1. queue[p] \in Seq(Offsets)
  BY DEF Inv, TypeOK
<1>2. k \in 0 .. Len(queue[p]) /\ \A i \in 1 .. k : queue[p][i] \in ready[p]
  BY <1>1, PrefixIs
<1>3. queue'[p] = SubSeq(queue[p], k + 1, Len(queue[p]))
  BY DEF Tick, Cleaned
<1>4. /\ queue'[p] \in Seq(Offsets) /\ Len(queue[p]) \in Nat
      /\ Len(queue'[p]) = Len(queue[p]) - k
      /\ \A i \in 1 .. Len(queue[p]) - k : queue'[p][i] = queue[p][k + i]
  <2>1. PICK q \in Seq(Offsets) : q = queue[p]
    BY <1>1
  <2>2. k \in 0 .. Len(q) /\ queue'[p] = SubSeq(q, k + 1, Len(q))
    BY <1>2, <1>3, <2>1
  <2>3. /\ SubSeq(q, k + 1, Len(q)) \in Seq(Offsets) /\ Len(q) \in Nat
        /\ Len(SubSeq(q, k + 1, Len(q))) = Len(q) - k
        /\ \A i \in 1 .. Len(q) - k : SubSeq(q, k + 1, Len(q))[i] = q[k + i]
    BY <2>2, SuffixIs
  <2> QED
    BY <2>1, <2>2, <2>3
<1>5. Queued(p) = {queue[p][i] : i \in 1 .. Len(queue[p])}
  BY <1>1, QueuedIs
<1>6. Queued(p)' = {queue'[p][i] : i \in 1 .. Len(queue'[p])}
  BY <1>4 DEF Queued, Range
<1>7. Queued(p)' = {queue[p][i] : i \in k + 1 .. Len(queue[p])}
  <2>1. ASSUME NEW i \in 1 .. Len(queue[p]) - k
        PROVE  queue'[p][i] \in {queue[p][j] : j \in k + 1 .. Len(queue[p])}
    <3>1. k + i \in k + 1 .. Len(queue[p])
      BY <1>2, <1>4
    <3> QED
      BY <1>4, <3>1
  <2>2. ASSUME NEW j \in k + 1 .. Len(queue[p])
        PROVE  queue[p][j] \in {queue'[p][i] : i \in 1 .. Len(queue[p]) - k}
    <3>1. PICK i \in 1 .. Len(queue[p]) - k : k + i = j
      <4>1. j - k \in 1 .. Len(queue[p]) - k /\ k + (j - k) = j
        BY <1>2, <1>4
      <4> QED
        BY <4>1
    <3> QED
      BY <1>4, <3>1
  <2>3. 1 .. Len(queue'[p]) = 1 .. Len(queue[p]) - k
    BY <1>4
  <2>4. Queued(p)' = {queue'[p][i] : i \in 1 .. Len(queue[p]) - k}
    BY <1>6, <2>3
  <2> QED
    BY <2>1, <2>2, <2>4
<1> QED
  BY <1>1, <1>2, <1>4, <1>5, <1>7

LEMMA TickPart ==
  ASSUME Inv, NEW ok \in SUBSET Parts, Tick(ok), NEW p \in Parts
  PROVE  PartInv(p)' /\ committed[p] <= committed'[p] /\ committed'[p] \in 0 .. Length
         /\ Queued(p)' = {o \in Queued(p) : \A i \in 1 .. Prefix(p) : queue[p][i] # o}
         /\ \A i \in 1 .. Prefix(p) : queue[p][i] \in Queued(p)
<1> USE DEF group, reader, pipeline
<1>1. PICK k : k = Prefix(p)
  OBVIOUS
<1>2. /\ k \in 0 .. Len(queue[p]) /\ queue[p] \in Seq(Offsets) /\ queue'[p] \in Seq(Offsets)
      /\ Len(queue[p]) \in Nat /\ Len(queue'[p]) = Len(queue[p]) - k
      /\ \A i \in 1 .. Len(queue[p]) - k : queue'[p][i] = queue[p][k + i]
      /\ \A i \in 1 .. k : queue[p][i] \in ready[p]
      /\ Queued(p)' = {queue[p][i] : i \in k + 1 .. Len(queue[p])}
      /\ Queued(p) = {queue[p][i] : i \in 1 .. Len(queue[p])}
  BY <1>1, TickQueue
<1>3. /\ TypeOK /\ PartInv(p) /\ OrderOf(p) /\ committed[p] \in 0 .. Length /\ pos[p] \in 0 .. Length
      /\ \A i \in 1 .. Len(queue[p]) : queue[p][i] \in Offsets /\ queue[p][i] \in Nat
  <2>1. TypeOK /\ PartInv(p) /\ OrderOf(p)
    BY DEF Inv, PartInv
  <2>2. committed[p] \in 0 .. Length /\ pos[p] \in 0 .. Length
    BY <2>1 DEF TypeOK
  <2>3. \A i \in 1 .. Len(queue[p]) : queue[p][i] \in Offsets
    BY <1>2, QueuedIs
  <2> QED
    BY <2>1, <2>2, <2>3 DEF Offsets
<1>4. \A i, j \in 1 .. Len(queue[p]) : i < j => queue[p][i] < queue[p][j]
  <2> TAKE i, j \in 1 .. Len(queue[p])
  <2>1. i < j => i \in 1 .. j - 1
    BY <1>2
  <2> QED
    BY <1>3, <2>1 DEF OrderOf
<1>5. /\ UNCHANGED <<handled, pc, pos, cur, todo, flying, left, ready>>
      /\ committed'[p] = IF p \in ok /\ k > 0 THEN queue[p][k] + 1 ELSE committed[p]
  BY <1>1 DEF Tick
<1>6. k > 0 => k \in 1 .. Len(queue[p])
  BY <1>2
<1>7. /\ committed[p] <= committed'[p] /\ committed'[p] \in 0 .. Length
      /\ committed'[p] <= pos[p]
  <2>1. committed[p] \in 0 .. Length /\ pos[p] \in 0 .. Length /\ committed[p] <= pos[p]
    BY <1>3 DEF OrderOf
  <2>2. CASE p \in ok /\ k > 0
    <3>1. PICK q : q = queue[p][k]
      OBVIOUS
    <3>2. committed[p] <= q /\ q < pos[p] /\ q \in Nat
      BY <1>3, <1>6, <2>2, <3>1 DEF OrderOf
    <3>3. committed'[p] = q + 1
      BY <1>5, <2>2, <3>1
    <3> QED
      BY <2>1, <3>2, <3>3, KafkaAssumption
  <2>3. CASE ~(p \in ok /\ k > 0)
    BY <1>5, <2>1, <2>3, KafkaAssumption
  <2> QED
    BY <2>2, <2>3
<1>8. /\ Queued(p)' \subseteq Queued(p)
      /\ \A i \in 1 .. k : queue[p][i] \in Queued(p) /\ queue[p][i] \notin Queued(p)'
      /\ \A o \in Queued(p) : o \in Queued(p)' \/ \E i \in 1 .. k : queue[p][i] = o
  <2>1. \A i \in 1 .. k : i \in 1 .. Len(queue[p]) /\ \A j \in k + 1 .. Len(queue[p]) : i < j
    BY <1>2
  <2>2. \A j \in k + 1 .. Len(queue[p]) : j \in 1 .. Len(queue[p])
    BY <1>2
  <2>3. \A j \in 1 .. Len(queue[p]) : j \in 1 .. k \/ j \in k + 1 .. Len(queue[p])
    BY <1>2
  <2>4. ASSUME NEW i \in 1 .. k, NEW j \in k + 1 .. Len(queue[p])
        PROVE  queue[p][i] # queue[p][j]
    <3>1. i \in 1 .. Len(queue[p]) /\ j \in 1 .. Len(queue[p]) /\ i < j
      BY <2>1, <2>2
    <3>2. queue[p][i] < queue[p][j] /\ queue[p][i] \in Nat /\ queue[p][j] \in Nat
      BY <1>3, <1>4, <3>1
    <3> QED
      BY <3>2
  <2> QED
    BY <1>2, <2>1, <2>2, <2>3, <2>4
<1>9. /\ (Holding(p)' <=> Holding(p)) /\ \A o : Due(p, o)' = Due(p, o)
      /\ \A o \in Offsets : CountsOf(p, o) /\ CoverOf(p, o) /\ flying[p][o] \in Nat
  BY <1>3, <1>5 DEF Holding, Due, PartInv, TypeOK
<1>10. ASSUME NEW o \in Queued(p), o \notin Queued(p)'
       PROVE  o \in Offsets /\ todo[p][o] = 0 /\ <<p, o>> \in handled
  <2>1. o \in Offsets /\ o \in ready[p]
    BY <1>2, <1>8, <1>10, QueuedIs
  <2> QED
    BY <1>9, <1>10, <2>1 DEF CountsOf
<1>11. OrderOf(p)'
  <2>1. ASSUME NEW i \in 1 .. Len(queue'[p])
        PROVE  /\ committed'[p] <= queue'[p][i] /\ queue'[p][i] < pos'[p]
               /\ \A j \in 1 .. i - 1 : queue'[p][j] < queue'[p][i]
               /\ Holding(p)' => queue'[p][i] < cur'[p].off
    <3>1. i \in 1 .. Len(queue[p]) - k /\ k + i \in 1 .. Len(queue[p]) /\ k < k + i
      BY <1>2
    <3>2. queue'[p][i] = queue[p][k + i]
      BY <1>2, <3>1
    <3>3. committed'[p] <= queue'[p][i]
      <4>1. committed[p] <= queue[p][k + i]
        BY <1>3, <3>1 DEF OrderOf
      <4>2. ASSUME k > 0 PROVE queue[p][k] + 1 <= queue[p][k + i]
        <5>1. k \in 1 .. Len(queue[p]) /\ queue[p][k] < queue[p][k + i]
          BY <1>4, <1>6, <3>1, <4>2
        <5> QED
          BY <1>3, <3>1, <5>1
      <4> QED
        BY <1>5, <3>2, <4>1, <4>2
    <3>4. queue'[p][i] < pos'[p] /\ (Holding(p)' => queue'[p][i] < cur'[p].off)
      BY <1>3, <1>5, <1>9, <3>1, <3>2 DEF OrderOf
    <3>5. ASSUME NEW j \in 1 .. i - 1 PROVE queue'[p][j] < queue'[p][i]
      <4>1. j \in 1 .. Len(queue[p]) - k /\ k + j \in 1 .. Len(queue[p]) /\ k + j < k + i
        BY <1>2, <3>1
      <4> QED
        BY <1>2, <1>4, <3>1, <3>2, <4>1
    <3> QED
      BY <3>3, <3>4, <3>5
  <2>2. Holding(p)' => committed'[p] <= cur'[p].off
    BY <1>3, <1>5, <1>6, <1>9 DEF OrderOf, Offsets
  <2>3. pc'[p] = "emit" => cur'[p].off \in Queued(p)' /\ cur'[p].n > 0
    <3>1. SUFFICES ASSUME pc[p] = "emit" PROVE cur[p].off \in Queued(p)' /\ cur[p].n > 0
      BY <1>5
    <3>2. cur[p].off \in Queued(p) /\ cur[p].n > 0 /\ cur[p].n \in Nat
      BY <1>3, <3>1 DEF OrderOf, TypeOK, Counts
    <3>3. cur[p].off \in Offsets /\ Due(p, cur[p].off) = cur[p].n
      <4>1. cur[p].off \in Offsets
        BY <1>2, <1>3, <3>2
      <4> QED
        BY <3>1, <4>1 DEF Due
    <3>4. todo[p][cur[p].off] > 0
      <4>1. PICK o \in Offsets : o = cur[p].off
        BY <3>3
      <4>2. todo[p][o] = flying[p][o] + cur[p].n /\ flying[p][o] \in Nat
        BY <1>9, <3>3, <4>1 DEF CountsOf
      <4> QED
        BY <3>2, <4>1, <4>2
    <3>5. PICK o \in Queued(p) : o = cur[p].off
      BY <3>2
    <3>6. o \notin Queued(p)' => todo[p][o] = 0
      BY <1>10
    <3> QED
      BY <3>2, <3>4, <3>5, <3>6
  <2>4. Holding(p)' => cur'[p].off \in Offsets /\ cur'[p].off + 1 = pos'[p]
    BY <1>3, <1>5, <1>9 DEF OrderOf
  <2> QED
    BY <1>5, <1>7, <2>1, <2>2, <2>3, <2>4 DEF OrderOf
<1>12. ASSUME NEW o \in Offsets PROVE CountsOf(p, o)'
  <2>1. CountsOf(p, o) /\ Due(p, o) \in Nat /\ flying[p][o] \in Nat
    BY <1>3, <1>9 DEF Due, TypeOK, Counts
  <2>2. o \in Queued(p) /\ o \notin Queued(p)' => todo[p][o] = 0 /\ flying[p][o] = 0
    BY <1>10, <2>1 DEF CountsOf
  <2> QED
    BY <1>5, <1>8, <1>9, <2>1, <2>2 DEF CountsOf
<1>13. ASSUME NEW o \in Offsets PROVE CoverOf(p, o)'
  <2>1. CoverOf(p, o) /\ o \in Nat
    BY <1>9 DEF Offsets
  <2>2. ASSUME p \in ok, k > 0, o < queue[p][k] + 1, <<p, o>> \notin handled PROVE FALSE
    <3>1. k \in 1 .. Len(queue[p]) /\ queue[p][k] \in Nat /\ queue[p][k] < pos[p]
      BY <1>3, <1>6, <2>2 DEF OrderOf
    <3>2. ~(Holding(p) /\ cur[p].off = o)
      BY <1>3, <2>1, <2>2, <3>1 DEF OrderOf
    <3>3. o \in Queued(p)
      BY <1>3, <2>1, <2>2, <3>1, <3>2 DEF CoverOf
    <3>4. PICK i \in 1 .. Len(queue[p]) : queue[p][i] = o
      BY <1>2, <3>3
    <3>5. ~(k < i)
      BY <1>3, <1>4, <2>1, <2>2, <3>1, <3>4
    <3>6. i \in 1 .. k
      BY <1>2, <3>1, <3>4, <3>5
    <3> QED
      BY <1>8, <1>10, <2>2, <3>3, <3>4, <3>6
  <2>3. o < committed'[p] => <<p, o>> \in handled
    BY <1>5, <2>1, <2>2 DEF CoverOf
  <2>4. o < pos'[p] => \/ <<p, o>> \in handled
                       \/ o \in Queued(p)'
                       \/ Holding(p)' /\ cur'[p].off = o
    BY <1>5, <1>9, <1>10, <2>1 DEF CoverOf
  <2> QED
    BY <1>5, <2>3, <2>4 DEF CoverOf
<1> QED
  BY <1>1, <1>7, <1>8, <1>11, <1>12, <1>13 DEF PartInv

LEMMA TickInv ==
  ASSUME Inv, NEW ok \in SUBSET Parts, Tick(ok)
  PROVE  Inv'
<1> USE DEF group, reader, pipeline
<1>1. TypeOK /\ \A p \in Parts : PartInv(p)'
  BY TickPart DEF Inv
<1>2. UNCHANGED <<phase, stopping, begun, handled, pc, pos, cur, todo, flying, left, ready,
                  readers, exiting>>
  BY DEF Tick
<1>3. Gone(ok) \subseteq Slots /\ Slots' = Slots \ Gone(ok)
  <2>1. ASSUME NEW p \in Parts
        PROVE  /\ Queued(p)' = {o \in Queued(p) : \A i \in 1 .. Prefix(p) : queue[p][i] # o}
               /\ \A i \in 1 .. Prefix(p) : queue[p][i] \in Queued(p)
    BY TickPart
  <2>2. Gone(ok) = {m \in Parts \X Offsets : \E i \in 1 .. Prefix(m[1]) : queue[m[1]][i] = m[2]}
    BY DEF Gone, Cleaned
  <2>3. ASSUME NEW p \in Parts, NEW o \in Offsets
        PROVE  /\ <<p, o>> \in Gone(ok) <=> \E i \in 1 .. Prefix(p) : queue[p][i] = o
               /\ <<p, o>> \in Slots <=> o \in Queued(p)
               /\ <<p, o>> \in Slots' <=> o \in Queued(p)'
    BY <2>2 DEF Slots
  <2>4. Gone(ok) \subseteq Parts \X Offsets /\ Slots \subseteq Parts \X Offsets
        /\ Slots' \subseteq Parts \X Offsets
    BY <2>2 DEF Slots
  <2>5. ASSUME NEW m \in Parts \X Offsets
        PROVE  /\ m \in Gone(ok) => m \in Slots
               /\ m \in Slots' <=> m \in Slots /\ m \notin Gone(ok)
    <3>1. PICK p \in Parts, o \in Offsets : m = <<p, o>>
      OBVIOUS
    <3> QED
      BY <2>1, <2>3, <3>1
  <2> QED
    BY <2>4, <2>5
<1>4. /\ Cardinality(Gone(ok)) \in Nat
      /\ Cardinality(Slots') = Cardinality(Slots) - Cardinality(Gone(ok))
      /\ Cardinality(Slots') \in Nat
  <2>1. IsFiniteSet(Slots) /\ IsFiniteSet(Gone(ok)) /\ IsFiniteSet(Slots')
    <3>1. Slots' \in SUBSET Slots /\ Gone(ok) \in SUBSET Slots
      BY <1>3
    <3> QED
      BY <3>1, FiniteCounts, FS_Subset
  <2>2. Slots' \cup Gone(ok) = Slots /\ Slots' \cap Gone(ok) = {}
    BY <1>3
  <2>3. Cardinality(Slots) = Cardinality(Slots') + Cardinality(Gone(ok)) - Cardinality({})
    BY <2>1, <2>2, FS_Union
  <2>4. Cardinality(Slots') \in Nat /\ Cardinality(Gone(ok)) \in Nat /\ Cardinality({}) = 0
    BY <2>1, FS_CardinalityType, FS_EmptySet
  <2>5. Cardinality(Slots) \in Nat
    BY FiniteCounts
  <2> QED
    BY <2>3, <2>4, <2>5
<1>5. Pushing' = Pushing /\ Working' = Working
  BY <1>2 DEF Pushing, Working
<1>6. sem' = sem - Cardinality(Gone(ok)) /\ sem \in 0 .. MaxUncommitted
  BY <1>1 DEF Tick, TypeOK
<1>7. SemaphoreCounts'
  BY <1>4, <1>5, <1>6, FiniteCounts DEF SemaphoreCounts, Inv
<1>8. sem' \in 0 .. MaxUncommitted
  BY <1>4, <1>5, <1>6, <1>7, FiniteCounts DEF SemaphoreCounts
<1>9. TypeOK'
  <2>1. committed' \in [Parts -> 0 .. Length]
    <3>1. \A p \in Parts : committed'[p] \in 0 .. Length
      BY TickPart
    <3>2. committed' = [p \in Parts |-> committed'[p]]
      BY DEF Tick
    <3> QED
      BY <3>1, <3>2
  <2>2. queue' \in [Parts -> Seq(Offsets)]
    <3>1. \A p \in Parts : queue'[p] \in Seq(Offsets)
      BY TickQueue
    <3>2. queue' = [p \in Parts |-> queue'[p]]
      BY DEF Tick
    <3> QED
      BY <3>1, <3>2
  <2>3. ctl' \in {"off", "run", "done"}
    BY <1>1 DEF Tick, TypeOK
  <2> QED
    BY <1>1, <1>2, <1>8, <2>1, <2>2, <2>3 DEF TypeOK
<1>10. ExitInv'
  BY <1>2, <1>5 DEF Tick, TickExits, ExitDue, ExitInv, Inv
<1> QED
  BY <1>1, <1>7, <1>9, <1>10 DEF Inv

LEMMA ReaderExitInv ==
  ASSUME Inv, NEW p \in Parts, ReaderExit(p)
  PROVE  Inv'
<1> USE DEF group, broker, pipeline, controller
<1>1. TypeOK /\ PartInv(p) /\ pc[p] = "exit" /\ pc'[p] = "wait" /\ Queued(p)' = Queued(p)
  BY DEF Inv, TypeOK, Queued, ReaderExit
<1>2. /\ pc' = [pc EXCEPT ![p] = "wait"] /\ readers' = readers - 1 /\ ctl = "run"
      /\ exiting' = (readers' <= 0) /\ ctl' = IF exiting' /\ sem = 0 THEN "done" ELSE ctl
      /\ UNCHANGED <<group, broker, pos, cur, pipeline, sem, controller>>
  BY DEF ReaderExit, ExitDue
<1>3. TypeOK'
  <2>1. exiting' \in BOOLEAN
    BY <1>2
  <2>2. readers' \in Int
    BY <1>1, <1>2 DEF TypeOK
  <2>3. ctl' \in {"off", "run", "done"}
    BY <1>2
  <2> QED
    BY <1>1, <1>2, <2>1, <2>2, <2>3 DEF TypeOK
<1>4. PartInv(p)'
  <2>1. ~Holding(p) /\ ~Holding(p)' /\ \A o : Due(p, o) = 0 /\ Due(p, o)' = 0
    BY <1>1 DEF Holding, Due
  <2>2. OrderOf(p)'
    BY <1>1, <1>2, <2>1 DEF PartInv, OrderOf
  <2>3. \A o \in Offsets : CountsOf(p, o)'
    BY <1>1, <1>2, <2>1 DEF PartInv, CountsOf
  <2>4. \A o \in Offsets : CoverOf(p, o)'
    BY <1>1, <1>2, <2>1 DEF PartInv, CoverOf
  <2> QED
    BY <2>2, <2>3, <2>4 DEF PartInv
<1>5. SemaphoreCounts'
  <2>1. Pushing' = Pushing
    BY <1>1, <1>2 DEF Pushing, TypeOK
  <2> QED
    BY <1>2, <2>1, SameCounts DEF SemaphoreCounts, Inv
<1>6. ExitInv'
  <2>1. Working' = Working \ {p} /\ p \in Working
    BY <1>1, <1>2 DEF Working, TypeOK
  <2>2. IsFiniteSet(Working) /\ IsFiniteSet(Working')
    <3>1. Working \in SUBSET Parts /\ Working' \in SUBSET Working
      BY <2>1 DEF Working
    <3> QED
      BY <3>1, FS_Subset
  <2>3. Cardinality(Working') = Cardinality(Working) - 1 /\ Cardinality(Working') \in Nat
    BY <2>1, <2>2, FS_RemoveElement, FS_CardinalityType
  <2>4. Cardinality(Working) \in Nat
    BY <2>2, FS_CardinalityType
  <2>5. readers' = Cardinality(Working')
    BY <1>2, <2>3, <2>4 DEF ExitInv, Inv
  <2>6. exiting' => Working' = {}
    <3>1. exiting' => readers' <= 0
      BY <1>2, Zenon
    <3>2. readers' <= 0 => Cardinality(Working') = 0
      <4>1. PICK c \in Nat : c = Cardinality(Working')
        BY <2>3
      <4>2. readers' = c
        BY <2>5, <4>1
      <4>3. c <= 0 => c = 0
        OBVIOUS
      <4> QED
        BY <4>1, <4>2, <4>3, Zenon
    <3> QED
      BY <2>2, <3>1, <3>2, FS_EmptySet
  <2> QED
    BY <1>2, <2>5, <2>6 DEF ExitInv
<1>7. \A q \in Parts : q # p => Same(q)
  BY <1>1, <1>2 DEF Same, TypeOK
<1> QED
  BY <1>3, <1>4, <1>5, <1>6, <1>7, LocalInv

LEMMA AnewInv ==
  ASSUME Inv, NEW l \in {"fetch", "off"}, NEW c \in {"run", "off"}, Anew(l, c),
         (l = "fetch" <=> c = "run"),
         phase' \in {"idle", "active", "ending", "left"}, stopping' \in BOOLEAN,
         begun' \in 0 .. Generations
  PROVE  Inv'
<1> USE DEF broker
<1>1. /\ pc' = [p \in Parts |-> l] /\ pos' = committed /\ cur' = NoMessage
      /\ todo' = Nothing /\ flying' = Nothing /\ left' = Nothing
      /\ sem' = 0 /\ queue' = [p \in Parts |-> <<>>] /\ ready' = [p \in Parts |-> {}]
      /\ ctl' = c /\ readers' = Cardinality(Parts) /\ exiting' = FALSE
      /\ committed' = committed /\ handled' = handled
  BY DEF Anew, StartAt
<1>2. TypeOK /\ \A p \in Parts : PartInv(p)
  BY DEF Inv
<1>3. TypeOK'
  <2>1. 0 \in Counts /\ 0 \in 0 .. Length /\ 0 \in 0 .. MaxUncommitted
    BY DEF Counts
  <2>2. Nothing \in [Parts -> [Offsets -> Counts]] /\ Nothing \in [Parts -> [Offsets -> Nat]]
    BY <2>1 DEF Nothing
  <2>3. NoMessage \in [Parts -> [off : 0 .. Length, n : Counts]]
    BY <2>1 DEF NoMessage
  <2>4. queue' \in [Parts -> Seq(Offsets)]
    BY <1>1
  <2>5. todo' \in [Parts -> [Offsets -> Nat]] /\ flying' \in [Parts -> [Offsets -> Nat]]
        /\ left' \in [Parts -> [Offsets -> Counts]]
    BY <1>1, <2>2
  <2>6. cur' \in [Parts -> [off : 0 .. Length, n : Counts]]
    BY <1>1, <2>3
  <2>7. /\ committed' \in [Parts -> 0 .. Length] /\ pos' \in [Parts -> 0 .. Length]
        /\ pc' \in [Parts -> {"off", "fetch", "slot", "push", "emit", "exit", "wait"}]
        /\ ready' \in [Parts -> SUBSET Offsets] /\ handled' \subseteq Parts \X Offsets
    BY <1>1, <1>2 DEF TypeOK
  <2>8. sem' \in 0 .. MaxUncommitted /\ readers' \in Int
    BY <1>1, <2>1, FS_CardinalityType
  <2>9. exiting' \in BOOLEAN
    BY <1>1
  <2>10. ctl' \in {"off", "run", "done"}
    BY <1>1
  <2> QED
    BY <2>4, <2>5, <2>6, <2>7, <2>8, <2>9, <2>10 DEF TypeOK
<1>4. ASSUME NEW p \in Parts PROVE Queued(p)' = {} /\ PartInv(p)'
  <2>1. /\ Queued(p)' = {} /\ ~Holding(p)' /\ queue'[p] = <<>> /\ pc'[p] = l
        /\ \A o : Due(p, o)' = 0
    BY <1>1 DEF Queued, Range, Holding, Due
  <2>2. committed'[p] <= pos'[p] /\ pos'[p] = committed[p]
    BY <1>1, <1>2 DEF TypeOK
  <2>3. OrderOf(p)'
    BY <2>1, <2>2 DEF OrderOf
  <2>4. \A o \in Offsets : CountsOf(p, o)'
    BY <1>1, <2>1 DEF CountsOf, Nothing
  <2>5. \A o \in Offsets : CoverOf(p, o)'
    BY <1>1, <1>2, <2>2 DEF CoverOf, PartInv
  <2> QED
    BY <2>1, <2>3, <2>4, <2>5 DEF PartInv
<1>5. Slots' = {} /\ Pushing' = {}
  BY <1>1, <1>4 DEF Slots, Pushing
<1>6. SemaphoreCounts'
  BY <1>1, <1>5, FS_EmptySet DEF SemaphoreCounts
<1>7. ExitInv'
  <2>1. c = "run" => Working' = Parts
    BY <1>1 DEF Working
  <2> QED
    BY <1>1, <2>1 DEF ExitInv
<1> QED
  BY <1>3, <1>4, <1>6, <1>7 DEF Inv

\* Every step preserves the invariant.
LEMMA NextInv ==
  ASSUME Inv, [Next]_vars
  PROVE  Inv'
<1>1. TypeOK
  BY DEF Inv
<1>2. CASE Begin
  <2>1. begun + 1 \in 0 .. Generations
    BY <1>1, <1>2 DEF Begin, TypeOK
  <2>2. Anew("fetch", "run") /\ phase' = "active" /\ begun' = begun + 1 /\ stopping' = stopping
    BY <1>2 DEF Begin
  <2>3. stopping' \in BOOLEAN
    BY <1>1, <2>2 DEF TypeOK
  <2> QED
    BY <2>1, <2>2, <2>3, AnewInv
<1>3. CASE Crash
  <2>1. Anew("off", "off") /\ phase' = "idle" /\ begun' = begun /\ stopping' = FALSE
    BY <1>3 DEF Crash
  <2>2. begun' \in 0 .. Generations
    BY <1>1, <2>1 DEF TypeOK
  <2>3. stopping' \in BOOLEAN
    BY <2>1
  <2> QED
    BY <2>1, <2>2, <2>3, AnewInv
<1>4. CASE Stop
  <2>1. UNCHANGED <<phase, begun, broker, reader, pipeline, sem, controller, exit>> /\ stopping' = TRUE
    BY <1>4 DEF Stop
  <2>2. TypeOK'
    BY <1>1, <2>1 DEF TypeOK, broker, reader, pipeline, controller, exit
  <2> QED
    BY <2>1, <2>2, QuietInv
<1>5. CASE EndGeneration \/ GenerationOver \/ Leave
  <2>1. /\ UNCHANGED <<stopping, begun, broker, reader, pipeline, sem, controller, exit>>
        /\ phase' \in {"idle", "ending", "left"}
    BY <1>5 DEF EndGeneration, GenerationOver, Leave
  <2>2. TypeOK'
    BY <1>1, <2>1 DEF TypeOK, broker, reader, pipeline, controller, exit
  <2> QED
    BY <2>1, <2>2, QuietInv
<1>6. ASSUME NEW p \in Parts, ReaderStep(p) PROVE Inv'
  <2>1. CASE TakeSlot(p)
    BY <2>1, TakeSlotInv
  <2>2. CASE Push(p)
    BY <2>2, PushInv
  <2>3. CASE Emit(p)
    BY <2>3, EmitInv
  <2>4. CASE LeaveLoop(p)
    BY <2>4, MoveInv DEF LeaveLoop
  <2>5. CASE ReaderExit(p)
    BY <2>5, ReaderExitInv
  <2>6. CASE ReaderDone(p)
    BY <2>6, MoveInv DEF ReaderDone
  <2>7. ASSUME NEW n \in Counts, Fetch(p, n) PROVE Inv'
    BY <2>7, FetchInv
  <2> QED
    BY <1>6, <2>1, <2>2, <2>3, <2>4, <2>5, <2>6, <2>7 DEF ReaderStep
<1>8. ASSUME NEW p \in Parts, NEW o \in Offsets, Deliver(p, o) PROVE Inv'
  BY <1>8, DeliverInv
<1>9. CASE Commit
  BY <1>9, TickInv DEF Commit
<1>10. CASE UNCHANGED vars
  <2>1. TypeOK'
    BY <1>1, <1>10 DEF TypeOK, vars, group, broker, reader, pipeline, controller, exit
  <2> QED
    BY <1>10, <2>1, QuietInv DEF vars
<1> QED
  BY <1>2, <1>3, <1>4, <1>5, <1>6, <1>8, <1>9, <1>10 DEF Next

LEMMA InvHolds ==
  Spec => []Inv
<1>1. Init => Inv
  BY InitInv
<1>2. Inv /\ [Next]_vars => Inv'
  BY NextInv
<1> QED
  BY <1>1, <1>2, PTL DEF Spec

-----------------------------------------------------------------------------
(* The theorems.                                                           *)

\* The input is well typed: no counter of events and no slot goes below zero, and the
\* semaphore stays within its capacity.
THEOREM TypeCorrect ==
  Spec => []TypeOK
<1>1. Inv => TypeOK
  BY DEF Inv
<1> QED
  BY <1>1, InvHolds, PTL

\* The slots taken of the commit semaphore are those of the messages in the queues and
\* of the readers that are about to queue one.
THEOREM SemaphoreCorrect ==
  Spec => []SemaphoreCounts
<1>1. Inv => SemaphoreCounts
  BY DEF Inv
<1> QED
  BY <1>1, InvHolds, PTL

\* When the controller is done every reader has left its loop, the queues are empty, and
\* no event is in the pipeline whose hook would wait for the controller.
THEOREM DoneCorrect ==
  Spec => []DoneIsClean
<1>1. Inv => DoneIsClean
  <2> SUFFICES ASSUME Inv, ctl = "done"
               PROVE  /\ \A p \in Parts : pc[p] \in {"wait", "off"} /\ queue[p] = <<>>
                      /\ \A p \in Parts, o \in Offsets : flying[p][o] = 0
    BY DEF DoneIsClean
  <2>1. Working = {} /\ sem = 0
    BY DEF Inv, ExitInv
  <2>2. Slots = {}
    <3>1. Cardinality(Slots) = 0
      BY <2>1, FiniteCounts DEF Inv, SemaphoreCounts
    <3> QED
      BY <3>1, FiniteCounts, FS_EmptySet
  <2>3. ASSUME NEW p \in Parts PROVE Queued(p) = {} /\ queue[p] = <<>>
    <3>1. queue[p] \in Seq(Offsets)
      BY DEF Inv, TypeOK
    <3>2. /\ Queued(p) = {queue[p][i] : i \in 1 .. Len(queue[p])}
          /\ Queued(p) \subseteq Offsets /\ Len(queue[p]) \in Nat
      BY <3>1, QueuedIs
    <3>3. ASSUME NEW o \in Queued(p) PROVE FALSE
      <4>1. o \in Offsets /\ <<p, o>> \in Slots
        BY <3>2, <3>3 DEF Slots
      <4> QED
        BY <2>2, <4>1
    <3>4. Len(queue[p]) # 0 => 1 \in 1 .. Len(queue[p])
      BY <3>2
    <3>5. Len(queue[p]) = 0
      BY <3>2, <3>3, <3>4
    <3> QED
      BY <3>1, <3>3, <3>5
  <2>4. ASSUME NEW p \in Parts, NEW o \in Offsets PROVE flying[p][o] = 0
    BY <2>3 DEF Inv, PartInv, CountsOf
  <2> QED
    BY <2>1, <2>3, <2>4 DEF Working
<1> QED
  BY <1>1, InvHolds, PTL

Confirmed == {m \in Parts \X Offsets : m[2] < committed[m[1]]}

\* After a step, what is confirmed was handled.
LEMMA ConfirmedHandled ==
  ASSUME Inv'
  PROVE  Confirmed' \subseteq handled'
<1> SUFFICES ASSUME NEW m \in Confirmed' PROVE m \in handled'
  OBVIOUS
<1>1. PICK p \in Parts, o \in Offsets : m = <<p, o>> /\ o < committed'[p]
  BY DEF Confirmed
<1>2. CoverOf(p, o)'
  BY DEF Inv, PartInv
<1> QED
  BY <1>1, <1>2 DEF CoverOf

\* A commit only adds to what is confirmed.
LEMMA ConfirmedGrows ==
  ASSUME Inv, NEW ok \in SUBSET Parts, Tick(ok)
  PROVE  Confirmed \subseteq Confirmed'
<1> SUFFICES ASSUME NEW m \in Confirmed PROVE m \in Confirmed'
  OBVIOUS
<1>1. PICK p \in Parts, o \in Offsets : m = <<p, o>> /\ o < committed[p]
  BY DEF Confirmed
<1>2. /\ committed[p] <= committed'[p] /\ committed'[p] \in 0 .. Length
      /\ committed[p] \in 0 .. Length /\ o \in Nat
  <2>1. committed[p] <= committed'[p] /\ committed'[p] \in 0 .. Length
    BY TickPart
  <2>2. committed[p] \in 0 .. Length
    BY DEF Inv, TypeOK
  <2> QED
    BY <2>1, <2>2 DEF Offsets
<1>3. o < committed'[p]
  BY <1>1, <1>2
<1> QED
  BY <1>1, <1>3 DEF Confirmed

\* A step that handles a message, or none, and commits nothing.
LEMMA HandleStep ==
  ASSUME NEW m \in Parts \X Offsets, committed' = committed,
         handled' = handled \/ handled' = handled \cup {m}
  PROVE  [Contract!Next]_(Contract!vars)
BY DEF Contract!Next, Contract!Handle, Contract!vars

LEMMA QuietStep ==
  ASSUME UNCHANGED broker
  PROVE  [Contract!Next]_(Contract!vars)
BY DEF Contract!vars, broker

LEMMA StepRefines ==
  ASSUME Inv, Inv', [Next]_vars
  PROVE  [Contract!Next]_(Contract!vars)
<1>1. CASE Begin \/ Stop \/ EndGeneration \/ GenerationOver \/ Leave \/ Crash
  BY <1>1, QuietStep DEF Begin, Stop, EndGeneration, GenerationOver, Leave, Crash, Anew
<1>2. ASSUME NEW p \in Parts, ReaderStep(p) PROVE [Contract!Next]_(Contract!vars)
  <2>1. CASE TakeSlot(p) \/ Push(p) \/ Emit(p) \/ LeaveLoop(p) \/ ReaderExit(p) \/ ReaderDone(p)
    BY <2>1, QuietStep DEF TakeSlot, Push, Emit, LeaveLoop, ReaderExit, ReaderDone
  <2>2. ASSUME NEW n \in Counts, Fetch(p, n) PROVE [Contract!Next]_(Contract!vars)
    <3>1. pos[p] < Length /\ pos[p] \in Nat
      BY <2>2 DEF Fetch, Inv, TypeOK
    <3>2. <<p, pos[p]>> \in Parts \X Offsets
      BY <3>1 DEF Offsets
    <3>3. committed' = committed /\ (handled' = handled \/ handled' = handled \cup {<<p, pos[p]>>})
      BY <2>2 DEF Fetch, Work
    <3> QED
      BY <3>2, <3>3, HandleStep
  <2> QED
    BY <1>2, <2>1, <2>2 DEF ReaderStep
<1>4. ASSUME NEW p \in Parts, NEW o \in Offsets, Deliver(p, o)
      PROVE  [Contract!Next]_(Contract!vars)
  <2>1. committed' = committed /\ (handled' = handled \/ handled' = handled \cup {<<p, o>>})
    BY <1>4 DEF Deliver
  <2>2. <<p, o>> \in Parts \X Offsets
    OBVIOUS
  <2> QED
    BY <2>1, <2>2, HandleStep
<1>5. ASSUME NEW ok \in SUBSET Parts, Tick(ok) PROVE [Contract!Next]_(Contract!vars)
  <2>1. handled' = handled /\ Confirmed \subseteq Confirmed' /\ Confirmed' \subseteq handled
    <3>1. handled' = handled
      BY <1>5 DEF Tick
    <3>2. Confirmed' \subseteq handled'
      BY ConfirmedHandled
    <3> QED
      BY <1>5, <3>1, <3>2, ConfirmedGrows
  <2>2. PICK S : S = Confirmed'
    OBVIOUS
  <2>3. S \in SUBSET (Parts \X Offsets) /\ S \subseteq handled /\ Confirmed' = Confirmed \cup S
    BY <2>1, <2>2 DEF Confirmed
  <2>4. Contract!Confirm(S)
    BY <2>1, <2>3 DEF Contract!Confirm, Confirmed
  <2> QED
    BY <2>3, <2>4 DEF Contract!Next
<1>6. CASE UNCHANGED vars
  BY <1>6, QuietStep DEF vars
<1> QED
  BY <1>1, <1>2, <1>4, <1>5, <1>6 DEF Next, Commit

\* The input implements the contract of a source: it confirms a message only after the
\* pipeline has handled it, over rebalances and crashes, whatever commits fail.
THEOREM CommitCorrect ==
  Spec => CommitSpec
<1>1. Init => Contract!Init
  BY DEF Init, Contract!Init, Offsets
<1>2. Inv /\ Inv' /\ [Next]_vars => [Contract!Next]_(Contract!vars)
  BY StepRefines
<1> QED
  BY <1>1, <1>2, InvHolds, PTL DEF Spec, CommitSpec, Contract!Spec
=============================================================================
