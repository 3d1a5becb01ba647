------------------------- MODULE SharedPluginsProofs --------------------------
(***************************************************************************)
(* Proofs about plugins that share clients while their pipelines are       *)
(* built, run and closed, and about the idempotency keys of events.        *)
(*                                                                         *)
(* PlanInv is inductive: where each pipeline is in its plan, which of its  *)
(* instances are alive at that place, and what the storages hold for the   *)
(* instances that are alive.  HeldInv and OriginalInv are inductive with   *)
(* it, for types that close what they are the last to use, and for         *)
(* pipelines that look for duplicates of the events that have some.  All   *)
(* of them rest on ClosedOnce: Close goes once through what Build has      *)
(* made, whatever the configuration.                                       *)
(***************************************************************************)
EXTENDS SharedPlugins, FiniteSetTheorems, SequenceTheorems, WellFoundedInduction, TLAPS

Mine(p) == {i \in alive : i.pipe = p}

Running(p) == stage[p] \in {"building", "running"}

(* The place of a pipeline in its plan.                                    *)
PlaceInv ==
  \A p \in Pipes :
    /\ at[p][1] \in 1 .. Len(Plans[p]) + 1
    /\ at[p][1] <= Len(Plans[p]) => at[p][2] \in 1 .. Len(Group(p))
    /\ at[p][1] > Len(Plans[p]) => at[p][2] = 1
    /\ stage[p] # "stopped" => starts[p] > 0
    /\ stage[p] = "running" => at[p][1] > Len(Plans[p])

(* Its instances: what was planned up to that place, or is to be closed.   *)
BuiltInv ==
  /\ IsFiniteSet(alive)
  /\ \A p \in Pipes :
       /\ stage[p] = "stopped" => Mine(p) = {}
       /\ stage[p] \in {"building", "running"} => Mine(p) = Planned(p, at[p][1] - 1) \cup Pending(p)
       /\ stage[p] = "closing" => Mine(p) = Range(left[p]) /\ IsInjective(left[p])

(* An instance uses the client in the storage, which is one of its key.    *)
ClientInv == \A i \in alive \cap Lent : client[i] = storage.objects[Key(i)]

ObjectInv == \A k \in Keys : storage.objects[k] # None => storage.objects[k] \in {k} \X Copies

(* Nothing is lost under the identifiers of starts to come.                *)
FreshInv ==
  \A i \in Lent : \A n \in 1 .. MaxStarts[i.pipe] :
    ~Types[i.type].global /\ n > starts[i.pipe] => lost[KeyIn(i, n)] = 0

(* What is stored is open, unless a ping has failed: then the identifier   *)
(* is of a pipeline that is being closed.                                  *)
OpenInv ==
  \A i \in Lent :
    (Types[i.type].global \/ Running(i.pipe)) /\ storage.objects[Key(i)] # None => storage.objects[Key(i)] \in open

(* What is open is stored.                                                 *)
HeldInv == \A c \in open : storage.objects[c[1]] = c

SharedKey(e) == KeyOf[e] # None /\ \E f \in AllEvents \ {e} : KeyOf[f] = KeyOf[e]

Deduplicators(p) == {d \in 1 .. Len(Procs(p)) : Types[Procs(p)[d].type].runs = "deduplicate"}

(* Pipelines whose events share keys look for duplicates.                  *)
KeysAreChecked ==
  \A p \in Pipes : \A e \in Events[p] : SharedKey(e) => Deduplicators(p) # {}

(* An event that has been looked at, and one that was found unique.        *)
Past(e) ==
  \/ e \in out
  \/ \E p \in Pipes : \E l \in Lines(p) :
       /\ cur[p][l].e = e
       /\ \E d \in Deduplicators(p) : d < cur[p][l].k

Original(e) == Past(e) /\ ~mark[e].dup /\ ~mark[e].err

(* The key of an original is set, and no other original has it.            *)
OriginalInv ==
  \A e \in AllEvents : SharedKey(e) /\ Original(e) =>
    /\ KeyOf[e] \in keys
    /\ \A f \in AllEvents : Original(f) /\ KeyOf[f] = KeyOf[e] => f = e

(* The parts of TypeOK, by those who change them.                          *)
BuildType ==
  /\ stage \in [Pipes -> {"stopped", "building", "running", "closing"}]
  /\ starts \in [Pipes -> Nat] /\ \A p \in Pipes : starts[p] <= MaxStarts[p]
  /\ at \in [Pipes -> Nat \X Nat] /\ left \in [Pipes -> Seq(AllPlans)]
  /\ alive \subseteq AllPlans /\ client \in [Lent -> Clients \cup {None}]
  /\ lost \in [Keys -> Nat] /\ faults \in 0 .. MaxFaults

ClientType ==
  /\ open \subseteq Clients
  /\ storage \in [members : [Keys -> Nat], objects : [Keys -> Clients \cup {None}]]

CacheType ==
  /\ caches \in [CacheKeys -> [writers : Nat, syncPoint : Nat, fresh : SUBSET AllEvents]]
  /\ templates \in [u : Nat, m : SUBSET {KeyOf[e] : e \in AllEvents}]

CurType == DOMAIN cur = Pipes /\ \A p \in Pipes : cur[p] \in [Lines(p) -> [e : Events[p] \cup {None}, k : Nat, try : Nat]]

RunType ==
  /\ keys \subseteq {KeyOf[e] : e \in AllEvents} /\ out \subseteq AllEvents /\ stopping \subseteq Pipes
  /\ DOMAIN done = Pipes /\ \A p \in Pipes : done[p] \in [Lines(p) -> Nat]
  /\ mark \in [AllEvents -> [dup : BOOLEAN, err : BOOLEAN]]

LEMMA TypeParts == TypeOK <=> BuildType /\ ClientType /\ CacheType /\ CurType /\ RunType
BY Zenon DEF TypeOK, BuildType, ClientType, CacheType, CurType, RunType
----------------------------------------------------------------------------
\* The least element of a set of natural numbers.
LEMMA Least ==
  ASSUME NEW S \in SUBSET Nat, S # {}
  PROVE  \E k \in S : \A i \in S : k <= i
<1>1. IsWellFoundedOn(OpToRel(<, Nat), Nat)
  BY NatLessThanWellFounded
<1>2. PICK k \in S : \A i \in S : <<i, k>> \notin OpToRel(<, Nat)
  BY <1>1, WFMin
<1>3. \A i \in S : ~(i < k)
  BY <1>2 DEF OpToRel
<1> QED
  BY <1>3

----------------------------------------------------------------------------
(* Sequences that are joined, flattened or reversed.                       *)

(* FlattenSeq is defined by a recursive function, which exists.            *)
LEMMA Flattens ==
  ASSUME NEW s, NEW N \in Nat
  PROVE  \E f : f = [i \in 1 .. N |-> IF i = 1 THEN s[i] ELSE f[i-1] \o s[i]]
<1> DEFINE Is(f, n) == f = [i \in 1 .. n |-> IF i = 1 THEN s[i] ELSE f[i-1] \o s[i]]
           Has(n) == \E f : Is(f, n)
           Bad == {n \in Nat : ~Has(n)}
<1>1. SUFFICES ASSUME ~Has(N) PROVE FALSE
  OBVIOUS
<1> HIDE DEF Has
<1>2. Bad \in SUBSET Nat /\ N \in Bad
  BY <1>1
<1>3. PICK k \in Bad : \A i \in Bad : k <= i
  BY <1>2, Least
<1>4. k \in Nat /\ ~Has(k)
  BY <1>3
<1>5. k # 0
  <2>1. Is(<<>>, 0)
    BY SMT
  <2> QED BY <1>4, <2>1 DEF Has
<1>6. k - 1 \in Nat /\ Has(k - 1)
  <2>1. k - 1 \in Nat /\ k - 1 \notin Bad
    BY <1>3, <1>4, <1>5
  <2> QED BY <2>1
<1>7. PICK f : Is(f, k - 1)
  BY <1>6 DEF Has
<1> DEFINE g == [i \in 1 .. k |-> IF i = k THEN IF k = 1 THEN s[1] ELSE f[k-1] \o s[k] ELSE f[i]]
<1>8. ASSUME NEW i \in 1 .. k PROVE g[i] = IF i = 1 THEN s[i] ELSE g[i-1] \o s[i]
  <2>1. CASE i = k /\ k = 1
    BY <2>1
  <2>2. CASE i = k /\ k # 1
    <3>1. k - 1 \in 1 .. k /\ k - 1 # k
      BY <1>4, <1>5, <2>2
    <3>2. g[k - 1] = f[k - 1]
      BY <3>1
    <3> QED BY <2>2, <3>2
  <2>3. CASE i # k
    <3>1. i \in 1 .. k - 1 /\ (i # 1 => i - 1 \in 1 .. k /\ i - 1 # k)
      BY <1>4, <2>3
    <3>2. f[i] = IF i = 1 THEN s[i] ELSE f[i-1] \o s[i]
      BY <1>7, <3>1
    <3>3. i # 1 => g[i - 1] = f[i - 1]
      BY <3>1
    <3>4. g[i] = f[i]
      BY <2>3
    <3> QED BY <3>2, <3>3, <3>4
  <2> QED BY <2>1, <2>2, <2>3
<1>9. Is(g, k)
  <2> DEFINE e(i) == IF i = 1 THEN s[i] ELSE g[i-1] \o s[i]
  <2>1. \A i \in 1 .. k : g[i] = e(i)
    BY <1>8
  <2>2. g = [i \in 1 .. k |-> g[i]]
    OBVIOUS
  <2> HIDE DEF g, e
  <2>3. g = [i \in 1 .. k |-> e(i)]
    BY <2>1, <2>2
  <2> QED BY <2>3 DEF e
<1> QED BY <1>4, <1>9 DEF Has

LEMMA FlatSteps ==
  ASSUME NEW S, NEW s \in Seq(Seq(S)), Len(s) # 0
  PROVE  \E f : /\ FlattenSeq(s) = f[Len(s)] /\ f[1] = s[1]
                /\ \A i \in 1 .. Len(s) : i # 1 => f[i] = f[i-1] \o s[i]
<1> DEFINE Is(f) == f = [i \in 1 .. Len(s) |-> IF i = 1 THEN s[i] ELSE f[i-1] \o s[i]]
           f == CHOOSE f : Is(f)
<1>1. Len(s) \in Nat /\ 1 \in 1 .. Len(s)
  OBVIOUS
<1>2. \E h : Is(h)
  BY <1>1, Flattens
<1>3. Is(f)
  BY <1>2
<1>4. FlattenSeq(s) = f[Len(s)]
  BY DEF FlattenSeq
<1> HIDE DEF f
<1>5. ASSUME NEW i \in 1 .. Len(s) PROVE f[i] = IF i = 1 THEN s[i] ELSE f[i-1] \o s[i]
  BY <1>3
<1> QED BY <1>1, <1>4, <1>5

(* Two sequences that are joined.                                          *)
LEMMA Joined ==
  ASSUME NEW S, NEW s \in Seq(S), NEW t \in Seq(S)
  PROVE  /\ s \o t \in Seq(S) /\ Range(s \o t) = Range(s) \cup Range(t)
         /\ IsInjective(s \o t) <=> IsInjective(s) /\ IsInjective(t) /\ Range(s) \cap Range(t) = {}
<1>1. /\ s \o t \in Seq(S) /\ Len(s \o t) = Len(s) + Len(t) /\ Len(s) \in Nat /\ Len(t) \in Nat
      /\ \A i \in 1 .. Len(s) + Len(t) : (s \o t)[i] = IF i <= Len(s) THEN s[i] ELSE t[i - Len(s)]
  BY ConcatProperties
<1>2. /\ DOMAIN s = 1 .. Len(s) /\ DOMAIN t = 1 .. Len(t)
      /\ DOMAIN (s \o t) = 1 .. Len(s) + Len(t)
  BY <1>1
<1>3. \A i \in 1 .. Len(s) : i \in 1 .. Len(s) + Len(t) /\ (s \o t)[i] = s[i]
  BY <1>1
<1>4. ASSUME NEW j \in 1 .. Len(t)
      PROVE  j + Len(s) \in 1 .. Len(s) + Len(t) /\ (s \o t)[j + Len(s)] = t[j]
  <2>1. j + Len(s) \in 1 .. Len(s) + Len(t) /\ ~(j + Len(s) <= Len(s)) /\ j + Len(s) - Len(s) = j
    BY <1>1
  <2> QED BY <1>1, <2>1
<1>5. ASSUME NEW i \in 1 .. Len(s) + Len(t), i \notin 1 .. Len(s)
      PROVE  i - Len(s) \in 1 .. Len(t) /\ (s \o t)[i] = t[i - Len(s)]
  <2>1. i - Len(s) \in 1 .. Len(t) /\ ~(i <= Len(s))
    BY <1>1, <1>5
  <2> QED BY <1>1, <2>1
<1> DEFINE u == s \o t
<1> HIDE DEF u
<1>6. Range(u) = Range(s) \cup Range(t)
  <2>1. ASSUME NEW x \in Range(u) PROVE x \in Range(s) \cup Range(t)
    <3>1. PICK i \in 1 .. Len(s) + Len(t) : x = u[i]
      BY <1>2, <2>1 DEF Range, u
    <3>2. CASE i \in 1 .. Len(s)
      BY <1>2, <1>3, <3>1, <3>2 DEF Range, u
    <3>3. CASE i \notin 1 .. Len(s)
      BY <1>2, <1>5, <3>1, <3>3 DEF Range, u
    <3> QED BY <3>2, <3>3
  <2>2. ASSUME NEW x \in Range(s) PROVE x \in Range(u)
    BY <1>2, <1>3, <2>2 DEF Range, u
  <2>3. ASSUME NEW x \in Range(t) PROVE x \in Range(u)
    <3>1. PICK j \in 1 .. Len(t) : x = t[j]
      BY <1>2, <2>3 DEF Range
    <3> QED BY <1>2, <1>4, <3>1 DEF Range, u
  <2> QED BY <2>1, <2>2, <2>3
<1>7. ASSUME IsInjective(u) PROVE IsInjective(s) /\ IsInjective(t) /\ Range(s) \cap Range(t) = {}
  <2>1. \A i, j \in 1 .. Len(s) + Len(t) : u[i] = u[j] => i = j
    BY <1>2, <1>7 DEF IsInjective, u
  <2>2. ASSUME NEW i \in 1 .. Len(s), NEW j \in 1 .. Len(s), s[i] = s[j] PROVE i = j
    BY <1>3, <2>1, <2>2 DEF u
  <2>3. ASSUME NEW i \in 1 .. Len(t), NEW j \in 1 .. Len(t), t[i] = t[j] PROVE i = j
    <3>1. i + Len(s) = j + Len(s)
      BY <1>4, <2>1, <2>3 DEF u
    <3> QED BY <1>1, <3>1
  <2>4. ASSUME NEW i \in 1 .. Len(s), NEW j \in 1 .. Len(t), s[i] = t[j] PROVE FALSE
    <3>1. i = j + Len(s)
      BY <1>3, <1>4, <2>1, <2>4 DEF u
    <3> QED BY <1>1, <3>1
  <2>5. IsInjective(s) /\ IsInjective(t)
    BY <1>2, <2>2, <2>3 DEF IsInjective
  <2>6. Range(s) \cap Range(t) = {}
    BY <1>2, <2>4 DEF Range
  <2> QED BY <2>5, <2>6
<1>8. ASSUME IsInjective(s), IsInjective(t), Range(s) \cap Range(t) = {} PROVE IsInjective(u)
  <2>1. SUFFICES ASSUME NEW i \in 1 .. Len(s) + Len(t), NEW j \in 1 .. Len(s) + Len(t), u[i] = u[j] PROVE i = j
    BY <1>2 DEF IsInjective, u
  <2>2. \A m, n \in 1 .. Len(s) : s[m] = s[n] => m = n
    BY <1>2, <1>8 DEF IsInjective
  <2>3. \A m, n \in 1 .. Len(t) : t[m] = t[n] => m = n
    BY <1>2, <1>8 DEF IsInjective
  <2>4. \A m \in 1 .. Len(s), n \in 1 .. Len(t) : s[m] # t[n]
    BY <1>2, <1>8 DEF Range
  <2>5. CASE i \in 1 .. Len(s) /\ j \in 1 .. Len(s)
    BY <1>3, <2>1, <2>2, <2>5 DEF u
  <2>6. CASE i \notin 1 .. Len(s) /\ j \notin 1 .. Len(s)
    <3>1. i - Len(s) = j - Len(s)
      BY <1>5, <2>1, <2>3, <2>6 DEF u
    <3> QED BY <1>1, <3>1
  <2>7. CASE i \in 1 .. Len(s) /\ j \notin 1 .. Len(s)
    BY <1>3, <1>5, <2>1, <2>4, <2>7 DEF u
  <2>8. CASE i \notin 1 .. Len(s) /\ j \in 1 .. Len(s)
    BY <1>3, <1>5, <2>1, <2>4, <2>8 DEF u
  <2> QED BY <2>5, <2>6, <2>7, <2>8
<1>9. s \o t \in Seq(S)
  BY <1>1
<1> QED BY <1>6, <1>7, <1>8, <1>9 DEF u

(* Many sequences that are joined.                                         *)
Separate(ss, n) ==
  /\ \A i \in 1 .. n : IsInjective(ss[i])
  /\ \A i, j \in 1 .. n : i # j => Range(ss[i]) \cap Range(ss[j]) = {}

LEMMA Flat ==
  ASSUME NEW S, NEW ss \in Seq(Seq(S))
  PROVE  /\ FlattenSeq(ss) \in Seq(S) /\ Range(FlattenSeq(ss)) = UNION {Range(ss[i]) : i \in 1 .. Len(ss)}
         /\ IsInjective(FlattenSeq(ss)) <=> Separate(ss, Len(ss))
<1>0. Len(ss) \in Nat /\ \A i \in 1 .. Len(ss) : ss[i] \in Seq(S)
  OBVIOUS
<1>1. CASE Len(ss) = 0
  <2>1. FlattenSeq(ss) = <<>>
    BY <1>1 DEF FlattenSeq
  <2>2. Range(<<>>) = {} /\ IsInjective(<<>>) /\ <<>> \in Seq(S)
    BY DEF Range, IsInjective
  <2>3. 1 .. Len(ss) = {}
    BY <1>1
  <2> QED BY <2>1, <2>2, <2>3 DEF Separate
<1>2. CASE Len(ss) # 0
  <2>1. PICK f : /\ FlattenSeq(ss) = f[Len(ss)] /\ f[1] = ss[1]
                 /\ \A i \in 1 .. Len(ss) : i # 1 => f[i] = f[i-1] \o ss[i]
    BY <1>2, FlatSteps
  <2> DEFINE Upto(n) == UNION {Range(ss[i]) : i \in 1 .. n}
             Good(n) == /\ f[n] \in Seq(S) /\ Range(f[n]) = Upto(n)
                        /\ IsInjective(f[n]) <=> Separate(ss, n)
             Bad == {n \in 1 .. Len(ss) : ~Good(n)}
  <2> HIDE DEF Good
  <2>2. SUFFICES Bad = {}
    <3>1. Len(ss) \in 1 .. Len(ss)
      BY <1>0, <1>2
    <3> QED BY <2>1, <2>2, <3>1 DEF Good
  <2>3. SUFFICES ASSUME Bad # {} PROVE FALSE
    OBVIOUS
  <2>4. Bad \in SUBSET Nat
    OBVIOUS
  <2>5. PICK k \in Bad : \A i \in Bad : k <= i
    BY <2>3, <2>4, Least
  <2>6. k \in 1 .. Len(ss) /\ ~Good(k)
    BY <2>5
  <2>7. k # 1
    <3>1. 1 .. 1 = {1}
      OBVIOUS
    <3>2. Upto(1) = Range(ss[1])
      BY <3>1
    <3>3. 1 \in 1 .. Len(ss)
      BY <1>0, <1>2
    <3>4. Separate(ss, 1) <=> IsInjective(ss[1])
      BY <3>1, Zenon DEF Separate
    <3>5. Good(1)
      BY <1>0, <2>1, <3>2, <3>3, <3>4 DEF Good
    <3> QED BY <2>6, <3>5
  <2>8. k - 1 \in 1 .. Len(ss) /\ k - 1 \in Nat /\ Good(k - 1)
    <3>1. k - 1 \in 1 .. Len(ss) /\ ~(k <= k - 1) /\ k - 1 \in Nat
      BY <1>0, <2>6, <2>7
    <3>2. k - 1 \notin Bad
      BY <2>5, <3>1
    <3> QED BY <3>1, <3>2
  <2> DEFINE u == f[k - 1]
             t == ss[k]
  <2>9. f[k] = u \o t
    BY <2>1, <2>6, <2>7
  <2>10. 1 .. k = 1 .. k - 1 \cup {k} /\ k \notin 1 .. k - 1
    BY <2>6
  <2>11. Upto(k) = Upto(k - 1) \cup Range(t)
    BY <2>10
  <2>12. u \in Seq(S) /\ Range(u) = Upto(k - 1) /\ (IsInjective(u) <=> Separate(ss, k - 1)) /\ t \in Seq(S)
    BY <1>0, <2>6, <2>8 DEF Good
  <2> HIDE DEF u, t
  <2>13. /\ f[k] \in Seq(S) /\ Range(f[k]) = Range(u) \cup Range(t)
         /\ IsInjective(f[k]) <=> IsInjective(u) /\ IsInjective(t) /\ Range(u) \cap Range(t) = {}
    <3>1. u \in Seq(S) /\ t \in Seq(S)
      BY <2>12
    <3>2. /\ u \o t \in Seq(S) /\ Range(u \o t) = Range(u) \cup Range(t)
          /\ IsInjective(u \o t) <=> IsInjective(u) /\ IsInjective(t) /\ Range(u) \cap Range(t) = {}
      BY <3>1, Joined
    <3> QED BY <2>9, <3>2, Zenon
  <2>14. Upto(k - 1) \cap Range(t) = {} <=> \A i \in 1 .. k - 1 : Range(ss[i]) \cap Range(t) = {}
    OBVIOUS
  <2>15. ASSUME Separate(ss, k - 1), IsInjective(t), Upto(k - 1) \cap Range(t) = {} PROVE Separate(ss, k)
    <3>1. \A i \in 1 .. k - 1 : Range(ss[i]) \cap Range(ss[k]) = {}
      BY <2>14, <2>15 DEF t
    <3> QED BY <2>10, <2>15, <3>1 DEF Separate, t
  <2>16. ASSUME Separate(ss, k) PROVE Separate(ss, k - 1) /\ IsInjective(t) /\ Upto(k - 1) \cap Range(t) = {}
    <3>1. \A i \in 1 .. k - 1 : i \in 1 .. k /\ i # k
      BY <2>10
    <3>2. Separate(ss, k - 1) /\ IsInjective(t)
      BY <2>10, <2>16, <3>1 DEF Separate, t
    <3>3. \A i \in 1 .. k - 1 : Range(ss[i]) \cap Range(t) = {}
      BY <2>10, <2>16, <3>1 DEF Separate, t
    <3> QED BY <2>14, <3>2, <3>3
  <2>17. Good(k)
    <3>1. f[k] \in Seq(S) /\ Range(f[k]) = Upto(k)
      BY <2>11, <2>12, <2>13, Zenon
    <3>2. IsInjective(f[k]) <=> Separate(ss, k)
      BY <2>12, <2>13, <2>15, <2>16, Zenon
    <3> QED BY <3>1, <3>2 DEF Good
  <2> QED BY <2>6, <2>17
<1> QED BY <1>1, <1>2

(* The first of many sequences.                                            *)
LEMMA FlatFirst ==
  ASSUME NEW S, NEW ss \in Seq(Seq(S)), NEW m \in Int, m <= Len(ss), Separate(ss, Len(ss))
  PROVE  /\ FlattenSeq(SubSeq(ss, 1, m)) \in Seq(S) /\ IsInjective(FlattenSeq(SubSeq(ss, 1, m)))
         /\ Range(FlattenSeq(SubSeq(ss, 1, m))) = UNION {Range(ss[i]) : i \in 1 .. m}
<1> DEFINE tt == SubSeq(ss, 1, m)
<1>1. Len(ss) \in Nat /\ 1 .. m \subseteq 1 .. Len(ss)
  OBVIOUS
<1>2. tt \in Seq(Seq(S)) /\ 1 .. Len(tt) = 1 .. m /\ \A i \in 1 .. m : tt[i] = ss[i]
  <2>1. CASE m <= 0
    <3>1. tt = <<>> /\ 1 .. m = {}
      BY <2>1, SMT
    <3>2. <<>> \in Seq(Seq(S)) /\ Len(<<>>) = 0
      BY SMT
    <3>3. 1 .. 0 = {}
      OBVIOUS
    <3> HIDE DEF tt
    <3>4. tt \in Seq(Seq(S)) /\ Len(tt) = 0
      BY <3>1, <3>2, Zenon
    <3> QED BY <3>1, <3>3, <3>4
  <2>2. CASE m > 0
    <3>1. m \in 1 .. Len(ss) /\ 1 \in 1 .. Len(ss)
      BY <1>1, <2>2
    <3>2. tt \in Seq(Seq(S)) /\ Len(tt) = m /\ \A i \in 1 .. m : tt[i] = ss[i]
      BY <1>1, <3>1, SMT
    <3> QED BY <3>2
  <2> QED BY <2>1, <2>2
<1> HIDE DEF tt
<1>3. Separate(tt, Len(tt))
  BY <1>1, <1>2 DEF Separate
<1>4. /\ FlattenSeq(tt) \in Seq(S) /\ IsInjective(FlattenSeq(tt))
      /\ Range(FlattenSeq(tt)) = UNION {Range(tt[i]) : i \in 1 .. Len(tt)}
  BY <1>2, <1>3, Flat
<1>5. {Range(tt[i]) : i \in 1 .. Len(tt)} = {Range(ss[i]) : i \in 1 .. m}
  BY <1>2
<1> QED BY <1>4, <1>5 DEF tt

(* A sequence that is turned round.                                        *)
LEMMA Reversed ==
  ASSUME NEW S, NEW s \in Seq(S)
  PROVE  /\ Reverse(s) \in Seq(S) /\ Range(Reverse(s)) = Range(s)
         /\ IsInjective(s) => IsInjective(Reverse(s))
<1> DEFINE r == Reverse(s)
<1>1. Len(s) \in Nat /\ DOMAIN s = 1 .. Len(s) /\ \A i \in 1 .. Len(s) : s[i] \in S
  OBVIOUS
<1>2. \A i \in 1 .. Len(s) : Len(s) - i + 1 \in 1 .. Len(s) /\ Len(s) - (Len(s) - i + 1) + 1 = i
  BY <1>1
<1>3. r = [i \in 1 .. Len(s) |-> s[Len(s) - i + 1]]
  BY DEF Reverse
<1>4. r \in Seq(S) /\ DOMAIN r = 1 .. Len(s) /\ \A i \in 1 .. Len(s) : r[i] = s[Len(s) - i + 1]
  <2>1. r \in [1 .. Len(s) -> S]
    BY <1>1, <1>2, <1>3
  <2>2. r \in Seq(S)
    BY <1>1, <2>1
  <2> QED BY <1>3, <2>2
<1> HIDE DEF r
<1>5. Range(r) = Range(s)
  <2>1. ASSUME NEW x \in Range(r) PROVE x \in Range(s)
    BY <1>1, <1>2, <1>4, <2>1 DEF Range
  <2>2. ASSUME NEW x \in Range(s) PROVE x \in Range(r)
    <3>1. PICK i \in 1 .. Len(s) : x = s[i]
      BY <1>1, <2>2 DEF Range
    <3>2. Len(s) - i + 1 \in 1 .. Len(s) /\ r[Len(s) - i + 1] = x
      BY <1>2, <1>4, <3>1
    <3> QED BY <1>4, <3>2 DEF Range
  <2> QED BY <2>1, <2>2
<1>6. ASSUME IsInjective(s) PROVE IsInjective(r)
  <2>1. SUFFICES ASSUME NEW i \in 1 .. Len(s), NEW j \in 1 .. Len(s), r[i] = r[j] PROVE i = j
    BY <1>4 DEF IsInjective
  <2>2. Len(s) - i + 1 = Len(s) - j + 1
    BY <1>1, <1>2, <1>4, <1>6, <2>1 DEF IsInjective
  <2> QED BY <1>1, <2>2
<1> QED BY <1>4, <1>5, <1>6 DEF r

(* A sequence with one element.                                            *)
LEMMA Single ==
  ASSUME NEW S, NEW a \in S
  PROVE  <<a>> \in Seq(S) /\ Range(<<a>>) = {a} /\ IsInjective(<<a>>)
BY DEF Range, IsInjective

LEMMA OfItsRange ==
  ASSUME NEW S, NEW s \in Seq(S)
  PROVE  s \in Seq(Range(s))
<1>1. Len(s) \in Nat /\ DOMAIN s = 1 .. Len(s) /\ s = [i \in 1 .. Len(s) |-> s[i]]
  OBVIOUS
<1>2. \A i \in 1 .. Len(s) : s[i] \in Range(s)
  BY <1>1 DEF Range
<1>3. s \in [1 .. Len(s) -> Range(s)]
  BY <1>1, <1>2
<1> QED BY <1>1, <1>3

----------------------------------------------------------------------------
(* What a configuration makes.                                             *)

(* Everything that instances of a pipeline are made of, and those.         *)
Kinds(p)   == {Config[p].keykeepers, Config[p].lookups, Config[p].inputs, Config[p].processors, Config[p].outputs}
Plugins(p) == UNION {Range(s) : s \in Kinds(p)}
Parts(x)   == {x, x.serializer, x.serializer.codec, x.parser, x.parser.codec} \cup Range(Unwrapped(x))
Made(p)    == {Instance(p, x, l) : x \in UNION {Parts(y) : y \in Plugins(p)}, l \in Nat}

LEMMA MadeIs ==
  ASSUME NEW p, NEW x \in Plugins(p), NEW y \in Parts(x), NEW l \in Nat
  PROVE  Instance(p, y, l) \in Made(p)
BY DEF Made

LEMMA MadeOwner ==
  ASSUME NEW p, NEW i \in Made(p)
  PROVE  i.pipe = p
BY DEF Made, Instance

LEMMA SerializerIs ==
  ASSUME NEW p, NEW x \in Plugins(p), NEW l \in Nat
  PROVE  Serializer(p, x, l) \in Seq(Made(p))
<1> DEFINE a == Instance(p, x.serializer, l)
           b == Instance(p, x.serializer.codec, l)
<1>1. a \in Made(p) /\ b \in Made(p)
  BY MadeIs DEF Parts
<1> HIDE DEF a, b
<1>2. <<>> \in Seq(Made(p)) /\ <<a>> \in Seq(Made(p)) /\ <<a, b>> \in Seq(Made(p))
  BY <1>1
<1>3. Serializer(p, x, l) \in {<<>>, <<a>>, <<a, b>>}
  BY Zenon DEF Serializer, a, b
<1> QED BY <1>2, <1>3

LEMMA ParserIs ==
  ASSUME NEW p, NEW x \in Plugins(p), NEW l \in Nat
  PROVE  Parser(p, x, l) \in Seq(Made(p))
<1> DEFINE a == Instance(p, x.parser, l)
           b == Instance(p, x.parser.codec, l)
<1>1. a \in Made(p) /\ b \in Made(p)
  BY MadeIs DEF Parts
<1> HIDE DEF a, b
<1>2. <<>> \in Seq(Made(p)) /\ <<a>> \in Seq(Made(p)) /\ <<a, b>> \in Seq(Made(p))
  BY <1>1
<1>3. Parser(p, x, l) \in {<<>>, <<a>>, <<a, b>>}
  BY Zenon DEF Parser, a, b
<1> QED BY <1>2, <1>3

LEMMA CallablesAre ==
  ASSUME NEW p, NEW x \in Plugins(p), NEW l \in Nat
  PROVE  Callables(p, x, l) \in Seq(Made(p))
<1>1. Serializer(p, x, l) \in Seq(Made(p)) /\ Parser(p, x, l) \in Seq(Made(p))
  BY SerializerIs, ParserIs
<1> QED BY <1>1, Joined DEF Callables

LEMMA UnwrappedIs ==
  ASSUME NEW p \in Pipes, NEW s \in {Config[p].inputs, Config[p].processors, Config[p].outputs}, NEW x \in Range(s)
  PROVE  Unwrapped(x) \in Seq(Range(Unwrapped(x)))
<1> DEFINE fs == x.filters
           Of(f) == IF f.type = "not" THEN f.filters ELSE <<f>>
           S == UNION {Range(Of(f)) : f \in Range(fs)}
           ss == [k \in DOMAIN fs |-> Of(fs[k])]
<1>1. fs \in Seq(Range(fs)) /\ \A f \in Range(fs) : f.type = "not" => f.filters \in Seq(Range(f.filters))
  BY ConfigAssumption
<1>2. ASSUME NEW f \in Range(fs) PROVE Of(f) \in Seq(S)
  <2>1. Of(f) \in Seq(Range(Of(f)))
    <3>1. CASE f.type = "not"
      BY <1>1, <3>1
    <3>2. CASE f.type # "not"
      BY <3>2, Single
    <3> QED BY <3>1, <3>2
  <2> HIDE DEF Of
  <2>2. Range(Of(f)) \subseteq S
    OBVIOUS
  <2> QED BY <2>1, <2>2
<1> HIDE DEF Of, S, fs
<1>3. Len(fs) \in Nat /\ DOMAIN fs = 1 .. Len(fs) /\ \A k \in DOMAIN fs : fs[k] \in Range(fs)
  BY <1>1 DEF Range
<1>4. ss \in [1 .. Len(fs) -> Seq(S)]
  BY <1>2, <1>3
<1>5. ss \in Seq(Seq(S))
  BY <1>3, <1>4
<1>6. Unwrapped(x) = FlattenSeq(ss)
  BY DEF Unwrapped, Of, fs
<1> HIDE DEF ss
<1>7. Unwrapped(x) \in Seq(S)
  BY <1>5, <1>6, Flat
<1> QED BY <1>7, OfItsRange

LEMMA FiltersAre ==
  ASSUME NEW p \in Pipes, NEW s \in {Config[p].inputs, Config[p].processors, Config[p].outputs}, NEW x \in Range(s),
         NEW l \in Nat
  PROVE  Filters(p, x, l) \in Seq(Made(p))
<1> DEFINE u == Unwrapped(x)
<1>1. u \in Seq(Range(u))
  BY UnwrappedIs
<1>2. x \in Plugins(p) /\ Range(u) \subseteq Parts(x)
  BY DEF Plugins, Kinds, Parts
<1> HIDE DEF u
<1>3. Len(u) \in Nat /\ DOMAIN u = 1 .. Len(u) /\ \A k \in DOMAIN u : u[k] \in Range(u)
  BY <1>1 DEF Range
<1>4. \A k \in DOMAIN u : Instance(p, u[k], l) \in Made(p)
  BY <1>2, <1>3, MadeIs
<1>5. Filters(p, x, l) = [k \in DOMAIN u |-> Instance(p, u[k], l)]
  BY DEF Filters, u
<1>6. Filters(p, x, l) \in [1 .. Len(u) -> Made(p)]
  BY <1>3, <1>4, <1>5
<1> QED BY <1>3, <1>6

----------------------------------------------------------------------------
(* What is closed of a plugin is what was made for it.                     *)

(* t goes through s, in some order.                                        *)
Through(s, t) == Range(t) = Range(s) /\ (IsInjective(s) => IsInjective(t))

LEMMA ClosedIs ==
  ASSUME NEW p \in Pipes, NEW x \in Plugins(p), NEW l \in Nat
  PROVE  LET s == Callables(p, x, l) \o <<Instance(p, x, l)>> IN
         s \in Seq(Made(p)) /\ Closed(p, x, l) \in Seq(Made(p)) /\ Through(s, Closed(p, x, l))
<1> DEFINE c == Callables(p, x, l)
           i == <<Instance(p, x, l)>>
           r == Reverse(c)
<1>1. c \in Seq(Made(p))
  BY CallablesAre
<1>2. i \in Seq(Made(p))
  <2>1. Instance(p, x, l) \in Made(p)
    BY MadeIs DEF Parts
  <2> QED BY <2>1, Single
<1>3. Closed(p, x, l) = i \o r
  BY DEF Closed
<1> HIDE DEF i, c
<1>4. r \in Seq(Made(p)) /\ Range(r) = Range(c) /\ (IsInjective(c) => IsInjective(r))
  BY <1>1, Reversed
<1> HIDE DEF r
<1>5. /\ c \o i \in Seq(Made(p)) /\ Range(c \o i) = Range(c) \cup Range(i)
      /\ IsInjective(c \o i) <=> IsInjective(c) /\ IsInjective(i) /\ Range(c) \cap Range(i) = {}
  BY <1>1, <1>2, Joined
<1>6. /\ i \o r \in Seq(Made(p)) /\ Range(i \o r) = Range(i) \cup Range(r)
      /\ IsInjective(i \o r) <=> IsInjective(i) /\ IsInjective(r) /\ Range(i) \cap Range(r) = {}
  BY <1>2, <1>4, Joined
<1>7. Through(c \o i, i \o r)
  BY <1>4, <1>5, <1>6 DEF Through
<1> QED BY <1>3, <1>5, <1>6, <1>7 DEF c, i

LEMMA WholeIs ==
  ASSUME NEW p \in Pipes, NEW s \in {Config[p].inputs, Config[p].processors, Config[p].outputs}, NEW x \in Range(s),
         NEW l \in Nat
  PROVE  /\ Whole(p, x, l) \in Seq(Made(p)) /\ Range(Whole(p, x, l)) # {}
         /\ Closed(p, x, l) \o Filters(p, x, l) \in Seq(Made(p))
         /\ Filters(p, x, l) \o Closed(p, x, l) \in Seq(Made(p))
         /\ Through(Whole(p, x, l), Closed(p, x, l) \o Filters(p, x, l))
         /\ Through(Whole(p, x, l), Filters(p, x, l) \o Closed(p, x, l))
<1> DEFINE c == Callables(p, x, l) \o <<Instance(p, x, l)>>
           d == Closed(p, x, l)
           f == Filters(p, x, l)
<1>1. x \in Plugins(p)
  BY DEF Plugins, Kinds
<1>2. c \in Seq(Made(p)) /\ d \in Seq(Made(p)) /\ Through(c, d)
  BY <1>1, ClosedIs
<1>3. f \in Seq(Made(p))
  BY FiltersAre
<1>4. Instance(p, x, l) \in Range(c)
  <2> DEFINE a == Callables(p, x, l)
             i == <<Instance(p, x, l)>>
  <2>1. a \in Seq(Made(p))
    BY <1>1, CallablesAre
  <2>2. i \in Seq(Made(p)) /\ Instance(p, x, l) \in Range(i)
    <3>1. Instance(p, x, l) \in Made(p)
      BY <1>1, MadeIs DEF Parts
    <3> QED BY <3>1, Single
  <2> HIDE DEF a, i
  <2>3. Range(a \o i) = Range(a) \cup Range(i)
    BY <2>1, <2>2, Joined
  <2>4. c = a \o i
    BY DEF a, i
  <2> QED BY <2>2, <2>3, <2>4
<1>5. Whole(p, x, l) = c \o f
  BY DEF Whole
<1> HIDE DEF c, d, f
<1>6. /\ c \o f \in Seq(Made(p)) /\ Range(c \o f) = Range(c) \cup Range(f)
      /\ IsInjective(c \o f) <=> IsInjective(c) /\ IsInjective(f) /\ Range(c) \cap Range(f) = {}
  BY <1>2, <1>3, Joined
<1>7. /\ d \o f \in Seq(Made(p)) /\ Range(d \o f) = Range(d) \cup Range(f)
      /\ IsInjective(d \o f) <=> IsInjective(d) /\ IsInjective(f) /\ Range(d) \cap Range(f) = {}
  BY <1>2, <1>3, Joined
<1>8. /\ f \o d \in Seq(Made(p)) /\ Range(f \o d) = Range(f) \cup Range(d)
      /\ IsInjective(f \o d) <=> IsInjective(f) /\ IsInjective(d) /\ Range(f) \cap Range(d) = {}
  BY <1>2, <1>3, Joined
<1>9. Through(c \o f, d \o f)
  BY <1>2, <1>6, <1>7 DEF Through
<1>10. Through(c \o f, f \o d)
  BY <1>2, <1>6, <1>8 DEF Through
<1>11. Range(c \o f) # {}
  BY <1>4, <1>6
<1> QED BY <1>5, <1>6, <1>7, <1>8, <1>9, <1>10, <1>11 DEF d, f

----------------------------------------------------------------------------
(* The groups of a kind, and how they are closed.                          *)
Match(p, gs, cs) ==
  /\ gs \in Seq(Seq(Made(p))) /\ cs \in Seq(Seq(Made(p))) /\ Len(cs) = Len(gs)
  /\ \A k \in 1 .. Len(gs) : Range(gs[k]) # {} /\ Through(gs[k], cs[k])

LEMMA Matching ==
  ASSUME NEW p, NEW N \in Nat, NEW gs \in [1 .. N -> Seq(Made(p))], NEW cs \in [1 .. N -> Seq(Made(p))],
         \A k \in 1 .. N : Range(gs[k]) # {} /\ Through(gs[k], cs[k])
  PROVE  Match(p, gs, cs)
<1>1. gs \in Seq(Seq(Made(p))) /\ cs \in Seq(Seq(Made(p))) /\ Len(gs) = N /\ Len(cs) = N
  OBVIOUS
<1> QED BY <1>1 DEF Match

LEMMA ListIs ==
  ASSUME NEW p \in Pipes, NEW s \in Kinds(p)
  PROVE  /\ Len(s) \in Nat /\ DOMAIN s = 1 .. Len(s)
         /\ \A k \in 1 .. Len(s) : s[k] \in Range(s) /\ s[k] \in Plugins(p)
<1>1. s \in Seq(Range(s))
  BY ConfigAssumption DEF Kinds
<1>2. Len(s) \in Nat /\ DOMAIN s = 1 .. Len(s) /\ \A k \in 1 .. Len(s) : s[k] \in Range(s)
  BY <1>1
<1> QED BY <1>2 DEF Plugins

LEMMA ProcsAre ==
  ASSUME NEW p \in Pipes
  PROVE  Len(Procs(p)) \in Nat
BY ListIs DEF Procs, Kinds

LEMMA KeykeepersMatch ==
  ASSUME NEW p \in Pipes
  PROVE  Match(p, Keykeepers(p), Keykeepers(p))
<1> DEFINE s == Config[p].keykeepers
           G(k) == <<Instance(p, s[k], 0)>>
<1>1. s \in Kinds(p)
  BY DEF Kinds
<1>2. Keykeepers(p) = [k \in DOMAIN s |-> G(k)]
  BY DEF Keykeepers
<1> HIDE DEF s
<1>3. Len(s) \in Nat /\ DOMAIN s = 1 .. Len(s) /\ \A k \in 1 .. Len(s) : s[k] \in Plugins(p)
  BY <1>1, ListIs
<1>4. ASSUME NEW k \in 1 .. Len(s) PROVE G(k) \in Seq(Made(p)) /\ Range(G(k)) # {} /\ Through(G(k), G(k))
  <2>1. Instance(p, s[k], 0) \in Made(p)
    BY <1>3, MadeIs DEF Parts
  <2> QED BY <2>1, Single DEF Through
<1> HIDE DEF G
<1>5. /\ Keykeepers(p) \in [1 .. Len(s) -> Seq(Made(p))]
      /\ \A k \in 1 .. Len(s) : Range(Keykeepers(p)[k]) # {} /\ Through(Keykeepers(p)[k], Keykeepers(p)[k])
  BY <1>2, <1>3, <1>4
<1> QED BY <1>3, <1>5, Matching

LEMMA LookupsMatch ==
  ASSUME NEW p \in Pipes
  PROVE  Match(p, Lookups(p), CloseLookups(p))
<1> DEFINE s == Config[p].lookups
           G(k) == Callables(p, s[k], 0) \o <<Instance(p, s[k], 0)>>
           C(k) == Closed(p, s[k], 0)
<1>1. s \in Kinds(p)
  BY DEF Kinds
<1>2. Lookups(p) = [k \in DOMAIN s |-> G(k)] /\ CloseLookups(p) = [k \in DOMAIN s |-> C(k)]
  BY DEF Lookups, CloseLookups
<1> HIDE DEF s
<1>3. Len(s) \in Nat /\ DOMAIN s = 1 .. Len(s) /\ \A k \in 1 .. Len(s) : s[k] \in Plugins(p)
  BY <1>1, ListIs
<1>4. ASSUME NEW k \in 1 .. Len(s)
      PROVE  G(k) \in Seq(Made(p)) /\ C(k) \in Seq(Made(p)) /\ Range(G(k)) # {} /\ Through(G(k), C(k))
  <2>1. G(k) \in Seq(Made(p)) /\ C(k) \in Seq(Made(p)) /\ Through(G(k), C(k))
    BY <1>3, ClosedIs
  <2> DEFINE a == Callables(p, s[k], 0)
             i == <<Instance(p, s[k], 0)>>
  <2>2. a \in Seq(Made(p))
    BY <1>3, CallablesAre
  <2>3. i \in Seq(Made(p)) /\ Range(i) # {}
    <3>1. Instance(p, s[k], 0) \in Made(p)
      BY <1>3, MadeIs DEF Parts
    <3> QED BY <3>1, Single
  <2> HIDE DEF a, i
  <2>4. Range(a \o i) # {}
    BY <2>2, <2>3, Joined
  <2> QED BY <2>1, <2>4 DEF a, i
<1> HIDE DEF G, C
<1>5. /\ Lookups(p) \in [1 .. Len(s) -> Seq(Made(p))] /\ CloseLookups(p) \in [1 .. Len(s) -> Seq(Made(p))]
      /\ \A k \in 1 .. Len(s) : Range(Lookups(p)[k]) # {} /\ Through(Lookups(p)[k], CloseLookups(p)[k])
  BY <1>2, <1>3, <1>4
<1> QED BY <1>3, <1>5, Matching

LEMMA InputsMatch ==
  ASSUME NEW p \in Pipes
  PROVE  Match(p, Inputs(p), CloseInputs(p))
<1> DEFINE s == Config[p].inputs
           G(k) == Whole(p, s[k], 0)
           C(k) == Closed(p, s[k], 0) \o Filters(p, s[k], 0)
<1>1. s \in Kinds(p) /\ s \in {Config[p].inputs, Config[p].processors, Config[p].outputs}
  BY DEF Kinds
<1>2. Inputs(p) = [k \in DOMAIN s |-> G(k)] /\ CloseInputs(p) = [k \in DOMAIN s |-> C(k)]
  BY DEF Inputs, CloseInputs
<1> HIDE DEF s
<1>3. Len(s) \in Nat /\ DOMAIN s = 1 .. Len(s) /\ \A k \in 1 .. Len(s) : s[k] \in Range(s)
  BY <1>1, ListIs
<1>4. ASSUME NEW k \in 1 .. Len(s)
      PROVE  G(k) \in Seq(Made(p)) /\ C(k) \in Seq(Made(p)) /\ Range(G(k)) # {} /\ Through(G(k), C(k))
  BY <1>1, <1>3, WholeIs
<1> HIDE DEF G, C
<1>5. /\ Inputs(p) \in [1 .. Len(s) -> Seq(Made(p))] /\ CloseInputs(p) \in [1 .. Len(s) -> Seq(Made(p))]
      /\ \A k \in 1 .. Len(s) : Range(Inputs(p)[k]) # {} /\ Through(Inputs(p)[k], CloseInputs(p)[k])
  BY <1>2, <1>3, <1>4
<1> QED BY <1>3, <1>5, Matching

LEMMA OutputsMatch ==
  ASSUME NEW p \in Pipes
  PROVE  Match(p, Outputs(p), CloseOutputs(p))
<1> DEFINE s == Config[p].outputs
           G(k) == Whole(p, s[k], 0)
           C(k) == Filters(p, s[k], 0) \o Closed(p, s[k], 0)
<1>1. s \in Kinds(p) /\ s \in {Config[p].inputs, Config[p].processors, Config[p].outputs}
  BY DEF Kinds
<1>2. Outputs(p) = [k \in DOMAIN s |-> G(k)] /\ CloseOutputs(p) = [k \in DOMAIN s |-> C(k)]
  BY DEF Outputs, CloseOutputs
<1> HIDE DEF s
<1>3. Len(s) \in Nat /\ DOMAIN s = 1 .. Len(s) /\ \A k \in 1 .. Len(s) : s[k] \in Range(s)
  BY <1>1, ListIs
<1>4. ASSUME NEW k \in 1 .. Len(s)
      PROVE  G(k) \in Seq(Made(p)) /\ C(k) \in Seq(Made(p)) /\ Range(G(k)) # {} /\ Through(G(k), C(k))
  BY <1>1, <1>3, WholeIs
<1> HIDE DEF G, C
<1>5. /\ Outputs(p) \in [1 .. Len(s) -> Seq(Made(p))] /\ CloseOutputs(p) \in [1 .. Len(s) -> Seq(Made(p))]
      /\ \A k \in 1 .. Len(s) : Range(Outputs(p)[k]) # {} /\ Through(Outputs(p)[k], CloseOutputs(p)[k])
  BY <1>2, <1>3, <1>4
<1> QED BY <1>3, <1>5, Matching

(* The processors of a line are one group.                                 *)
LEMMA LineMatch ==
  ASSUME NEW p \in Pipes, NEW l \in Nat
  PROVE  LET s == Config[p].processors
             gs == [k \in DOMAIN s |-> Whole(p, s[k], l)]
             cs == [k \in DOMAIN s |-> Filters(p, s[k], l) \o Closed(p, s[k], l)]
         IN  /\ FlattenSeq(gs) \in Seq(Made(p)) /\ FlattenSeq(cs) \in Seq(Made(p))
             /\ Range(FlattenSeq(gs)) # {} /\ Through(FlattenSeq(gs), FlattenSeq(cs))
<1> DEFINE s == Config[p].processors
           G(k) == Whole(p, s[k], l)
           C(k) == Filters(p, s[k], l) \o Closed(p, s[k], l)
           gs == [k \in DOMAIN s |-> G(k)]
           cs == [k \in DOMAIN s |-> C(k)]
<1>1. s \in Kinds(p) /\ s \in {Config[p].inputs, Config[p].processors, Config[p].outputs}
  BY DEF Kinds
<1>2. s # <<>> /\ s \in Seq(Range(s))
  BY ConfigAssumption
<1> HIDE DEF s
<1>3. Len(s) \in Nat /\ DOMAIN s = 1 .. Len(s) /\ \A k \in 1 .. Len(s) : s[k] \in Range(s)
  BY <1>1, ListIs
<1>4. Len(s) # 0
  BY <1>2
<1>5. ASSUME NEW k \in 1 .. Len(s)
      PROVE  G(k) \in Seq(Made(p)) /\ C(k) \in Seq(Made(p)) /\ Range(G(k)) # {} /\ Through(G(k), C(k))
  BY <1>1, <1>3, WholeIs
<1> HIDE DEF G, C
<1>6. /\ gs \in [1 .. Len(s) -> Seq(Made(p))] /\ cs \in [1 .. Len(s) -> Seq(Made(p))]
      /\ \A k \in 1 .. Len(s) : Range(gs[k]) # {} /\ Through(gs[k], cs[k])
  BY <1>3, <1>5
<1> HIDE DEF gs, cs
<1>7. gs \in Seq(Seq(Made(p))) /\ cs \in Seq(Seq(Made(p))) /\ Len(gs) = Len(s) /\ Len(cs) = Len(s)
  <2> DEFINE N == Len(s)
  <2>1. N \in Nat /\ gs \in [1 .. N -> Seq(Made(p))] /\ cs \in [1 .. N -> Seq(Made(p))]
    BY <1>3, <1>6
  <2> HIDE DEF N
  <2>2. gs \in Seq(Seq(Made(p))) /\ cs \in Seq(Seq(Made(p))) /\ Len(gs) = N /\ Len(cs) = N
    BY <2>1
  <2> QED BY <2>2 DEF N
<1>8. /\ FlattenSeq(gs) \in Seq(Made(p)) /\ Range(FlattenSeq(gs)) = UNION {Range(gs[i]) : i \in 1 .. Len(s)}
      /\ IsInjective(FlattenSeq(gs)) <=> Separate(gs, Len(s))
  <2>1. /\ FlattenSeq(gs) \in Seq(Made(p)) /\ Range(FlattenSeq(gs)) = UNION {Range(gs[i]) : i \in 1 .. Len(gs)}
        /\ IsInjective(FlattenSeq(gs)) <=> Separate(gs, Len(gs))
    BY <1>7, Flat
  <2> QED BY <1>7, <2>1, Zenon
<1>9. /\ FlattenSeq(cs) \in Seq(Made(p)) /\ Range(FlattenSeq(cs)) = UNION {Range(cs[i]) : i \in 1 .. Len(s)}
      /\ IsInjective(FlattenSeq(cs)) <=> Separate(cs, Len(s))
  <2>1. /\ FlattenSeq(cs) \in Seq(Made(p)) /\ Range(FlattenSeq(cs)) = UNION {Range(cs[i]) : i \in 1 .. Len(cs)}
        /\ IsInjective(FlattenSeq(cs)) <=> Separate(cs, Len(cs))
    BY <1>7, Flat
  <2> QED BY <1>7, <2>1, Zenon
<1>10. {Range(gs[i]) : i \in 1 .. Len(s)} = {Range(cs[i]) : i \in 1 .. Len(s)}
  BY <1>6 DEF Through
<1>11. Separate(gs, Len(s)) => Separate(cs, Len(s))
  BY <1>6 DEF Through, Separate
<1>12. Range(FlattenSeq(gs)) # {}
  <2>1. 1 \in 1 .. Len(s)
    BY <1>3, <1>4
  <2>2. PICK x : x \in Range(gs[1])
    BY <1>6, <2>1
  <2>3. x \in UNION {Range(gs[i]) : i \in 1 .. Len(s)}
    BY <2>1, <2>2
  <2> QED BY <1>8, <2>3, Zenon
<1>13. Through(FlattenSeq(gs), FlattenSeq(cs))
  BY <1>8, <1>9, <1>10, <1>11, Zenon DEF Through
<1> QED BY <1>8, <1>9, <1>12, <1>13 DEF gs, cs, G, C, s

LEMMA ProcessorsMatch ==
  ASSUME NEW p \in Pipes
  PROVE  Match(p, Processors(p), CloseProcessors(p))
<1> DEFINE s == Config[p].processors
           N == Config[p].lines
           G(n) == FlattenSeq([k \in DOMAIN s |-> Whole(p, s[k], n - 1)])
           C(n) == FlattenSeq([k \in DOMAIN s |-> Filters(p, s[k], n - 1) \o Closed(p, s[k], n - 1)])
<1>1. N \in Nat
  BY ConfigAssumption
<1>2. Processors(p) = [n \in 1 .. N |-> G(n)] /\ CloseProcessors(p) = [n \in 1 .. N |-> C(n)]
  BY DEF Processors, CloseProcessors
<1>3. ASSUME NEW n \in 1 .. N
      PROVE  G(n) \in Seq(Made(p)) /\ C(n) \in Seq(Made(p)) /\ Range(G(n)) # {} /\ Through(G(n), C(n))
  <2>1. n - 1 \in Nat
    BY <1>1
  <2> QED BY <2>1, LineMatch
<1> HIDE DEF G, C, N
<1>4. /\ Processors(p) \in [1 .. N -> Seq(Made(p))] /\ CloseProcessors(p) \in [1 .. N -> Seq(Made(p))]
      /\ \A n \in 1 .. N : Range(Processors(p)[n]) # {} /\ Through(Processors(p)[n], CloseProcessors(p)[n])
  BY <1>1, <1>2, <1>3
<1> QED BY <1>1, <1>4, Matching

----------------------------------------------------------------------------
(* Groups of several kinds, one kind after the other.                      *)
All(gs) == UNION {Range(gs[i]) : i \in 1 .. Len(gs)}

(* What the first g groups hold, when b groups are before these.           *)
First(gs, b, g) == UNION {Range(gs[i]) : i \in {j \in 1 .. Len(gs) : j + b <= g}}

LEMMA FirstIsOfAll ==
  ASSUME NEW gs, NEW b, NEW g
  PROVE  First(gs, b, g) \subseteq All(gs)
BY DEF First, All

LEMMA Indexes ==
  ASSUME NEW S, NEW gs \in Seq(S), NEW hs \in Seq(S)
  PROVE  /\ gs \o hs \in Seq(S) /\ Len(gs) \in Nat /\ Len(hs) \in Nat /\ Len(gs \o hs) = Len(gs) + Len(hs)
         /\ \A i \in 1 .. Len(gs) : i \in 1 .. Len(gs \o hs) /\ (gs \o hs)[i] = gs[i]
         /\ \A j \in 1 .. Len(hs) : j + Len(gs) \in 1 .. Len(gs \o hs) /\ (gs \o hs)[j + Len(gs)] = hs[j]
         /\ \A i \in 1 .. Len(gs \o hs) : i \notin 1 .. Len(gs) =>
              i - Len(gs) \in 1 .. Len(hs) /\ (gs \o hs)[i] = hs[i - Len(gs)]
<1>1. /\ gs \o hs \in Seq(S) /\ Len(gs \o hs) = Len(gs) + Len(hs) /\ Len(gs) \in Nat /\ Len(hs) \in Nat
      /\ \A i \in 1 .. Len(gs) + Len(hs) : (gs \o hs)[i] = IF i <= Len(gs) THEN gs[i] ELSE hs[i - Len(gs)]
  BY ConcatProperties
<1>2. ASSUME NEW i \in 1 .. Len(gs) PROVE i \in 1 .. Len(gs \o hs) /\ (gs \o hs)[i] = gs[i]
  BY <1>1
<1>3. ASSUME NEW j \in 1 .. Len(hs)
      PROVE  j + Len(gs) \in 1 .. Len(gs \o hs) /\ (gs \o hs)[j + Len(gs)] = hs[j]
  <2>1. j + Len(gs) \in 1 .. Len(gs) + Len(hs) /\ ~(j + Len(gs) <= Len(gs)) /\ j + Len(gs) - Len(gs) = j
    BY <1>1
  <2> QED BY <1>1, <2>1
<1>4. ASSUME NEW i \in 1 .. Len(gs \o hs), i \notin 1 .. Len(gs)
      PROVE  i - Len(gs) \in 1 .. Len(hs) /\ (gs \o hs)[i] = hs[i - Len(gs)]
  <2>1. i \in 1 .. Len(gs) + Len(hs) /\ i - Len(gs) \in 1 .. Len(hs) /\ ~(i <= Len(gs))
    BY <1>1, <1>4
  <2> QED BY <1>1, <2>1
<1> QED BY <1>1, <1>2, <1>3, <1>4

LEMMA FirstOfJoined ==
  ASSUME NEW S, NEW gs \in Seq(S), NEW hs \in Seq(S), NEW b \in Nat, NEW g \in Nat
  PROVE  First(gs \o hs, b, g) = First(gs, b, g) \cup First(hs, b + Len(gs), g)
<1> DEFINE us == gs \o hs
<1>1. /\ Len(gs) \in Nat /\ Len(hs) \in Nat
      /\ \A i \in 1 .. Len(gs) : i \in 1 .. Len(us) /\ us[i] = gs[i]
      /\ \A j \in 1 .. Len(hs) : j + Len(gs) \in 1 .. Len(us) /\ us[j + Len(gs)] = hs[j]
      /\ \A i \in 1 .. Len(us) : i \notin 1 .. Len(gs) => i - Len(gs) \in 1 .. Len(hs) /\ us[i] = hs[i - Len(gs)]
  BY Indexes
<1> HIDE DEF us
<1>2. ASSUME NEW x \in First(us, b, g) PROVE x \in First(gs, b, g) \cup First(hs, b + Len(gs), g)
  <2>1. PICK i \in 1 .. Len(us) : i + b <= g /\ x \in Range(us[i])
    BY <1>2 DEF First
  <2>2. CASE i \in 1 .. Len(gs)
    BY <1>1, <2>1, <2>2 DEF First
  <2>3. CASE i \notin 1 .. Len(gs)
    <3>1. i - Len(gs) \in 1 .. Len(hs) /\ us[i] = hs[i - Len(gs)] /\ i - Len(gs) + (b + Len(gs)) <= g
      BY <1>1, <2>1, <2>3
    <3> QED BY <2>1, <3>1 DEF First
  <2> QED BY <2>2, <2>3
<1>3. ASSUME NEW x \in First(gs, b, g) PROVE x \in First(us, b, g)
  BY <1>1, <1>3 DEF First
<1>4. ASSUME NEW x \in First(hs, b + Len(gs), g) PROVE x \in First(us, b, g)
  <2>1. PICK j \in 1 .. Len(hs) : j + (b + Len(gs)) <= g /\ x \in Range(hs[j])
    BY <1>4 DEF First
  <2>2. j + Len(gs) \in 1 .. Len(us) /\ us[j + Len(gs)] = hs[j] /\ j + Len(gs) + b <= g
    BY <1>1, <2>1
  <2> QED BY <2>1, <2>2 DEF First
<1> QED BY <1>2, <1>3, <1>4 DEF us

LEMMA SeparateJoined ==
  ASSUME NEW S, NEW gs \in Seq(S), NEW hs \in Seq(S), Separate(gs \o hs, Len(gs \o hs))
  PROVE  Separate(gs, Len(gs)) /\ Separate(hs, Len(hs)) /\ All(gs) \cap All(hs) = {} /\ All(gs \o hs) = All(gs) \cup All(hs)
<1> DEFINE us == gs \o hs
<1>1. /\ Len(gs) \in Nat /\ Len(hs) \in Nat
      /\ \A i \in 1 .. Len(gs) : i \in 1 .. Len(us) /\ us[i] = gs[i]
      /\ \A j \in 1 .. Len(hs) : j + Len(gs) \in 1 .. Len(us) /\ us[j + Len(gs)] = hs[j]
      /\ \A i \in 1 .. Len(us) : i \notin 1 .. Len(gs) => i - Len(gs) \in 1 .. Len(hs) /\ us[i] = hs[i - Len(gs)]
  BY Indexes
<1>2. /\ \A i \in 1 .. Len(us) : IsInjective(us[i])
      /\ \A i, j \in 1 .. Len(us) : i # j => Range(us[i]) \cap Range(us[j]) = {}
  BY DEF Separate
<1> HIDE DEF us
<1>3. Separate(gs, Len(gs))
  BY <1>1, <1>2 DEF Separate
<1>4. Separate(hs, Len(hs))
  <2>1. ASSUME NEW i \in 1 .. Len(hs) PROVE IsInjective(hs[i])
    BY <1>1, <1>2
  <2>2. ASSUME NEW i \in 1 .. Len(hs), NEW j \in 1 .. Len(hs), i # j PROVE Range(hs[i]) \cap Range(hs[j]) = {}
    <3>1. i + Len(gs) # j + Len(gs)
      BY <1>1, <2>2
    <3> QED BY <1>1, <1>2, <3>1
  <2> QED BY <2>1, <2>2 DEF Separate
<1>5. All(gs) \cap All(hs) = {}
  <2>1. ASSUME NEW i \in 1 .. Len(gs), NEW j \in 1 .. Len(hs) PROVE Range(gs[i]) \cap Range(hs[j]) = {}
    <3>1. i # j + Len(gs)
      BY <1>1
    <3> QED BY <1>1, <1>2, <3>1
  <2>2. SUFFICES ASSUME NEW x \in All(gs), x \in All(hs) PROVE FALSE
    OBVIOUS
  <2>3. PICK i \in 1 .. Len(gs) : x \in Range(gs[i])
    BY DEF All
  <2>4. PICK j \in 1 .. Len(hs) : x \in Range(hs[j])
    BY <2>2 DEF All
  <2> QED BY <2>1, <2>3, <2>4
<1>6. ASSUME NEW x \in All(us) PROVE x \in All(gs) \cup All(hs)
  <2>1. PICK i \in 1 .. Len(us) : x \in Range(us[i])
    BY <1>6 DEF All
  <2>2. CASE i \in 1 .. Len(gs)
    BY <1>1, <2>1, <2>2 DEF All
  <2>3. CASE i \notin 1 .. Len(gs)
    BY <1>1, <2>1, <2>3 DEF All
  <2> QED BY <2>2, <2>3
<1>7. ASSUME NEW x \in All(gs) PROVE x \in All(us)
  BY <1>1, <1>7 DEF All
<1>8. ASSUME NEW x \in All(hs) PROVE x \in All(us)
  BY <1>1, <1>8 DEF All
<1> QED BY <1>3, <1>4, <1>5, <1>6, <1>7, <1>8 DEF us

(* What Close goes through of a kind.                                      *)
LEMMA AddedIs ==
  ASSUME NEW p, NEW gs, NEW cs, Match(p, gs, cs), Separate(gs, Len(gs)), NEW b \in Nat, NEW g \in Nat
  PROVE  /\ Added(cs, b, g) \in Seq(Made(p)) /\ IsInjective(Added(cs, b, g))
         /\ Range(Added(cs, b, g)) = First(gs, b, g)
<1>1. /\ cs \in Seq(Seq(Made(p))) /\ Len(cs) = Len(gs) /\ Len(gs) \in Nat
      /\ \A k \in 1 .. Len(gs) : Through(gs[k], cs[k])
  BY DEF Match
<1>2. Separate(cs, Len(cs))
  BY <1>1 DEF Separate, Through
<1> DEFINE m == Min({Len(cs), g - b})
<1>3. m = IF Len(cs) <= g - b THEN Len(cs) ELSE g - b
  <2> DEFINE n == IF Len(cs) <= g - b THEN Len(cs) ELSE g - b
  <2>1. n \in {Len(cs), g - b} /\ \A y \in {Len(cs), g - b} : n <= y
    BY <1>1
  <2>2. m \in {Len(cs), g - b} /\ \A y \in {Len(cs), g - b} : m <= y
    BY <2>1 DEF Min
  <2>3. m <= n /\ n <= m /\ m \in Int /\ n \in Int
    BY <1>1, <2>1, <2>2
  <2> HIDE DEF m, n
  <2>4. m = n
    BY <2>3
  <2> QED BY <2>4 DEF n
<1>4. Added(cs, b, g) = FlattenSeq(SubSeq(cs, 1, m))
  BY DEF Added
<1> HIDE DEF m
<1>5. m \in Int /\ m <= Len(cs) /\ 1 .. m = {j \in 1 .. Len(gs) : j + b <= g}
  BY <1>1, <1>3
<1>6. /\ FlattenSeq(SubSeq(cs, 1, m)) \in Seq(Made(p)) /\ IsInjective(FlattenSeq(SubSeq(cs, 1, m)))
      /\ Range(FlattenSeq(SubSeq(cs, 1, m))) = UNION {Range(cs[i]) : i \in 1 .. m}
  BY <1>1, <1>2, <1>5, FlatFirst
<1>7. {Range(cs[i]) : i \in 1 .. m} = {Range(gs[i]) : i \in {j \in 1 .. Len(gs) : j + b <= g}}
  BY <1>1, <1>5 DEF Through
<1> QED BY <1>4, <1>6, <1>7, Zenon DEF First

(* The groups of a plan.                                                   *)
LEMMA PlanIs ==
  ASSUME NEW p \in Pipes
  PROVE  /\ Plan(p) \in Seq(Seq(Made(p))) /\ \A k \in 1 .. Len(Plan(p)) : Range(Plan(p)[k]) # {}
         /\ Separate(Plan(p), Len(Plan(p)))
<1> DEFINE G == {s \in Seq(Made(p)) : Range(s) # {}}
<1>1. ASSUME NEW gs, NEW cs, Match(p, gs, cs) PROVE gs \in Seq(G)
  <2>1. Len(gs) \in Nat /\ gs = [k \in 1 .. Len(gs) |-> gs[k]] /\ \A k \in 1 .. Len(gs) : gs[k] \in G
    BY <1>1 DEF Match
  <2>2. gs \in [1 .. Len(gs) -> G]
    BY <2>1
  <2> QED BY <2>1, <2>2
<1>2. Keykeepers(p) \in Seq(G) /\ Lookups(p) \in Seq(G) /\ Inputs(p) \in Seq(G) /\ Processors(p) \in Seq(G) /\ Outputs(p) \in Seq(G)
  BY <1>1, KeykeepersMatch, LookupsMatch, InputsMatch, ProcessorsMatch, OutputsMatch
<1>3. Plan(p) \in Seq(G)
  <2> HIDE DEF G
  <2>1. Keykeepers(p) \o Lookups(p) \in Seq(G)
    BY <1>2, Joined
  <2>2. Keykeepers(p) \o Lookups(p) \o Inputs(p) \in Seq(G)
    BY <1>2, <2>1, Joined
  <2>3. Keykeepers(p) \o Lookups(p) \o Inputs(p) \o Processors(p) \in Seq(G)
    BY <1>2, <2>2, Joined
  <2>4. Keykeepers(p) \o Lookups(p) \o Inputs(p) \o Processors(p) \o Outputs(p) \in Seq(G)
    BY <1>2, <2>3, Joined
  <2> QED BY <2>4 DEF Plan
<1> DEFINE P == Plan(p)
<1>4. /\ Len(P) \in Nat /\ DOMAIN P = 1 .. Len(P) /\ P = [k \in 1 .. Len(P) |-> P[k]]
      /\ \A k \in 1 .. Len(P) : P[k] \in G
  BY <1>3
<1>5. P \in Seq(Seq(Made(p)))
  <2> HIDE DEF P
  <2>1. P \in [1 .. Len(P) -> Seq(Made(p))]
    BY <1>4
  <2> QED BY <1>4, <2>1
<1>6. \A g, h \in 1 .. Len(P) : \A m \in DOMAIN P[g], n \in DOMAIN P[h] : P[g][m] = P[h][n] => g = h /\ m = n
  BY <1>4, NameAssumption
<1> HIDE DEF P
<1>7. Separate(P, Len(P))
  <2>1. ASSUME NEW g \in 1 .. Len(P) PROVE IsInjective(P[g])
    BY <1>6 DEF IsInjective
  <2>2. ASSUME NEW g \in 1 .. Len(P), NEW h \in 1 .. Len(P), g # h PROVE Range(P[g]) \cap Range(P[h]) = {}
    BY <1>6, <2>2 DEF Range
  <2> QED BY <2>1, <2>2 DEF Separate
<1> QED BY <1>4, <1>5, <1>7 DEF P

(* Close goes once through what Build has made, wherever Build has ended.  *)
LEMMA ClosePlanIs ==
  ASSUME NEW p \in Pipes, NEW g \in Nat
  PROVE  /\ ClosePlan(p, g) \in Seq(Made(p)) /\ IsInjective(ClosePlan(p, g))
         /\ Range(ClosePlan(p, g)) = First(Plan(p), 0, g)
<1> DEFINE M == Made(p)
           T == Seq(M)
           K == Keykeepers(p)
           L == Lookups(p)
           I == Inputs(p)
           R == Processors(p)
           O == Outputs(p)
           k == Len(K)
           l == k + Len(L)
           i == l + Len(I)
           n == i + Len(R)
           a == Added(Keykeepers(p), 0, g)
           b == Added(CloseInputs(p), l, g)
           c == Added(CloseProcessors(p), i, g)
           d == Added(CloseOutputs(p), n, g)
           e == Added(CloseLookups(p), k, g)
<1>1. Match(p, K, Keykeepers(p)) /\ Match(p, L, CloseLookups(p)) /\ Match(p, I, CloseInputs(p))
      /\ Match(p, R, CloseProcessors(p)) /\ Match(p, O, CloseOutputs(p))
  BY KeykeepersMatch, LookupsMatch, InputsMatch, ProcessorsMatch, OutputsMatch
<1>2. Plan(p) = K \o L \o I \o R \o O
  BY DEF Plan
<1>3. ClosePlan(p, g) = a \o b \o c \o d \o e
  BY DEF ClosePlan
<1> HIDE DEF M, T, K, L, I, R, O
<1>4. K \in Seq(T) /\ L \in Seq(T) /\ I \in Seq(T) /\ R \in Seq(T) /\ O \in Seq(T)
  BY <1>1 DEF Match, M, T
<1>5. Len(K) \in Nat /\ Len(L) \in Nat /\ Len(I) \in Nat /\ Len(R) \in Nat /\ Len(O) \in Nat
  BY <1>4
<1> DEFINE KL == K \o L
           KLI == KL \o I
           KLIR == KLI \o R
<1>6. /\ KL \in Seq(T) /\ Len(KL) = l
      /\ KLI \in Seq(T) /\ Len(KLI) = i
      /\ KLIR \in Seq(T) /\ Len(KLIR) = n
  <2>1. KL \in Seq(T) /\ Len(KL) = l
    BY <1>4, Indexes
  <2> HIDE DEF KL, l
  <2>2. KLI \in Seq(T) /\ Len(KLI) = Len(KL) + Len(I)
    BY <1>4, <2>1, Indexes
  <2> HIDE DEF KLI
  <2>3. KLIR \in Seq(T) /\ Len(KLIR) = Len(KLI) + Len(R)
    BY <1>4, <2>2, Indexes
  <2> QED BY <2>1, <2>2, <2>3
<1>7. Plan(p) = KLIR \o O
  BY <1>2
<1>8. k \in Nat /\ l \in Nat /\ i \in Nat /\ n \in Nat
  BY <1>5
<1>9. First(Plan(p), 0, g) = First(K, 0, g) \cup First(L, k, g) \cup First(I, l, g) \cup First(R, i, g) \cup First(O, n, g)
  <2>0. KL \in Seq(T) /\ KLI \in Seq(T) /\ KLIR \in Seq(T) /\ 0 \in Nat
    BY <1>6
  <2> HIDE DEF KL, KLI, KLIR
  <2>1. First(KLIR \o O, 0, g) = First(KLIR, 0, g) \cup First(O, 0 + Len(KLIR), g)
    BY <1>4, <2>0, FirstOfJoined
  <2>2. First(KLI \o R, 0, g) = First(KLI, 0, g) \cup First(R, 0 + Len(KLI), g)
    BY <1>4, <2>0, FirstOfJoined
  <2>3. First(KL \o I, 0, g) = First(KL, 0, g) \cup First(I, 0 + Len(KL), g)
    BY <1>4, <2>0, FirstOfJoined
  <2>4. First(K \o L, 0, g) = First(K, 0, g) \cup First(L, 0 + Len(K), g)
    BY <1>4, FirstOfJoined
  <2>5. 0 + Len(KLIR) = n /\ 0 + Len(KLI) = i /\ 0 + Len(KL) = l /\ 0 + Len(K) = k
    BY <1>5, <1>6, <1>8
  <2> HIDE DEF k, l, i, n
  <2> QED BY <1>7, <2>1, <2>2, <2>3, <2>4, <2>5 DEF KL, KLI, KLIR
<1>10. /\ Separate(K, Len(K)) /\ Separate(L, Len(L)) /\ Separate(I, Len(I)) /\ Separate(R, Len(R)) /\ Separate(O, Len(O))
       /\ All(K) \cap All(L) = {}
       /\ (All(K) \cup All(L)) \cap All(I) = {}
       /\ (All(K) \cup All(L) \cup All(I)) \cap All(R) = {}
       /\ (All(K) \cup All(L) \cup All(I) \cup All(R)) \cap All(O) = {}
  <2> HIDE DEF KL, KLI, KLIR
  <2>1. Separate(KLIR \o O, Len(KLIR \o O))
    BY <1>7, PlanIs
  <2>2. Separate(KLIR, Len(KLIR)) /\ Separate(O, Len(O)) /\ All(KLIR) \cap All(O) = {}
    BY <1>4, <1>6, <2>1, SeparateJoined
  <2>3. Separate(KLI \o R, Len(KLI \o R))
    BY <2>2 DEF KLIR
  <2>4. Separate(KLI, Len(KLI)) /\ Separate(R, Len(R)) /\ All(KLI) \cap All(R) = {} /\ All(KLI \o R) = All(KLI) \cup All(R)
    BY <1>4, <1>6, <2>3, SeparateJoined
  <2>5. Separate(KL \o I, Len(KL \o I))
    BY <2>4 DEF KLI
  <2>6. Separate(KL, Len(KL)) /\ Separate(I, Len(I)) /\ All(KL) \cap All(I) = {} /\ All(KL \o I) = All(KL) \cup All(I)
    BY <1>4, <1>6, <2>5, SeparateJoined
  <2>7. Separate(K \o L, Len(K \o L))
    BY <2>6 DEF KL
  <2>8. Separate(K, Len(K)) /\ Separate(L, Len(L)) /\ All(K) \cap All(L) = {} /\ All(K \o L) = All(K) \cup All(L)
    BY <1>4, <2>7, SeparateJoined
  <2>9. All(KL) = All(K) \cup All(L) /\ All(KLI) = All(KL) \cup All(I) /\ All(KLIR) = All(KLI) \cup All(R)
    BY <2>4, <2>6, <2>8 DEF KL, KLI, KLIR
  <2> QED BY <2>2, <2>4, <2>6, <2>8, <2>9
<1> HIDE DEF KL, KLI, KLIR
<1>11. /\ a \in Seq(M) /\ IsInjective(a) /\ Range(a) = First(K, 0, g)
       /\ b \in Seq(M) /\ IsInjective(b) /\ Range(b) = First(I, l, g)
       /\ c \in Seq(M) /\ IsInjective(c) /\ Range(c) = First(R, i, g)
       /\ d \in Seq(M) /\ IsInjective(d) /\ Range(d) = First(O, n, g)
       /\ e \in Seq(M) /\ IsInjective(e) /\ Range(e) = First(L, k, g)
  <2> HIDE DEF k, l, i, n
  <2>1. a \in Seq(M) /\ IsInjective(a) /\ Range(a) = First(K, 0, g)
    <3>1. Match(p, K, Keykeepers(p)) /\ Separate(K, Len(K)) /\ 0 \in Nat /\ g \in Nat
      BY <1>1, <1>8, <1>10
    <3>2. Added(Keykeepers(p), 0, g) \in Seq(Made(p)) /\ IsInjective(Added(Keykeepers(p), 0, g))
      BY <3>1, AddedIs
    <3>3. Range(Added(Keykeepers(p), 0, g)) = First(K, 0, g)
      BY <3>1, AddedIs
    <3> QED BY <3>2, <3>3 DEF M
  <2>2. b \in Seq(M) /\ IsInjective(b) /\ Range(b) = First(I, l, g)
    <3>1. Match(p, I, CloseInputs(p)) /\ Separate(I, Len(I)) /\ l \in Nat /\ g \in Nat
      BY <1>1, <1>8, <1>10
    <3>2. Added(CloseInputs(p), l, g) \in Seq(Made(p)) /\ IsInjective(Added(CloseInputs(p), l, g))
      BY <3>1, AddedIs
    <3>3. Range(Added(CloseInputs(p), l, g)) = First(I, l, g)
      BY <3>1, AddedIs
    <3> QED BY <3>2, <3>3 DEF M
  <2>3. c \in Seq(M) /\ IsInjective(c) /\ Range(c) = First(R, i, g)
    <3>1. Match(p, R, CloseProcessors(p)) /\ Separate(R, Len(R)) /\ i \in Nat /\ g \in Nat
      BY <1>1, <1>8, <1>10
    <3>2. Added(CloseProcessors(p), i, g) \in Seq(Made(p)) /\ IsInjective(Added(CloseProcessors(p), i, g))
      BY <3>1, AddedIs
    <3>3. Range(Added(CloseProcessors(p), i, g)) = First(R, i, g)
      BY <3>1, AddedIs
    <3> QED BY <3>2, <3>3 DEF M
  <2>4. d \in Seq(M) /\ IsInjective(d) /\ Range(d) = First(O, n, g)
    <3>1. Match(p, O, CloseOutputs(p)) /\ Separate(O, Len(O)) /\ n \in Nat /\ g \in Nat
      BY <1>1, <1>8, <1>10
    <3>2. Added(CloseOutputs(p), n, g) \in Seq(Made(p)) /\ IsInjective(Added(CloseOutputs(p), n, g))
      BY <3>1, AddedIs
    <3>3. Range(Added(CloseOutputs(p), n, g)) = First(O, n, g)
      BY <3>1, AddedIs
    <3> QED BY <3>2, <3>3 DEF M
  <2>5. e \in Seq(M) /\ IsInjective(e) /\ Range(e) = First(L, k, g)
    <3>1. Match(p, L, CloseLookups(p)) /\ Separate(L, Len(L)) /\ k \in Nat /\ g \in Nat
      BY <1>1, <1>8, <1>10
    <3>2. Added(CloseLookups(p), k, g) \in Seq(Made(p)) /\ IsInjective(Added(CloseLookups(p), k, g))
      BY <3>1, AddedIs
    <3>3. Range(Added(CloseLookups(p), k, g)) = First(L, k, g)
      BY <3>1, AddedIs
    <3> QED BY <3>2, <3>3 DEF M
  <2> QED BY <2>1, <2>2, <2>3, <2>4, <2>5
<1>12. /\ First(K, 0, g) \subseteq All(K) /\ First(I, l, g) \subseteq All(I) /\ First(R, i, g) \subseteq All(R)
       /\ First(O, n, g) \subseteq All(O) /\ First(L, k, g) \subseteq All(L)
  BY FirstIsOfAll
<1> HIDE DEF a, b, c, d, e, k, l, i, n
<1> DEFINE ab == a \o b
           abc == ab \o c
           abcd == abc \o d
           abcde == abcd \o e
<1>13. ab \in Seq(M) /\ Range(ab) = Range(a) \cup Range(b) /\ IsInjective(ab)
  <2>1. Range(a) \cap Range(b) = {}
    BY <1>10, <1>11, <1>12
  <2> QED BY <1>11, <2>1, Joined
<1> HIDE DEF ab
<1>14. abc \in Seq(M) /\ Range(abc) = Range(ab) \cup Range(c) /\ IsInjective(abc)
  <2>1. Range(ab) \cap Range(c) = {}
    BY <1>10, <1>11, <1>12, <1>13
  <2> QED BY <1>11, <1>13, <2>1, Joined
<1> HIDE DEF abc
<1>15. abcd \in Seq(M) /\ Range(abcd) = Range(abc) \cup Range(d) /\ IsInjective(abcd)
  <2>1. Range(abc) \cap Range(d) = {}
    BY <1>10, <1>11, <1>12, <1>13, <1>14
  <2> QED BY <1>11, <1>14, <2>1, Joined
<1> HIDE DEF abcd
<1>16. abcde \in Seq(M) /\ Range(abcde) = Range(abcd) \cup Range(e) /\ IsInjective(abcde)
  <2>1. Range(abcd) \cap Range(e) = {}
    BY <1>10, <1>11, <1>12, <1>13, <1>14, <1>15
  <2> QED BY <1>11, <1>15, <2>1, Joined
<1> HIDE DEF abcde
<1>17. ClosePlan(p, g) = abcde
  BY <1>3 DEF ab, abc, abcd, abcde
<1>18. Range(abcde) = First(Plan(p), 0, g)
  BY <1>9, <1>11, <1>13, <1>14, <1>15, <1>16
<1> QED BY <1>16, <1>17, <1>18 DEF M

(* Every plugin is built once, and Close goes once through what was built, *)
(* wherever Build has ended (pipeline.go:145, :238).                       *)
THEOREM ClosedOnce ==
  \A p \in Pipes :
    /\ Plans[p] \in Seq(Seq(AllPlans) \ {<<>>})
    /\ \A g, h \in DOMAIN Plans[p] : \A m \in DOMAIN Plans[p][g], n \in DOMAIN Plans[p][h] :
         /\ Plans[p][g][m].pipe = p
         /\ Plans[p][g][m] = Plans[p][h][n] => g = h /\ m = n
    /\ \A g \in 0 .. Len(Plans[p]) :
         /\ ToClose[p][g] \in Seq(AllPlans) /\ IsInjective(ToClose[p][g])
         /\ Range(ToClose[p][g]) = Planned(p, g)
<1> SUFFICES ASSUME NEW p \in Pipes
             PROVE  /\ Plans[p] \in Seq(Seq(AllPlans) \ {<<>>})
                    /\ \A g, h \in DOMAIN Plans[p] : \A m \in DOMAIN Plans[p][g], n \in DOMAIN Plans[p][h] :
                         /\ Plans[p][g][m].pipe = p
                         /\ Plans[p][g][m] = Plans[p][h][n] => g = h /\ m = n
                    /\ \A g \in 0 .. Len(Plans[p]) :
                         /\ ToClose[p][g] \in Seq(AllPlans) /\ IsInjective(ToClose[p][g])
                         /\ Range(ToClose[p][g]) = Planned(p, g)
  OBVIOUS
<1> DEFINE P == Plans[p]
<1>1. P = Plan(p)
  BY DEF Plans
<1>2. /\ P \in Seq(Seq(Made(p))) /\ \A k \in 1 .. Len(P) : Range(P[k]) # {}
      /\ \A g, h \in DOMAIN P : \A m \in DOMAIN P[g], n \in DOMAIN P[h] : P[g][m] = P[h][n] => g = h /\ m = n
  BY <1>1, PlanIs, NameAssumption
<1>3. /\ Len(P) \in Nat /\ DOMAIN P = 1 .. Len(P) /\ P = [k \in 1 .. Len(P) |-> P[k]]
      /\ \A k \in 1 .. Len(P) : P[k] \in Seq(Made(p))
  BY <1>2
<1>4. Len(P) \in Nat /\ \A k \in 1 .. Len(P) : Range(P[k]) \subseteq AllPlans
  BY <1>3 DEF AllPlans, Planned
<1>5. \A g \in 0 .. Len(P) : ToClose[p][g] = ClosePlan(p, g)
  BY DEF ToClose
<1>6. \A g \in Nat : Planned(p, g) = UNION {Range(P[h]) : h \in 1 .. g}
  BY DEF Planned
<1> HIDE DEF P
<1>7. P \in Seq(Seq(AllPlans) \ {<<>>})
  <2>1. ASSUME NEW k \in 1 .. Len(P) PROVE P[k] \in Seq(AllPlans) \ {<<>>}
    <3>1. P[k] \in Seq(Range(P[k]))
      BY <1>3, OfItsRange
    <3>2. P[k] \in Seq(AllPlans)
      BY <1>4, <3>1
    <3>3. Range(<<>>) = {}
      BY DEF Range
    <3> QED BY <1>2, <3>2, <3>3
  <2>2. P \in [1 .. Len(P) -> Seq(AllPlans) \ {<<>>}]
    BY <1>3, <2>1
  <2> QED BY <1>3, <2>2
<1>8. ASSUME NEW g \in DOMAIN P, NEW m \in DOMAIN P[g] PROVE P[g][m].pipe = p
  <2>1. P[g] \in Seq(Made(p))
    BY <1>3
  <2>2. P[g][m] \in Made(p)
    BY <2>1
  <2> QED BY <2>2, MadeOwner
<1>9. ASSUME NEW g \in 0 .. Len(P)
      PROVE  /\ ToClose[p][g] \in Seq(AllPlans) /\ IsInjective(ToClose[p][g])
             /\ Range(ToClose[p][g]) = Planned(p, g)
  <2> DEFINE c == ClosePlan(p, g)
  <2>1. g \in Nat
    OBVIOUS
  <2>2. c \in Seq(Made(p)) /\ IsInjective(c) /\ Range(c) = First(P, 0, g)
    BY <1>1, <2>1, ClosePlanIs
  <2>3. ToClose[p][g] = c
    BY <1>5
  <2> HIDE DEF c
  <2>4. {j \in 1 .. Len(P) : j + 0 <= g} = 1 .. g
    BY <1>3
  <2>5. Range(c) = Planned(p, g)
    BY <1>6, <2>1, <2>2, <2>4 DEF First
  <2>6. Range(c) \subseteq AllPlans
    BY <1>3, <1>4, <1>6, <2>1, <2>5
  <2>7. c \in Seq(Range(c))
    BY <2>2, OfItsRange
  <2>8. c \in Seq(AllPlans)
    BY <2>6, <2>7
  <2> QED BY <2>2, <2>3, <2>5, <2>8
<1>10. \A g, h \in DOMAIN P : \A m \in DOMAIN P[g], n \in DOMAIN P[h] :
         P[g][m].pipe = p /\ (P[g][m] = P[h][n] => g = h /\ m = n)
  BY <1>2, <1>8
<1>11. /\ P \in Seq(Seq(AllPlans) \ {<<>>})
       /\ \A g \in 0 .. Len(P) :
            /\ ToClose[p][g] \in Seq(AllPlans) /\ IsInjective(ToClose[p][g])
            /\ Range(ToClose[p][g]) = Planned(p, g)
  BY <1>7, <1>9
<1> QED BY <1>10, <1>11, Zenon DEF P

(* Plans.                                                                  *)
LEMMA PlanFacts ==
  ASSUME NEW p \in Pipes
  PROVE  /\ Len(Plans[p]) \in Nat /\ DOMAIN Plans[p] = 1 .. Len(Plans[p])
         /\ \A g \in 1 .. Len(Plans[p]) :
              /\ Len(Plans[p][g]) \in Nat \ {0} /\ DOMAIN Plans[p][g] = 1 .. Len(Plans[p][g])
              /\ \A m \in 1 .. Len(Plans[p][g]) : Plans[p][g][m] \in AllPlans /\ Plans[p][g][m].pipe = p
<1>1. Plans[p] \in Seq(Seq(AllPlans) \ {<<>>})
  BY ClosedOnce
<1>2. Len(Plans[p]) \in Nat /\ DOMAIN Plans[p] = 1 .. Len(Plans[p])
  BY <1>1
<1>3. ASSUME NEW g \in 1 .. Len(Plans[p])
      PROVE  Plans[p][g] \in Seq(AllPlans) /\ Plans[p][g] # <<>>
  BY <1>1, <1>2
<1>4. ASSUME NEW g \in 1 .. Len(Plans[p])
      PROVE  Len(Plans[p][g]) \in Nat \ {0} /\ DOMAIN Plans[p][g] = 1 .. Len(Plans[p][g])
  BY <1>3
<1>5. ASSUME NEW g \in 1 .. Len(Plans[p]), NEW m \in 1 .. Len(Plans[p][g])
      PROVE  Plans[p][g][m] \in AllPlans /\ Plans[p][g][m].pipe = p
  <2>1. Plans[p][g][m] \in AllPlans
    BY <1>3, <1>4
  <2>2. g \in DOMAIN Plans[p] /\ m \in DOMAIN Plans[p][g]
    BY <1>2, <1>4
  <2> QED BY <2>1, <2>2, ClosedOnce
<1> QED BY <1>2, <1>4, <1>5

(* Everything that is planned belongs to its pipeline.                     *)
LEMMA PlannedOwner ==
  ASSUME NEW p \in Pipes, NEW g \in 0 .. Len(Plans[p]), NEW i \in Planned(p, g)
  PROVE  i \in AllPlans /\ i.pipe = p
<1>1. PICK h \in 1 .. g : i \in Range(Plans[p][h])
  BY DEF Planned
<1>2. h \in 1 .. Len(Plans[p])
  BY PlanFacts
<1>3. PICK m \in 1 .. Len(Plans[p][h]) : i = Plans[p][h][m]
  BY <1>1, <1>2, PlanFacts DEF Range
<1> QED BY <1>2, <1>3, PlanFacts

LEMMA Owner ==
  ASSUME NEW i \in AllPlans
  PROVE  i.pipe \in Pipes
<1>1. PICK p \in Pipes : i \in Planned(p, Len(Plans[p]))
  BY DEF AllPlans
<1> QED BY <1>1, PlannedOwner, PlanFacts

(* One group more.                                                         *)
LEMMA PlannedNext ==
  ASSUME NEW p \in Pipes, NEW g \in 1 .. Len(Plans[p])
  PROVE  Planned(p, g) = Planned(p, g - 1) \cup Range(Plans[p][g])
<1>1. g \in Nat /\ 1 .. g = 1 .. g - 1 \cup {g}
  BY PlanFacts
<1> QED BY <1>1 DEF Planned

LEMMA PlannedNone ==
  ASSUME NEW p
  PROVE  Planned(p, 0) = {}
BY DEF Planned

(* Closing the first of a sequence in which nothing occurs twice.          *)
LEMMA RangeOfTail ==
  ASSUME NEW S, NEW s \in Seq(S), s # <<>>, IsInjective(s)
  PROVE  /\ Head(s) \in Range(s) /\ Head(s) \in S /\ Tail(s) \in Seq(S)
         /\ Range(Tail(s)) = Range(s) \ {Head(s)} /\ IsInjective(Tail(s))
<1>1. Len(s) \in Nat \ {0} /\ DOMAIN s = 1 .. Len(s) /\ Head(s) = s[1] /\ Tail(s) \in Seq(S)
  BY SMT
<1>2. DOMAIN Tail(s) = 1 .. Len(s) - 1 /\ \A n \in 1 .. Len(s) - 1 : Tail(s)[n] = s[n + 1]
  BY <1>1, SMT
<1>3. Head(s) \in Range(s) /\ Head(s) \in S
  BY <1>1 DEF Range
<1>4. IsInjective(Tail(s))
  BY <1>1, <1>2 DEF IsInjective
<1>5. ASSUME NEW x \in Range(Tail(s)) PROVE x \in Range(s) \ {Head(s)}
  <2>1. PICK n \in 1 .. Len(s) - 1 : x = s[n + 1]
    BY <1>2, <1>5 DEF Range
  <2>2. n + 1 \in DOMAIN s /\ 1 \in DOMAIN s /\ n + 1 # 1
    BY <1>1
  <2> QED BY <1>1, <2>1, <2>2 DEF Range, IsInjective
<1>6. ASSUME NEW x \in Range(s) \ {Head(s)} PROVE x \in Range(Tail(s))
  <2>1. PICK n \in 1 .. Len(s) : x = s[n]
    BY <1>1, <1>6 DEF Range
  <2>2. n # 1
    BY <1>1, <1>6, <2>1
  <2>3. n - 1 \in 1 .. Len(s) - 1 /\ n - 1 + 1 = n
    BY <1>1, <2>2
  <2>4. Tail(s)[n - 1] = x
    BY <1>2, <2>1, <2>3
  <2> QED BY <1>2, <2>3, <2>4 DEF Range
<1> QED BY <1>1, <1>3, <1>4, <1>5, <1>6

----------------------------------------------------------------------------
(* What a pipeline that is built has made, and what it makes next.         *)
LEMMA NextFacts ==
  ASSUME NEW p \in Pipes, TypeOK, PlaceInv, at[p][1] <= Len(Plans[p])
  PROVE  /\ at[p][1] \in 1 .. Len(Plans[p]) /\ at[p][2] \in 1 .. Len(Group(p)) /\ Len(Group(p)) \in Nat
         /\ Current(p) \in AllPlans /\ Current(p).pipe = p
         /\ Current(p) \notin Pending(p) /\ Current(p) \notin Planned(p, at[p][1] - 1)
         /\ Pending(p) \subseteq AllPlans /\ Pending(p) \cap Planned(p, at[p][1] - 1) = {}
         /\ \A i \in Pending(p) : i.pipe = p
<1> DEFINE g == at[p][1]
           m == at[p][2]
<1>1. g \in 1 .. Len(Plans[p]) /\ m \in 1 .. Len(Plans[p][g])
  BY PlanFacts DEF TypeOK, PlaceInv, Group
<1>2. \A n \in 1 .. m - 1 : n \in 1 .. Len(Plans[p][g]) /\ n # m
  BY <1>1, PlanFacts
<1>3. Pending(p) = {Plans[p][g][n] : n \in 1 .. m - 1} /\ Current(p) = Plans[p][g][m]
  BY DEF Pending, Current, Group
<1>4. ASSUME NEW n \in 1 .. Len(Plans[p][g]), NEW h \in 1 .. Len(Plans[p]), NEW o \in 1 .. Len(Plans[p][h]),
             Plans[p][g][n] = Plans[p][h][o]
      PROVE  g = h /\ n = o
  <2>1. g \in DOMAIN Plans[p] /\ h \in DOMAIN Plans[p] /\ n \in DOMAIN Plans[p][g] /\ o \in DOMAIN Plans[p][h]
    BY <1>1, PlanFacts
  <2> QED BY <1>4, <2>1, ClosedOnce
<1>5. ASSUME NEW n \in 1 .. Len(Plans[p][g]) PROVE Plans[p][g][n] \notin Planned(p, g - 1)
  <2>1. SUFFICES ASSUME Plans[p][g][n] \in Planned(p, g - 1) PROVE FALSE
    OBVIOUS
  <2>2. PICK h \in 1 .. g - 1 : Plans[p][g][n] \in Range(Plans[p][h])
    BY <2>1 DEF Planned
  <2>3. h \in 1 .. Len(Plans[p]) /\ h # g
    BY <1>1, PlanFacts
  <2>4. PICK o \in DOMAIN Plans[p][h] : Plans[p][g][n] = Plans[p][h][o]
    BY <2>2 DEF Range
  <2>5. o \in 1 .. Len(Plans[p][h])
    BY <2>3, <2>4, PlanFacts
  <2> QED BY <1>4, <2>3, <2>4, <2>5
<1>6. Current(p) \notin Pending(p)
  <2>1. SUFFICES ASSUME NEW n \in 1 .. m - 1, Plans[p][g][m] = Plans[p][g][n] PROVE FALSE
    BY <1>3
  <2> QED BY <1>1, <1>2, <1>4, <2>1
<1>7. Current(p) \in AllPlans /\ Current(p).pipe = p /\ Current(p) \notin Planned(p, g - 1)
  <2>1. Plans[p][g][m] \in AllPlans /\ Plans[p][g][m].pipe = p
    BY <1>1, PlanFacts
  <2>2. Plans[p][g][m] \notin Planned(p, g - 1)
    BY <1>1, <1>5
  <2> QED BY <1>3, <2>1, <2>2
<1>8. ASSUME NEW i \in Pending(p)
      PROVE  i \in AllPlans /\ i.pipe = p /\ i \notin Planned(p, g - 1)
  <2>1. PICK n \in 1 .. m - 1 : i = Plans[p][g][n]
    BY <1>3
  <2> QED BY <1>1, <1>2, <1>5, <2>1, PlanFacts
<1> QED BY <1>1, <1>6, <1>7, <1>8, PlanFacts DEF Group
----------------------------------------------------------------------------
(* Keys.  An event is past when it went through a deduplicate processor or *)
(* left its line; what makes it past is a pass.                            *)
LEMMA RunsFacts ==
  ASSUME TypeOK, NEW p \in Pipes, NEW l \in Lines(p), NEW what, Runs(p, l, what)
  PROVE  /\ cur[p][l].e \in Events[p] /\ cur[p][l].e \in AllEvents
         /\ cur[p][l].k \in Nat /\ Len(Procs(p)) \in Nat /\ cur[p][l].k <= Len(Procs(p))
         /\ Types[Procs(p)[cur[p][l].k].type].runs = what
<1>1. cur[p][l] \in [e : Events[p] \cup {None}, k : Nat, try : Nat]
  BY DEF TypeOK
<1>2. cur[p][l].e \in Events[p] /\ cur[p][l].k \in Nat
  BY <1>1 DEF Runs
<1>3. Proc(p, l).type = Procs(p)[cur[p][l].k].type
  BY DEF Proc, Instance
<1>4. Len(Procs(p)) \in Nat
  BY ProcsAre
<1> QED BY <1>2, <1>3, <1>4 DEF Runs, AllEvents

LEMMA CurOthers ==
  ASSUME TypeOK, NEW p \in Pipes, NEW l \in Lines(p), NEW v, cur' = [cur EXCEPT ![p][l] = v]
  PROVE  /\ cur'[p][l] = v
         /\ \A q \in Pipes : \A m \in Lines(q) : <<q, m>> # <<p, l>> => cur'[q][m] = cur[q][m]
<1>1. DOMAIN cur = Pipes /\ DOMAIN cur[p] = Lines(p)
  BY DEF TypeOK
<1>2. cur' = [cur EXCEPT ![p] = [cur[p] EXCEPT ![l] = v]]
  OBVIOUS
<1>3. cur'[p] = [cur[p] EXCEPT ![l] = v] /\ \A q \in Pipes : q # p => cur'[q] = cur[q]
  BY <1>1, <1>2
<1> QED BY <1>1, <1>3

LEMMA PassedIs ==
  ASSUME TypeOK, NEW p \in Pipes, NEW l \in Lines(p), Passed(p, l)
  PROVE  /\ \A q \in Pipes : \A m \in Lines(q) : <<q, m>> # <<p, l>> => cur'[q][m] = cur[q][m]
         /\ \/ /\ cur[p][l].k < Len(Procs(p)) /\ out' = out
               /\ cur'[p][l] = [e |-> cur[p][l].e, k |-> cur[p][l].k + 1, try |-> 0]
            \/ /\ ~(cur[p][l].k < Len(Procs(p))) /\ out' = out \cup {cur[p][l].e}
               /\ cur'[p][l] = Idle
<1>1. CASE cur[p][l].k < Len(Procs(p))
  <2> DEFINE next == [e |-> cur[p][l].e, k |-> cur[p][l].k + 1, try |-> 0]
  <2>1. cur' = [cur EXCEPT ![p][l] = next] /\ out' = out
    BY <1>1 DEF Passed
  <2>2. /\ cur'[p][l] = next
        /\ \A q \in Pipes : \A m \in Lines(q) : <<q, m>> # <<p, l>> => cur'[q][m] = cur[q][m]
    <3> HIDE DEF next
    <3> QED BY <2>1, CurOthers
  <2> QED BY <1>1, <2>1, <2>2
<1>2. CASE ~(cur[p][l].k < Len(Procs(p)))
  <2>1. cur' = [cur EXCEPT ![p][l] = Idle] /\ out' = out \cup {cur[p][l].e}
    BY <1>2 DEF Passed
  <2>2. /\ cur'[p][l] = Idle
        /\ \A q \in Pipes : \A m \in Lines(q) : <<q, m>> # <<p, l>> => cur'[q][m] = cur[q][m]
    BY <2>1, CurOthers
  <2> QED BY <1>2, <2>1, <2>2
<1> QED BY <1>1, <1>2

(* A pass concerns its own event.                                          *)
LEMMA PassedOthers ==
  ASSUME TypeOK, NEW p \in Pipes, NEW l \in Lines(p), Passed(p, l),
         NEW e \in AllEvents, e # cur[p][l].e, Past(e)'
  PROVE  Past(e)
<1>1. e # None
  BY SharedAssumption
<1>2. CASE e \in out'
  <2>1. out' = out \/ out' = out \cup {cur[p][l].e}
    BY PassedIs
  <2> QED BY <1>2, <2>1 DEF Past
<1>3. CASE ~(e \in out')
  <2>0. PICK q \in Pipes : \E m \in Lines(q) :
               cur'[q][m].e = e /\ \E d \in Deduplicators(q) : d < cur'[q][m].k
    BY <1>3 DEF Past, Deduplicators, Procs, Lines
  <2>1. PICK m \in Lines(q) : cur'[q][m].e = e /\ \E d \in Deduplicators(q) : d < cur'[q][m].k
    BY <2>0
  <2>2. <<q, m>> # <<p, l>>
    <3>1. cur'[p][l] = [e |-> cur[p][l].e, k |-> cur[p][l].k + 1, try |-> 0] \/ cur'[p][l] = Idle
      BY PassedIs, Zenon
    <3>2. cur'[p][l].e # e
      BY <1>1, <3>1 DEF Idle
    <3> QED BY <2>1, <3>2
  <2>3. cur'[q][m] = cur[q][m]
    BY <2>2, PassedIs
  <2> QED BY <2>1, <2>3 DEF Past
<1> QED BY <1>2, <1>3

(* A pass through another plugin does not make an event past that shares   *)
(* its key, if there is a deduplicate processor in its pipeline.           *)
LEMMA PassedElsewhere ==
  ASSUME TypeOK, KeysAreChecked, NEW p \in Pipes, NEW l \in Lines(p),
         NEW what, Runs(p, l, what), what # "deduplicate", Passed(p, l),
         NEW e \in AllEvents, SharedKey(e), Past(e)'
  PROVE  Past(e)
<1>1. CASE e # cur[p][l].e
  BY <1>1, PassedOthers
<1>2. CASE e = cur[p][l].e
  <2> DEFINE k == cur[p][l].k
  <2>1. /\ e \in Events[p] /\ k \in Nat /\ Len(Procs(p)) \in Nat /\ k <= Len(Procs(p))
        /\ Types[Procs(p)[k].type].runs = what
    BY <1>2, RunsFacts
  <2>2. k \notin Deduplicators(p)
    BY <2>1 DEF Deduplicators
  <2>3. ASSUME NEW d \in Deduplicators(p), d <= k PROVE Past(e)
    <3>1. d < k
      BY <2>1, <2>2, <2>3 DEF Deduplicators
    <3> QED BY <1>2, <3>1 DEF Past
  <2>4. CASE k < Len(Procs(p))
    <3>1. cur'[p][l] = [e |-> e, k |-> k + 1, try |-> 0] /\ out' = out
      BY <1>2, <2>4, PassedIs
    <3>2. CASE e \in out'
      BY <3>1, <3>2 DEF Past
    <3>3. CASE ~(e \in out')
      <4>0. PICK q \in Pipes : \E m \in Lines(q) :
                   cur'[q][m].e = e /\ \E d \in Deduplicators(q) : d < cur'[q][m].k
        BY <3>3 DEF Past, Deduplicators, Procs, Lines
      <4>1. PICK m \in Lines(q) : cur'[q][m].e = e /\ \E d \in Deduplicators(q) : d < cur'[q][m].k
        BY <4>0
      <4>2. CASE <<q, m>> # <<p, l>>
        <5>1. cur'[q][m] = cur[q][m]
          BY <4>2, PassedIs
        <5> QED BY <4>1, <5>1 DEF Past
      <4>3. CASE <<q, m>> = <<p, l>>
        <5>1. PICK d \in Deduplicators(p) : d < k + 1
          BY <3>1, <4>1, <4>3
        <5>2. d <= k
          BY <2>1, <5>1 DEF Deduplicators
        <5> QED BY <2>3, <5>2
      <4> QED BY <4>2, <4>3
    <3> QED BY <3>2, <3>3
  <2>5. CASE ~(k < Len(Procs(p)))
    <3>1. PICK d \in Deduplicators(p) : TRUE
      BY <2>1 DEF KeysAreChecked
    <3>2. d <= k
      BY <2>1, <2>5, <3>1 DEF Deduplicators
    <3> QED BY <2>3, <3>2
  <2> QED BY <2>4, <2>5
<1> QED BY <1>1, <1>2

(* Everything but a key that is set for the first time: keys are not       *)
(* taken away, and no event that shares its key becomes an original.       *)
LEMMA OriginalsKeep ==
  ASSUME OriginalInv, keys \subseteq keys',
         \A e \in AllEvents : SharedKey(e) /\ Original(e)' => Original(e)
  PROVE  OriginalInv'
<1>1. SUFFICES ASSUME NEW e \in AllEvents, SharedKey(e), Original(e)'
               PROVE  /\ KeyOf[e] \in keys'
                      /\ \A f \in AllEvents : Original(f)' /\ KeyOf[f] = KeyOf[e] => f = e
  BY DEF OriginalInv, SharedKey
<1>2. Original(e) /\ KeyOf[e] \in keys
  BY <1>1 DEF OriginalInv
<1>3. ASSUME NEW f \in AllEvents, Original(f)', KeyOf[f] = KeyOf[e]
      PROVE  f = e
  <2>1. CASE f # e
    <3>1. SharedKey(f)
      BY <1>1, <1>3, <2>1 DEF SharedKey
    <3>2. Original(f)
      BY <1>3, <3>1
    <3> QED BY <1>1, <1>2, <1>3, <3>2 DEF OriginalInv
  <2> QED BY <2>1
<1> QED BY <1>2, <1>3

(* An event with an error, or with the label, is no original.              *)
LEMMA ErredIs ==
  ASSUME TypeOK, NEW p \in Pipes, NEW l \in Lines(p), cur[p][l].e \in AllEvents, Erred(p, l)
  PROVE  mark'[cur[p][l].e].err /\ \A e \in AllEvents : e # cur[p][l].e => mark'[e] = mark[e]
<1>1. DOMAIN mark = AllEvents /\ mark[cur[p][l].e] \in [dup : BOOLEAN, err : BOOLEAN]
  BY DEF TypeOK
<1>2. mark' = [mark EXCEPT ![cur[p][l].e] = [mark[cur[p][l].e] EXCEPT !.err = TRUE]]
  BY DEF Erred
<1>3. mark'[cur[p][l].e] = [mark[cur[p][l].e] EXCEPT !.err = TRUE]
  BY <1>1, <1>2
<1>4. mark'[cur[p][l].e].err
  BY <1>1, <1>3
<1> QED BY <1>1, <1>2, <1>4

LEMMA MarkedIs ==
  ASSUME TypeOK, NEW p \in Pipes, NEW l \in Lines(p), cur[p][l].e \in AllEvents, NEW d \in BOOLEAN, Marked(p, l, d)
  PROVE  /\ mark'[cur[p][l].e] = [dup |-> mark[cur[p][l].e].dup \/ d, err |-> mark[cur[p][l].e].err]
         /\ \A e \in AllEvents : e # cur[p][l].e => mark'[e] = mark[e]
BY DEF TypeOK, Marked

(* An event leaves its plugin with an error.                               *)
LEMMA GivenUpKeeps ==
  ASSUME TypeOK, OriginalInv, keys \subseteq keys', NEW p \in Pipes, NEW l \in Lines(p),
         cur[p][l].e \in AllEvents, Erred(p, l), Passed(p, l)
  PROVE  OriginalInv'
<1>1. ASSUME NEW e \in AllEvents, Original(e)' PROVE Original(e)
  <2>1. e # cur[p][l].e
    BY <1>1, ErredIs, Zenon DEF Original
  <2>2. Past(e)
    BY <1>1, <2>1, PassedOthers DEF Original
  <2>3. mark'[e] = mark[e]
    BY <2>1, ErredIs
  <2> QED BY <1>1, <2>2, <2>3 DEF Original
<1> QED BY <1>1, OriginalsKeep

(* A plugin that does not look for duplicates.                             *)
LEMMA ElsewhereKeeps ==
  ASSUME TypeOK, KeysAreChecked, OriginalInv, keys' = keys, mark' = mark,
         NEW p \in Pipes, NEW l \in Lines(p),
         NEW what, Runs(p, l, what), what # "deduplicate", Passed(p, l)
  PROVE  OriginalInv'
<1>1. ASSUME NEW e \in AllEvents, SharedKey(e), Original(e)' PROVE Original(e)
  BY <1>1, PassedElsewhere DEF Original
<1> QED BY <1>1, OriginalsKeep

(* A line that stays at its plugin, that begins or that is emptied.        *)
LEMMA NotPastKeeps ==
  ASSUME OriginalInv, keys \subseteq keys', mark' = mark, out' = out,
         \A q \in Pipes : \A m \in Lines(q) :
           \/ cur'[q][m].e = None
           \/ ~ \E d \in Deduplicators(q) : d < cur'[q][m].k
           \/ cur'[q][m].e = cur[q][m].e /\ cur'[q][m].k = cur[q][m].k
  PROVE  OriginalInv'
<1>1. ASSUME NEW e \in AllEvents, Past(e)' PROVE Past(e)
  <2>1. CASE e \in out'
    BY <2>1 DEF Past
  <2>2. CASE ~(e \in out')
    <3>0. PICK q \in Pipes : \E m \in Lines(q) :
                 cur'[q][m].e = e /\ \E d \in Deduplicators(q) : d < cur'[q][m].k
      BY <1>1, <2>2 DEF Past, Deduplicators, Procs, Lines
    <3>1. PICK m \in Lines(q) : cur'[q][m].e = e /\ \E d \in Deduplicators(q) : d < cur'[q][m].k
      BY <3>0
    <3>2. cur'[q][m].e # None
      BY <3>1, SharedAssumption
    <3>3. cur[q][m].e = e /\ cur[q][m].k = cur'[q][m].k
      BY <3>1, <3>2
    <3> QED BY <3>1, <3>3 DEF Past
  <2> QED BY <2>1, <2>2
<1>2. ASSUME NEW e \in AllEvents, Original(e)' PROVE Original(e)
  BY <1>1, <1>2 DEF Original
<1> QED BY <1>2, OriginalsKeep

LEMMA SameKeeps ==
  ASSUME OriginalInv, keys' = keys, mark' = mark, out' = out, cur' = cur
  PROVE  OriginalInv'
BY NotPastKeeps

(* The key is set: an event that finds it gets the label, the first one    *)
(* becomes the original.                                                   *)
LEMMA SetKeyKeeps ==
  ASSUME TypeOK, OriginalInv, NEW p \in Pipes, NEW l \in Lines(p), SetKey(p, l)
  PROVE  OriginalInv'
<1>1. PICK x \in AllEvents : x = cur[p][l].e
  BY RunsFacts DEF SetKey
<1>2. ASSUME NEW e \in AllEvents, e # x, Original(e)'
      PROVE  Original(e)
  <2>1. Past(e)
    BY <1>1, <1>2, PassedOthers DEF Original, SetKey
  <2>2. mark'[e] = mark[e]
    <3>1. CASE KeyOf[x] = None
      BY <1>1, <3>1 DEF SetKey
    <3>2. CASE KeyOf[x] # None
      <4>1. Marked(p, l, ~Unique(x))
        BY <1>1, <3>2 DEF SetKey
      <4>2. (~Unique(x)) \in BOOLEAN
        BY DEF Unique
      <4> QED BY <1>1, <1>2, <4>1, <4>2, MarkedIs
    <3> QED BY <3>1, <3>2
  <2> QED BY <1>2, <2>1, <2>2 DEF Original
<1>3. CASE KeyOf[x] = None
  <2>1. keys' = keys
    BY <1>1, <1>3 DEF SetKey
  <2>2. ASSUME NEW e \in AllEvents, SharedKey(e), Original(e)' PROVE Original(e)
    BY <1>2, <1>3, <2>2 DEF SharedKey
  <2> QED BY <2>1, <2>2, OriginalsKeep
<1>4. CASE KeyOf[x] # None
  <2>1. keys' = keys \cup {KeyOf[x]} /\ Marked(p, l, ~Unique(x))
    BY <1>1, <1>4 DEF SetKey
  <2>2. CASE KeyOf[x] \in keys
    <3>1. ~Unique(x)
      BY <2>2 DEF Unique
    <3>2. Marked(p, l, TRUE)
      BY <2>1, <3>1 DEF Marked
    <3>3. mark' = [mark EXCEPT ![x] = [dup |-> TRUE, err |-> mark[x].err]]
      BY <1>1, <3>2 DEF Marked
    <3>4. mark'[x].dup
      BY <3>3 DEF TypeOK
    <3>5. ~Original(x)'
      BY <3>4, Zenon DEF Original
    <3>6. ASSUME NEW e \in AllEvents, SharedKey(e), Original(e)' PROVE Original(e)
      BY <1>2, <3>5, <3>6
    <3> QED BY <2>1, <3>6, OriginalsKeep
  <2>3. CASE KeyOf[x] \notin keys
    <3>1. SUFFICES ASSUME NEW e \in AllEvents, SharedKey(e), Original(e)'
                   PROVE  /\ KeyOf[e] \in keys'
                          /\ \A f \in AllEvents : Original(f)' /\ KeyOf[f] = KeyOf[e] => f = e
      BY DEF OriginalInv, SharedKey
    <3>2. CASE e = x
      <4>1. ASSUME NEW f \in AllEvents, Original(f)', KeyOf[f] = KeyOf[e], f # e
            PROVE  FALSE
        <5>1. SharedKey(f)
          BY <3>1, <4>1 DEF SharedKey
        <5>2. KeyOf[f] \in keys
          BY <1>2, <3>2, <4>1, <5>1 DEF OriginalInv
        <5> QED BY <2>3, <3>2, <4>1, <5>2
      <4> QED BY <2>1, <3>2, <4>1
    <3>3. CASE e # x
      <4>1. Original(e) /\ KeyOf[e] \in keys
        BY <1>2, <3>1, <3>3 DEF OriginalInv
      <4>2. ASSUME NEW f \in AllEvents, Original(f)', KeyOf[f] = KeyOf[e]
            PROVE  f = e
        <5>1. f # x
          BY <2>3, <4>1, <4>2
        <5> QED BY <1>2, <3>1, <4>1, <4>2, <5>1 DEF OriginalInv
      <4> QED BY <2>1, <4>1, <4>2
    <3> QED BY <3>2, <3>3
  <2> QED BY <2>2, <2>3
<1> QED BY <1>3, <1>4

(* A call that failed.                                                     *)
LEMMA RetryKeeps ==
  ASSUME TypeOK, OriginalInv, NEW p \in Pipes, NEW l \in Lines(p), cur[p][l].e \in AllEvents,
         keys \subseteq keys', Retry(p, l)
  PROVE  OriginalInv'
<1>1. CASE Erred(p, l) /\ Passed(p, l)
  BY <1>1, GivenUpKeeps
<1>2. CASE /\ UNCHANGED <<mark, out>>
           /\ cur' = [cur EXCEPT ![p][l].try = IF Attempts[p] > 0 THEN @ + 1 ELSE @]
  <2>1. PICK v : cur' = [cur EXCEPT ![p][l] = [cur[p][l] EXCEPT !.try = v]]
    BY <1>2
  <2>0. PICK next : next = [cur[p][l] EXCEPT !.try = v]
    OBVIOUS
  <2>2. /\ cur'[p][l] = next
        /\ \A q \in Pipes : \A m \in Lines(q) : <<q, m>> # <<p, l>> => cur'[q][m] = cur[q][m]
    <3>1. DOMAIN cur = Pipes /\ DOMAIN cur[p] = Lines(p)
      BY DEF TypeOK
    <3>2. cur' = [cur EXCEPT ![p] = [cur[p] EXCEPT ![l] = next]]
      BY <2>0, <2>1
    <3>3. cur'[p] = [cur[p] EXCEPT ![l] = next] /\ \A q \in Pipes : q # p => cur'[q] = cur[q]
      BY <3>1, <3>2
    <3> QED BY <3>1, <3>3
  <2>3. next.e = cur[p][l].e /\ next.k = cur[p][l].k
    <3>1. cur[p][l] \in [e : Events[p] \cup {None}, k : Nat, try : Nat]
      BY DEF TypeOK
    <3> QED BY <2>0, <3>1
  <2>4. \A q \in Pipes : \A m \in Lines(q) : cur'[q][m].e = cur[q][m].e /\ cur'[q][m].k = cur[q][m].k
    BY <2>2, <2>3
  <2> QED BY <1>2, <2>4, NotPastKeeps
<1> QED BY <1>1, <1>2, Zenon DEF Retry

(* The steps of a line, of its source and of its pipeline.                 *)
LEMMA LineKeeps ==
  ASSUME TypeOK, KeysAreChecked, OriginalInv, NEW p \in Pipes, NEW l \in Lines(p), LineStep(p, l)
  PROVE  OriginalInv'
<1>1. CASE SetKey(p, l)
  BY <1>1, SetKeyKeeps
<1>2. CASE CallFails(p, l)
  <2>1. cur[p][l].e \in AllEvents /\ keys' = keys /\ Retry(p, l)
    BY <1>2, RunsFacts DEF CallFails
  <2> QED BY <2>1, RetryKeeps
<1>3. CASE AnswerLost(p, l)
  <2>1. cur[p][l].e \in AllEvents /\ keys \subseteq keys' /\ Retry(p, l)
    BY <1>3, RunsFacts DEF AnswerLost
  <2> QED BY <2>1, RetryKeeps
<1>4. CASE Call(p, l)
  <2>1. /\ cur[p][l].e \in AllEvents /\ keys' = keys /\ Passed(p, l) /\ Runs(p, l, "call")
        /\ Erred(p, l) \/ mark' = mark
    BY <1>4, RunsFacts DEF Call
  <2> QED BY <2>1, GivenUpKeeps, ElsewhereKeeps
<1>5. CASE Render(p, l)
  <2>1. /\ cur[p][l].e \in AllEvents /\ keys' = keys /\ Passed(p, l) /\ Runs(p, l, "template")
        /\ Erred(p, l) \/ mark' = mark
    BY <1>5, RunsFacts DEF Render
  <2> QED BY <2>1, GivenUpKeeps, ElsewhereKeeps
<1>6. CASE Observe(p, l)
  <2>1. keys' = keys /\ mark' = mark /\ Passed(p, l) /\ Runs(p, l, "stats")
    BY <1>6 DEF Observe
  <2> QED BY <2>1, ElsewhereKeeps
<1>7. CASE ProcEnds(p, l)
  <2>1. keys' = keys /\ mark' = mark /\ cur' = cur /\ out' = out
    BY <1>7 DEF ProcEnds
  <2> QED BY <2>1, SameKeeps
<1> QED BY <1>1, <1>2, <1>3, <1>4, <1>5, <1>6, <1>7 DEF LineStep

LEMMA TakeKeeps ==
  ASSUME TypeOK, OriginalInv, NEW p \in Pipes, NEW l \in Lines(p), NEW e \in Events[p], Take(p, l, e)
  PROVE  OriginalInv'
<1> DEFINE next == [e |-> e, k |-> 1, try |-> 0]
<1>1. cur' = [cur EXCEPT ![p][l] = next] /\ keys' = keys /\ mark' = mark /\ out' = out
  BY DEF Take
<1>2. /\ cur'[p][l] = next
      /\ \A q \in Pipes : \A m \in Lines(q) : <<q, m>> # <<p, l>> => cur'[q][m] = cur[q][m]
  <2> HIDE DEF next
  <2> QED BY <1>1, CurOthers
<1>3. ~ \E d \in Deduplicators(p) : d < cur'[p][l].k
  BY <1>2, ProcsAre DEF Deduplicators
<1>4. \A q \in Pipes : \A m \in Lines(q) :
        \/ ~ \E d \in Deduplicators(q) : d < cur'[q][m].k
        \/ cur'[q][m].e = cur[q][m].e /\ cur'[q][m].k = cur[q][m].k
  <2> HIDE DEF next
  <2> QED BY <1>2, <1>3
<1> QED BY <1>1, <1>4, NotPastKeeps

LEMMA StartKeeps ==
  ASSUME TypeOK, OriginalInv, NEW p \in Pipes, Start(p)
  PROVE  OriginalInv'
<1>1. keys' = keys /\ mark' = mark /\ out' = out /\ cur' = [cur EXCEPT ![p] = [l \in Lines(p) |-> Idle]]
  BY DEF Start
<1>2. \A q \in Pipes : \A m \in Lines(q) : cur'[q][m].e = None \/ cur'[q][m] = cur[q][m]
  BY <1>1 DEF TypeOK, Idle
<1> QED BY <1>1, <1>2, NotPastKeeps

LEMMA KeyStep ==
  ASSUME TypeOK, KeysAreChecked, OriginalInv, [Next]_vars
  PROVE  OriginalInv'
<1>1. CASE UNCHANGED running
  <2>1. keys' = keys /\ mark' = mark /\ cur' = cur /\ out' = out
    BY <1>1 DEF running
  <2> QED BY <2>1, SameKeeps
<1>2. ASSUME NEW p \in Pipes, EngineStep(p) PROVE UNCHANGED running
  BY <1>2 DEF EngineStep, BuildNext, InitRefused, PingFails, StatsRefused, GiveUp, Run, NotAcquired,
              RunEnds, CloseNext, CloseEnds
<1>3. ASSUME NEW p \in Pipes, Stop(p) PROVE OriginalInv'
  <2>1. keys' = keys /\ mark' = mark /\ cur' = cur /\ out' = out
    BY <1>3 DEF Stop
  <2> QED BY <2>1, SameKeeps
<1>4. ASSUME NEW p \in Pipes, NEW l \in Lines(p), Tick(p, l) PROVE UNCHANGED running
  BY <1>4 DEF Tick
<1>5. CASE UNCHANGED vars
  BY <1>1, <1>5 DEF vars
<1>6. ASSUME NEW p \in Pipes, Start(p) \/ Stop(p) \/ EngineStep(p) PROVE OriginalInv'
  BY <1>1, <1>2, <1>3, <1>6, StartKeeps
<1>7. ASSUME NEW p \in Pipes, NEW l \in Lines(p), LineStep(p, l) \/ Tick(p, l) PROVE OriginalInv'
  BY <1>1, <1>4, <1>7, LineKeeps
<1>8. ASSUME NEW p \in Pipes, NEW l \in Lines(p), NEW e \in Events[p], Take(p, l, e) PROVE OriginalInv'
  BY <1>8, TakeKeeps
<1> QED BY <1>5, <1>6, <1>7, <1>8 DEF Next
----------------------------------------------------------------------------
(* Types of what running lines change.                                     *)
LEMMA CurTypeKeeps ==
  ASSUME CurType, NEW p \in Pipes, NEW l \in Lines(p),
         NEW v \in [e : Events[p] \cup {None}, k : Nat, try : Nat], cur' = [cur EXCEPT ![p][l] = v]
  PROVE  CurType'
<1>1. DOMAIN cur = Pipes /\ cur[p] \in [Lines(p) -> [e : Events[p] \cup {None}, k : Nat, try : Nat]]
  BY DEF CurType
<1>2. cur' = [cur EXCEPT ![p] = [cur[p] EXCEPT ![l] = v]]
  OBVIOUS
<1>3. [cur[p] EXCEPT ![l] = v] \in [Lines(p) -> [e : Events[p] \cup {None}, k : Nat, try : Nat]]
  BY <1>1
<1>4. cur'[p] = [cur[p] EXCEPT ![l] = v] /\ DOMAIN cur' = Pipes /\ \A q \in Pipes : q # p => cur'[q] = cur[q]
  BY <1>1, <1>2
<1>5. ASSUME NEW q \in Pipes
      PROVE  cur'[q] \in [Lines(q) -> [e : Events[q] \cup {None}, k : Nat, try : Nat]]
  BY <1>3, <1>4 DEF CurType
<1> QED BY <1>4, <1>5 DEF CurType, Lines

LEMMA CurIs ==
  ASSUME CurType, NEW p \in Pipes, NEW l \in Lines(p)
  PROVE  /\ cur[p][l] \in [e : Events[p] \cup {None}, k : Nat, try : Nat]
         /\ cur[p][l].e \in Events[p] \cup {None} /\ cur[p][l].k \in Nat /\ cur[p][l].try \in Nat
<1>1. cur[p][l] \in [e : Events[p] \cup {None}, k : Nat, try : Nat]
  BY DEF CurType
<1> QED BY <1>1

LEMMA PassedType ==
  ASSUME TypeOK, NEW p \in Pipes, NEW l \in Lines(p), cur[p][l].e \in AllEvents, Passed(p, l)
  PROVE  CurType' /\ out' \subseteq AllEvents
<1>0. CurType /\ out \subseteq AllEvents
  BY TypeParts DEF RunType
<1>1. PICK x \in Events[p] \cup {None}, k \in Nat : x = cur[p][l].e /\ k = cur[p][l].k
  BY <1>0, CurIs
<1>2. CASE k < Len(Procs(p))
  <2> DEFINE v == [e |-> x, k |-> k + 1, try |-> 0]
  <2>1. cur' = [cur EXCEPT ![p][l] = v] /\ out' = out
    BY <1>1, <1>2 DEF Passed
  <2>2. v \in [e : Events[p] \cup {None}, k : Nat, try : Nat]
    OBVIOUS
  <2>3. CurType'
    <3> HIDE DEF v
    <3> QED BY <1>0, <2>1, <2>2, CurTypeKeeps
  <2> QED BY <1>0, <2>1, <2>3
<1>3. CASE ~(k < Len(Procs(p)))
  <2>1. cur' = [cur EXCEPT ![p][l] = Idle] /\ out' = out \cup {cur[p][l].e}
    BY <1>1, <1>3 DEF Passed
  <2>2. Idle \in [e : Events[p] \cup {None}, k : Nat, try : Nat]
    BY DEF Idle
  <2>3. CurType'
    BY <1>0, <2>1, <2>2, CurTypeKeeps
  <2> QED BY <1>0, <2>1, <2>3
<1> QED BY <1>2, <1>3

LEMMA ErredType ==
  ASSUME TypeOK, NEW p \in Pipes, NEW l \in Lines(p), Erred(p, l)
  PROVE  mark' \in [AllEvents -> [dup : BOOLEAN, err : BOOLEAN]]
<1>1. mark \in [AllEvents -> [dup : BOOLEAN, err : BOOLEAN]]
  BY DEF TypeOK
<1>2. PICK x : x = cur[p][l].e
  OBVIOUS
<1>3. mark' = [mark EXCEPT ![x] = [mark[x] EXCEPT !.err = TRUE]]
  BY <1>2 DEF Erred
<1>4. CASE x \in AllEvents
  <2>1. mark[x] \in [dup : BOOLEAN, err : BOOLEAN]
    BY <1>1, <1>4
  <2>2. [mark[x] EXCEPT !.err = TRUE] \in [dup : BOOLEAN, err : BOOLEAN]
    BY <2>1
  <2> QED BY <1>1, <1>3, <2>2
<1>5. CASE x \notin AllEvents
  BY <1>1, <1>3, <1>5
<1> QED BY <1>4, <1>5

LEMMA RetryType ==
  ASSUME TypeOK, NEW p \in Pipes, NEW l \in Lines(p), cur[p][l].e \in AllEvents, Retry(p, l)
  PROVE  /\ CurType' /\ out' \subseteq AllEvents
         /\ mark' \in [AllEvents -> [dup : BOOLEAN, err : BOOLEAN]]
<1>0. CurType /\ out \subseteq AllEvents /\ mark \in [AllEvents -> [dup : BOOLEAN, err : BOOLEAN]]
  BY TypeParts DEF RunType
<1>1. CASE Erred(p, l) /\ Passed(p, l)
  BY <1>1, PassedType, ErredType
<1>2. CASE /\ UNCHANGED <<mark, out>>
           /\ cur' = [cur EXCEPT ![p][l].try = IF Attempts[p] > 0 THEN @ + 1 ELSE @]
  <2>1. PICK c \in [e : Events[p] \cup {None}, k : Nat, try : Nat] : c = cur[p][l]
    BY <1>0, CurIs
  <2>2. PICK n \in Nat : n = IF Attempts[p] > 0 THEN cur[p][l].try + 1 ELSE cur[p][l].try
    BY <2>1
  <2>3. cur' = [cur EXCEPT ![p][l] = [c EXCEPT !.try = n]]
    BY <1>2, <2>1, <2>2
  <2>4. [c EXCEPT !.try = n] \in [e : Events[p] \cup {None}, k : Nat, try : Nat]
    BY <2>1
  <2>5. CurType'
    <3> DEFINE v == [c EXCEPT !.try = n]
    <3>1. cur' = [cur EXCEPT ![p][l] = v] /\ v \in [e : Events[p] \cup {None}, k : Nat, try : Nat]
      BY <2>3, <2>4
    <3> HIDE DEF v
    <3> QED BY <1>0, <3>1, CurTypeKeeps
  <2> QED BY <1>0, <1>2, <2>5
<1> QED BY <1>1, <1>2, Zenon DEF Retry

LEMMA MarkedType ==
  ASSUME TypeOK, NEW p \in Pipes, NEW l \in Lines(p), NEW d \in BOOLEAN, Marked(p, l, d)
  PROVE  mark' \in [AllEvents -> [dup : BOOLEAN, err : BOOLEAN]]
BY DEF TypeOK, Marked

(* The caches, whoever changes them.                                       *)
CacheSet == [writers : Nat, syncPoint : Nat, fresh : SUBSET AllEvents]

LEMMA CacheValues ==
  ASSUME NEW c \in CacheSet
  PROVE  NewCache(c) \in CacheSet /\ CacheFlush(c) \in CacheSet /\ CacheClear(c) \in CacheSet
<1>1. PICK w \in Nat, s \in Nat, f \in SUBSET AllEvents : c = [writers |-> w, syncPoint |-> s, fresh |-> f]
  BY DEF CacheSet
<1>2. NewCache(c) \in CacheSet
  BY <1>1 DEF CacheSet, NewCache
<1>3. CacheFlush(c) \in CacheSet
  <2>1. [c EXCEPT !.syncPoint = @ + 1] = [writers |-> w, syncPoint |-> s + 1, fresh |-> f]
    BY <1>1
  <2>2. c.writers = w
    BY <1>1
  <2>3. [writers |-> w, syncPoint |-> 0, fresh |-> {}] \in CacheSet
    BY DEF CacheSet
  <2>4. [writers |-> w, syncPoint |-> s + 1, fresh |-> f] \in CacheSet
    BY DEF CacheSet
  <2> QED BY <2>1, <2>2, <2>3, <2>4, Zenon DEF CacheFlush
<1>4. CacheClear(c) \in CacheSet
  BY <1>1 DEF CacheSet, CacheClear, NoCache
<1> QED BY <1>2, <1>3, <1>4

LEMMA ObservedValue ==
  ASSUME NEW c \in CacheSet, NEW e \in AllEvents
  PROVE  CacheObserve(c, e) \in CacheSet
<1>1. c.writers \in Nat /\ c.syncPoint \in Nat /\ c.fresh \in SUBSET AllEvents
  BY DEF CacheSet
<1> QED BY <1>1 DEF CacheSet, CacheObserve

LEMMA CachePut ==
  ASSUME CacheType, NEW k, NEW v, caches' = [caches EXCEPT ![k] = v], k \in CacheKeys => v \in CacheSet
  PROVE  caches' \in [CacheKeys -> CacheSet]
BY DEF CacheType, CacheSet

LEMMA FlushedType ==
  ASSUME CacheType, NEW k, caches' = [caches EXCEPT ![k] = CacheFlush(@)]
  PROVE  caches' \in [CacheKeys -> CacheSet]
<1>1. caches' = [caches EXCEPT ![k] = CacheFlush(caches[k])]
  OBVIOUS
<1>2. k \in CacheKeys => caches[k] \in CacheSet
  BY DEF CacheType, CacheSet
<1>3. k \in CacheKeys => CacheFlush(caches[k]) \in CacheSet
  BY <1>2, CacheValues
<1> QED BY <1>1, <1>3, CachePut

LEMMA LineTypes ==
  ASSUME TypeOK, NEW p \in Pipes, NEW l \in Lines(p), LineStep(p, l)
  PROVE  CurType' /\ RunType' /\ CacheType'
<1>0. CurType /\ RunType /\ CacheType
  BY TypeParts
<1> DEFINE x == cur[p][l].e
<1>1. CASE SetKey(p, l)
  <2>1. x \in AllEvents /\ Passed(p, l)
    BY <1>1, RunsFacts DEF SetKey
  <2>2. CurType' /\ out' \subseteq AllEvents
    BY <2>1, PassedType
  <2>3. keys' \subseteq {KeyOf[e] : e \in AllEvents}
    BY <1>0, <1>1, <2>1 DEF SetKey, RunType
  <2>4. mark' \in [AllEvents -> [dup : BOOLEAN, err : BOOLEAN]]
    <3>1. (~Unique(x)) \in BOOLEAN
      BY DEF Unique
    <3>2. Marked(p, l, ~Unique(x)) \/ mark' = mark
      BY <1>1 DEF SetKey
    <3> QED BY <1>0, <3>1, <3>2, MarkedType DEF RunType
  <2>5. UNCHANGED <<done, stopping, caches, templates>>
    BY <1>1 DEF SetKey, shared
  <2> QED BY <1>0, <2>2, <2>3, <2>4, <2>5 DEF RunType, CacheType, Lines
<1>2. CASE CallFails(p, l) \/ AnswerLost(p, l)
  <2>1. x \in AllEvents /\ Retry(p, l)
    BY <1>2, RunsFacts DEF CallFails, AnswerLost
  <2>2. /\ CurType' /\ out' \subseteq AllEvents
        /\ mark' \in [AllEvents -> [dup : BOOLEAN, err : BOOLEAN]]
    BY <2>1, RetryType
  <2>3. keys' \subseteq {KeyOf[e] : e \in AllEvents}
    BY <1>0, <1>2, <2>1 DEF CallFails, AnswerLost, RunType
  <2>4. UNCHANGED <<done, stopping, caches, templates>>
    BY <1>2 DEF CallFails, AnswerLost, shared
  <2> QED BY <1>0, <2>2, <2>3, <2>4 DEF RunType, CacheType, Lines
<1>3. CASE Call(p, l) \/ Render(p, l) \/ Observe(p, l)
  <2>1. x \in AllEvents /\ Passed(p, l) /\ UNCHANGED <<keys, done, stopping>>
    BY <1>3, RunsFacts DEF Call, Render, Observe
  <2>2. CurType' /\ out' \subseteq AllEvents
    BY <2>1, PassedType
  <2>3. mark' \in [AllEvents -> [dup : BOOLEAN, err : BOOLEAN]]
    <3>1. Erred(p, l) \/ mark' = mark
      BY <1>3 DEF Call, Render, Observe
    <3> QED BY <1>0, <3>1, ErredType DEF RunType
  <2>4. CacheType'
    <3>1. CASE Call(p, l)
      BY <1>0, <3>1 DEF Call, shared, CacheType
    <3>2. CASE Render(p, l)
      <4>1. caches' = caches /\ (templates' = templates \/ templates' = Put(templates, KeyOf[x]))
        BY <3>2 DEF Render
      <4>2. Put(templates, KeyOf[x]) \in [u : Nat, m : SUBSET {KeyOf[e] : e \in AllEvents}]
        BY <1>0, <2>1 DEF Put, CacheType
      <4> QED BY <1>0, <4>1, <4>2 DEF CacheType
    <3>3. CASE Observe(p, l)
      <4>1. PICK k : k = Key(Proc(p, l))
        OBVIOUS
      <4>2. PICK e \in AllEvents : e = x
        BY <2>1
      <4>3. caches' = [caches EXCEPT ![k] = CacheObserve(caches[k], e)] /\ templates' = templates
        BY <3>3, <4>1, <4>2 DEF Observe
      <4>4. k \in CacheKeys => CacheObserve(caches[k], e) \in CacheSet
        BY <1>0, ObservedValue DEF CacheType, CacheSet
      <4>5. caches' \in [CacheKeys -> CacheSet]
        BY <1>0, <4>3, <4>4, CachePut
      <4> QED BY <1>0, <4>3, <4>5 DEF CacheType, CacheSet
    <3> QED BY <1>3, <3>1, <3>2, <3>3
  <2> QED BY <1>0, <2>1, <2>2, <2>3, <2>4 DEF RunType, Lines
<1>4. CASE ProcEnds(p, l)
  <2>1. UNCHANGED <<keys, cur, stopping, mark, out, templates>> /\ done' = [done EXCEPT ![p][l] = @ + 1]
    BY <1>4 DEF ProcEnds
  <2>2. DOMAIN done' = Pipes /\ \A q \in Pipes : done'[q] \in [Lines(q) -> Nat]
    <3>1. done[p] \in [Lines(p) -> Nat]
      BY <1>0 DEF RunType
    <3>2. done' = [done EXCEPT ![p] = [done[p] EXCEPT ![l] = done[p][l] + 1]]
      BY <2>1
    <3>3. [done[p] EXCEPT ![l] = done[p][l] + 1] \in [Lines(p) -> Nat]
      BY <3>1
    <3> QED BY <1>0, <3>2, <3>3 DEF RunType
  <2>3. CacheType'
    <3>1. CASE UNCHANGED caches
      BY <1>0, <2>1, <3>1 DEF CacheType
    <3>2. CASE Flush(p, l, done[p][l] + 1)
      <4>1. PICK k : caches' = [caches EXCEPT ![k] = CacheFlush(@)]
        BY <3>2 DEF Flush
      <4>2. caches' \in [CacheKeys -> CacheSet]
        BY <1>0, <4>1, FlushedType
      <4> QED BY <1>0, <2>1, <4>2 DEF CacheType, CacheSet
    <3> QED BY <1>4, <3>1, <3>2 DEF ProcEnds
  <2>4. CurType'
    BY <1>0, <2>1 DEF CurType, Lines
  <2> QED BY <1>0, <2>1, <2>2, <2>3, <2>4 DEF RunType, Lines
<1> QED BY <1>1, <1>2, <1>3, <1>4 DEF LineStep
----------------------------------------------------------------------------
(* What building, giving up and closing do to the instances of a pipeline. *)
LEMMA SameAt ==
  ASSUME NEW q, at'[q] = at[q]
  PROVE  Group(q)' = Group(q) /\ Pending(q)' = Pending(q)
BY DEF Group, Pending

(* The next plugin of the group, or the next group.                        *)
LEMMA AdvanceIs ==
  ASSUME TypeOK, PlaceInv, NEW p \in Pipes, at[p][1] <= Len(Plans[p]), Advance(p)
  PROVE  /\ at' \in [Pipes -> Nat \X Nat] /\ \A q \in Pipes : q # p => at'[q] = at[q]
         /\ \/ /\ at[p][2] < Len(Group(p)) /\ at'[p][1] = at[p][1] /\ at'[p][2] = at[p][2] + 1
               /\ Pending(p)' = Pending(p) \cup {Current(p)}
            \/ /\ at'[p][1] = at[p][1] + 1 /\ at'[p][2] = 1
               /\ Pending(p)' = {} 
               /\ Planned(p, at[p][1]) = Planned(p, at[p][1] - 1) \cup Pending(p) \cup {Current(p)}
<1>1. PICK g \in Nat, m \in Nat : at[p] = <<g, m>>
  <2>1. at[p] \in Nat \X Nat
    BY DEF TypeOK
  <2> QED BY <2>1
<1>2. /\ g = at[p][1] /\ m = at[p][2] /\ g \in 1 .. Len(Plans[p]) /\ m \in 1 .. Len(Plans[p][g])
      /\ Len(Plans[p][g]) \in Nat
  BY <1>1, NextFacts DEF Group
<1>3. Pending(p) = {Plans[p][g][n] : n \in 1 .. m - 1} /\ Current(p) = Plans[p][g][m] /\ Group(p) = Plans[p][g]
  BY <1>2 DEF Pending, Current, Group
<1>4. at \in [Pipes -> Nat \X Nat]
  BY DEF TypeOK
<1>5. CASE m < Len(Plans[p][g])
  <2>1. at' = [at EXCEPT ![p] = <<g, m + 1>>]
    BY <1>1, <1>2, <1>3, <1>5 DEF Advance
  <2>2. <<g, m + 1>> \in Nat \X Nat
    OBVIOUS
  <2>3. at'[p] = <<g, m + 1>> /\ at' \in [Pipes -> Nat \X Nat] /\ \A q \in Pipes : q # p => at'[q] = at[q]
    BY <1>4, <2>1, <2>2
  <2>4. Pending(p)' = {Plans[p][g][n] : n \in 1 .. m + 1 - 1}
    BY <2>3 DEF Pending, Group
  <2>5. 1 .. m + 1 - 1 = 1 .. m - 1 \cup {m}
    BY <1>2
  <2>6. Pending(p)' = Pending(p) \cup {Current(p)}
    BY <1>3, <2>4, <2>5
  <2> QED BY <1>2, <1>3, <1>5, <2>3, <2>6
<1>6. CASE ~(m < Len(Plans[p][g]))
  <2>1. at' = [at EXCEPT ![p] = <<g + 1, 1>>]
    BY <1>1, <1>2, <1>3, <1>6 DEF Advance
  <2>2. <<g + 1, 1>> \in Nat \X Nat
    OBVIOUS
  <2>3. at'[p] = <<g + 1, 1>> /\ at' \in [Pipes -> Nat \X Nat] /\ \A q \in Pipes : q # p => at'[q] = at[q]
    BY <1>4, <2>1, <2>2
  <2>4. Pending(p)' = {}
    BY <2>3 DEF Pending
  <2>5. m = Len(Plans[p][g]) /\ 1 .. Len(Plans[p][g]) = 1 .. m - 1 \cup {m}
    BY <1>2, <1>6
  <2>6. Range(Plans[p][g]) = {Plans[p][g][n] : n \in 1 .. Len(Plans[p][g])}
    BY <1>2, PlanFacts DEF Range
  <2>7. Range(Plans[p][g]) = Pending(p) \cup {Current(p)}
    BY <1>3, <2>5, <2>6
  <2>8. Planned(p, g) = Planned(p, g - 1) \cup Pending(p) \cup {Current(p)}
    BY <1>2, <2>7, PlannedNext
  <2> QED BY <1>2, <1>3, <2>3, <2>4, <2>8
<1> QED BY <1>5, <1>6

(* The place of a pipeline.                                                *)
LEMMA AdvancePlace ==
  ASSUME TypeOK, PlaceInv, NEW p \in Pipes, Building(p), Advance(p), stage' = stage, starts' = starts
  PROVE  PlaceInv'
<1>1. SUFFICES ASSUME NEW q \in Pipes
               PROVE  /\ at'[q][1] \in 1 .. Len(Plans[q]) + 1
                      /\ at'[q][1] <= Len(Plans[q]) => at'[q][2] \in 1 .. Len(Plans[q][at'[q][1]])
                      /\ at'[q][1] > Len(Plans[q]) => at'[q][2] = 1
                      /\ stage[q] # "stopped" => starts[q] > 0
                      /\ stage[q] = "running" => at'[q][1] > Len(Plans[q])
  BY DEF PlaceInv, Group
<1>2. CASE q # p
  BY <1>2, AdvanceIs DEF PlaceInv, Building, Group
<1>3. CASE q = p
  <2>1. at[p][1] \in 1 .. Len(Plans[p]) /\ at[p][2] \in 1 .. Len(Group(p)) /\ Len(Group(p)) \in Nat
    BY NextFacts DEF Building
  <2>2. stage[p] = "building" /\ starts[p] > 0
    BY DEF Building, PlaceInv
  <2>3. CASE at[p][2] < Len(Group(p)) /\ at'[p][1] = at[p][1] /\ at'[p][2] = at[p][2] + 1
    <3>1. Len(Plans[p][at'[p][1]]) = Len(Group(p)) /\ Len(Plans[p]) \in Nat
      BY <2>3, PlanFacts DEF Group
    <3> QED BY <1>3, <2>1, <2>2, <2>3, <3>1
  <2>4. CASE at'[p][1] = at[p][1] + 1 /\ at'[p][2] = 1
    <3>1. at'[p][1] \in 1 .. Len(Plans[p]) + 1 /\ Len(Plans[p]) \in Nat
      BY <2>1, <2>4, PlanFacts
    <3>2. at'[p][1] <= Len(Plans[p]) => 1 \in 1 .. Len(Plans[p][at'[p][1]])
      BY <3>1, PlanFacts
    <3> QED BY <1>3, <2>2, <2>4, <3>1, <3>2
  <2> QED BY <2>3, <2>4, AdvanceIs DEF Building
<1> QED BY <1>2, <1>3

(* A plugin that is built is a new one.                                    *)
LEMMA AdvanceBuilt ==
  ASSUME TypeOK, PlaceInv, BuiltInv, NEW p \in Pipes, Building(p), Advance(p),
         stage' = stage, left' = left, alive' = alive \cup {Current(p)}
  PROVE  BuiltInv' /\ Current(p) \notin alive
<1>1. PICK i \in AllPlans : i = Current(p)
  BY NextFacts DEF Building
<1>2. i.pipe = p /\ i \notin Pending(p) /\ i \notin Planned(p, at[p][1] - 1)
  BY <1>1, NextFacts DEF Building
<1>3. Mine(p) = Planned(p, at[p][1] - 1) \cup Pending(p)
  BY DEF Building, BuiltInv
<1>4. i \notin alive
  BY <1>2, <1>3 DEF Mine
<1>5. IsFiniteSet(alive')
  BY <1>1, FS_AddElement DEF BuiltInv
<1>6. Mine(p)' = Mine(p) \cup {i} /\ \A q \in Pipes : q # p => Mine(q)' = Mine(q)
  BY <1>1, <1>2 DEF Mine
<1>7. Mine(p)' = Planned(p, at'[p][1] - 1) \cup Pending(p)'
  <2>1. at[p][1] \in Nat
    BY NextFacts DEF Building
  <2>2. CASE at'[p][1] = at[p][1] /\ Pending(p)' = Pending(p) \cup {Current(p)}
    BY <1>1, <1>3, <1>6, <2>2
  <2>3. CASE /\ at'[p][1] = at[p][1] + 1 /\ Pending(p)' = {}
             /\ Planned(p, at[p][1]) = Planned(p, at[p][1] - 1) \cup Pending(p) \cup {Current(p)}
    <3>1. at'[p][1] - 1 = at[p][1]
      BY <2>1, <2>3
    <3> QED BY <1>1, <1>3, <1>6, <2>3, <3>1
  <2> QED BY <2>2, <2>3, AdvanceIs DEF Building
<1>8. ASSUME NEW q \in Pipes
      PROVE  /\ stage'[q] = "stopped" => Mine(q)' = {}
             /\ stage'[q] \in {"building", "running"} => Mine(q)' = Planned(q, at'[q][1] - 1) \cup Pending(q)'
             /\ stage'[q] = "closing" => Mine(q)' = Range(left'[q]) /\ IsInjective(left'[q])
  <2>1. CASE q # p
    <3>1. at'[q] = at[q]
      BY <2>1, AdvanceIs DEF Building
    <3>2. Pending(q)' = Pending(q)
      BY <3>1, SameAt
    <3> QED BY <1>6, <2>1, <3>1, <3>2 DEF BuiltInv
  <2>2. CASE q = p
    BY <1>7, <2>2 DEF Building
  <2> QED BY <2>1, <2>2
<1>9. BuiltInv'
  BY <1>5, <1>8, Zenon DEF BuiltInv, Planned
<1> QED BY <1>1, <1>4, <1>9

(* A pipeline that is closed from now on.                                  *)
LEMMA ClosingBuilt ==
  ASSUME TypeOK, PlaceInv, BuiltInv, NEW p \in Pipes, stage[p] \in {"building", "running"},
         stage' = [stage EXCEPT ![p] = "closing"], left' = [left EXCEPT ![p] = ToClose[p][at[p][1] - 1]],
         starts' = starts, at' = at, alive' = alive \ Pending(p)
  PROVE  PlaceInv' /\ BuiltInv' /\ ToClose[p][at[p][1] - 1] \in Seq(AllPlans)
<1>1. at[p][1] - 1 \in 0 .. Len(Plans[p])
  BY PlanFacts DEF PlaceInv
<1>2. PICK g \in 0 .. Len(Plans[p]) : g = at[p][1] - 1
  BY <1>1
<1>3. ToClose[p][g] \in Seq(AllPlans) /\ IsInjective(ToClose[p][g]) /\ Range(ToClose[p][g]) = Planned(p, g)
  BY ClosedOnce
<1>4. Pending(p) \cap Planned(p, g) = {} /\ \A i \in Pending(p) : i.pipe = p
  <2>1. CASE at[p][1] <= Len(Plans[p])
    BY <1>2, <2>1, NextFacts
  <2>2. CASE at[p][1] > Len(Plans[p])
    BY <2>2 DEF PlaceInv, Pending
  <2>3. at[p][1] \in Int /\ Len(Plans[p]) \in Int
    BY PlanFacts DEF PlaceInv
  <2> QED BY <2>1, <2>2, <2>3
<1>5. Mine(p)' = Planned(p, g)
  <2>1. Mine(p) = Planned(p, g) \cup Pending(p)
    BY <1>2 DEF BuiltInv
  <2>2. Mine(p)' = Mine(p) \ Pending(p)
    BY DEF Mine
  <2> QED BY <1>4, <2>1, <2>2
<1>6. \A q \in Pipes : q # p => Mine(q)' = Mine(q)
  BY <1>4 DEF Mine
<1>7. IsFiniteSet(alive')
  BY FS_Subset DEF BuiltInv
<1>8. stage'[p] = "closing" /\ left'[p] = ToClose[p][g] /\ \A q \in Pipes : q # p => stage'[q] = stage[q] /\ left'[q] = left[q]
  BY <1>2 DEF TypeOK
<1>9. ASSUME NEW q \in Pipes
      PROVE  /\ stage'[q] = "stopped" => Mine(q)' = {}
             /\ stage'[q] \in {"building", "running"} => Mine(q)' = Planned(q, at'[q][1] - 1) \cup Pending(q)'
             /\ stage'[q] = "closing" => Mine(q)' = Range(left'[q]) /\ IsInjective(left'[q])
  <2>1. CASE q # p
    <3>1. Pending(q)' = Pending(q)
      BY SameAt
    <3> QED BY <1>6, <1>8, <2>1, <3>1 DEF BuiltInv
  <2>2. CASE q = p
    BY <1>3, <1>5, <1>8, <2>2
  <2> QED BY <2>1, <2>2
<1>10. BuiltInv'
  BY <1>7, <1>9, Zenon DEF BuiltInv, Planned
<1>11. PlaceInv'
  BY <1>8 DEF PlaceInv, Group
<1> QED BY <1>2, <1>3, <1>10, <1>11

LEMMA SteadyBuilt ==
  ASSUME TypeOK, PlaceInv, BuiltInv, stage' = stage, starts' = starts, at' = at, left' = left, alive' = alive
  PROVE  PlaceInv' /\ BuiltInv'
<1>1. \A q \in Pipes : Pending(q)' = Pending(q) /\ Mine(q)' = Mine(q)
  BY SameAt DEF Mine
<1> QED BY <1>1 DEF PlaceInv, BuiltInv, Group, Planned

LEMMA RunBuilt ==
  ASSUME TypeOK, PlaceInv, BuiltInv, NEW p \in Pipes, Run(p)
  PROVE  PlaceInv' /\ BuiltInv'
<1>1. /\ stage[p] = "building" /\ at[p][1] > Len(Plans[p])
      /\ stage' = [stage EXCEPT ![p] = "running"]
      /\ starts' = starts /\ at' = at /\ left' = left /\ alive' = alive
  BY DEF Run, Built
<1>2. stage'[p] = "running" /\ \A q \in Pipes : q # p => stage'[q] = stage[q]
  BY <1>1 DEF TypeOK
<1>3. \A q \in Pipes : Pending(q)' = Pending(q) /\ Mine(q)' = Mine(q)
  BY <1>1, SameAt DEF Mine
<1>4. PlaceInv'
  BY <1>1, <1>2 DEF PlaceInv, Group
<1>5. ASSUME NEW q \in Pipes
      PROVE  /\ stage'[q] = "stopped" => Mine(q)' = {}
             /\ stage'[q] \in {"building", "running"} => Mine(q)' = Planned(q, at'[q][1] - 1) \cup Pending(q)'
             /\ stage'[q] = "closing" => Mine(q)' = Range(left'[q]) /\ IsInjective(left'[q])
  BY <1>1, <1>2, <1>3 DEF BuiltInv
<1>6. BuiltInv'
  BY <1>1, <1>5, Zenon DEF BuiltInv, Planned
<1> QED BY <1>4, <1>6

LEMMA StartBuilt ==
  ASSUME TypeOK, PlaceInv, BuiltInv, NEW p \in Pipes, Start(p)
  PROVE  PlaceInv' /\ BuiltInv' /\ Mine(p) = {}
<1>1. /\ stage[p] = "stopped" /\ stage' = [stage EXCEPT ![p] = "building"]
      /\ starts' = [starts EXCEPT ![p] = @ + 1] /\ at' = [at EXCEPT ![p] = <<1, 1>>]
      /\ left' = left /\ alive' = alive
  BY DEF Start
<1>2. /\ stage'[p] = "building" /\ starts'[p] = starts[p] + 1 /\ starts[p] \in Nat /\ at'[p] = <<1, 1>>
      /\ \A q \in Pipes : q # p => stage'[q] = stage[q] /\ starts'[q] = starts[q] /\ at'[q] = at[q]
  BY <1>1 DEF TypeOK
<1>3. Mine(p) = {}
  BY <1>1 DEF BuiltInv
<1>4. \A q \in Pipes : Mine(q)' = Mine(q) /\ (q # p => Pending(q)' = Pending(q))
  BY <1>1, <1>2, SameAt DEF Mine
<1>5. Pending(p)' = {} /\ Planned(p, at'[p][1] - 1) = {}
  BY <1>2, PlannedNone DEF Pending
<1>6. ASSUME NEW q \in Pipes
      PROVE  /\ stage'[q] = "stopped" => Mine(q)' = {}
             /\ stage'[q] \in {"building", "running"} => Mine(q)' = Planned(q, at'[q][1] - 1) \cup Pending(q)'
             /\ stage'[q] = "closing" => Mine(q)' = Range(left'[q]) /\ IsInjective(left'[q])
  <2>1. CASE q = p
    BY <1>2, <1>3, <1>4, <1>5, <2>1
  <2>2. CASE q # p
    BY <1>1, <1>2, <1>4, <2>2 DEF BuiltInv
  <2> QED BY <2>1, <2>2
<1>7. BuiltInv'
  BY <1>1, <1>6, Zenon DEF BuiltInv, Planned
<1>8. ASSUME NEW q \in Pipes
      PROVE  /\ at'[q][1] \in 1 .. Len(Plans[q]) + 1
             /\ at'[q][1] <= Len(Plans[q]) => at'[q][2] \in 1 .. Len(Plans[q][at'[q][1]])
             /\ at'[q][1] > Len(Plans[q]) => at'[q][2] = 1
             /\ stage'[q] # "stopped" => starts'[q] > 0
             /\ stage'[q] = "running" => at'[q][1] > Len(Plans[q])
  <2>1. CASE q # p
    BY <1>2, <2>1 DEF PlaceInv, Group
  <2>2. CASE q = p
    <3>1. Len(Plans[p]) \in Nat /\ (1 <= Len(Plans[p]) => 1 \in 1 .. Len(Plans[p][1]))
      BY PlanFacts
    <3> QED BY <1>2, <2>2, <3>1
  <2> QED BY <2>1, <2>2
<1>9. PlaceInv'
  BY <1>8 DEF PlaceInv, Group
<1> QED BY <1>3, <1>7, <1>9

LEMMA CloseBuilt ==
  ASSUME TypeOK, PlaceInv, BuiltInv, NEW p \in Pipes, CloseNext(p)
  PROVE  /\ PlaceInv' /\ BuiltInv' /\ left' \in [Pipes -> Seq(AllPlans)]
         /\ Head(left[p]) \in alive /\ Head(left[p]).pipe = p
<1>1. /\ stage[p] = "closing" /\ left[p] # <<>> /\ alive' = alive \ {Head(left[p])}
      /\ left' = [left EXCEPT ![p] = Tail(left[p])] /\ stage' = stage /\ starts' = starts /\ at' = at
  BY DEF CloseNext
<1>2. left[p] \in Seq(AllPlans) /\ left \in [Pipes -> Seq(AllPlans)]
  BY DEF TypeOK
<1>3. Mine(p) = Range(left[p]) /\ IsInjective(left[p])
  BY <1>1 DEF BuiltInv
<1>4. /\ Head(left[p]) \in Range(left[p]) /\ Tail(left[p]) \in Seq(AllPlans)
      /\ Range(Tail(left[p])) = Range(left[p]) \ {Head(left[p])} /\ IsInjective(Tail(left[p]))
  BY <1>1, <1>2, <1>3, RangeOfTail
<1>5. PICK i : i = Head(left[p])
  OBVIOUS
<1>6. i \in alive /\ i.pipe = p
  BY <1>3, <1>4, <1>5 DEF Mine
<1>7. left'[p] = Tail(left[p]) /\ left' \in [Pipes -> Seq(AllPlans)] /\ \A q \in Pipes : q # p => left'[q] = left[q]
  BY <1>1, <1>2, <1>4
<1>8. Mine(p)' = Mine(p) \ {i} /\ \A q \in Pipes : q # p => Mine(q)' = Mine(q)
  BY <1>1, <1>5, <1>6 DEF Mine
<1>9. \A q \in Pipes : Pending(q)' = Pending(q)
  BY <1>1, SameAt
<1>10. ASSUME NEW q \in Pipes
       PROVE  /\ stage'[q] = "stopped" => Mine(q)' = {}
              /\ stage'[q] \in {"building", "running"} => Mine(q)' = Planned(q, at'[q][1] - 1) \cup Pending(q)'
              /\ stage'[q] = "closing" => Mine(q)' = Range(left'[q]) /\ IsInjective(left'[q])
  <2>1. CASE q = p
    <3>1. Mine(p)' = Range(left'[p]) /\ IsInjective(left'[p])
      BY <1>3, <1>4, <1>5, <1>7, <1>8
    <3> QED BY <1>1, <2>1, <3>1
  <2>2. CASE q # p
    BY <1>1, <1>7, <1>8, <1>9, <2>2 DEF BuiltInv
  <2> QED BY <2>1, <2>2
<1>11. IsFiniteSet(alive')
  BY <1>1, FS_RemoveElement DEF BuiltInv
<1>12. BuiltInv'
  BY <1>10, <1>11, Zenon DEF BuiltInv, Planned
<1>13. PlaceInv'
  BY <1>1 DEF PlaceInv, Group
<1> QED BY <1>5, <1>6, <1>7, <1>12, <1>13

LEMMA ClosedBuilt ==
  ASSUME TypeOK, PlaceInv, BuiltInv, NEW p \in Pipes, CloseEnds(p)
  PROVE  PlaceInv' /\ BuiltInv'
<1>1. /\ stage[p] = "closing" /\ left[p] = <<>> /\ stage' = [stage EXCEPT ![p] = "stopped"]
      /\ starts' = starts /\ at' = at /\ left' = left /\ alive' = alive
  BY DEF CloseEnds
<1>2. stage'[p] = "stopped" /\ \A q \in Pipes : q # p => stage'[q] = stage[q]
  BY <1>1 DEF TypeOK
<1>3. \A q \in Pipes : Pending(q)' = Pending(q) /\ Mine(q)' = Mine(q)
  BY <1>1, SameAt DEF Mine
<1>4. Mine(p) = {}
  BY <1>1 DEF BuiltInv, Range
<1>5. PlaceInv'
  BY <1>1, <1>2 DEF PlaceInv, Group
<1>6. ASSUME NEW q \in Pipes
      PROVE  /\ stage'[q] = "stopped" => Mine(q)' = {}
             /\ stage'[q] \in {"building", "running"} => Mine(q)' = Planned(q, at'[q][1] - 1) \cup Pending(q)'
             /\ stage'[q] = "closing" => Mine(q)' = Range(left'[q]) /\ IsInjective(left'[q])
  BY <1>1, <1>2, <1>3, <1>4 DEF BuiltInv
<1>7. BuiltInv'
  BY <1>1, <1>6, Zenon DEF BuiltInv, Planned
<1> QED BY <1>5, <1>7
----------------------------------------------------------------------------
(* The storages of clients.                                                *)
Holders(k) == {i \in alive \cap Lent : Key(i) = k}

CountInv ==
  \A k \in Keys :
    /\ storage.members[k] = Cardinality(Holders(k)) + lost[k]
    /\ storage.members[k] = 0 <=> storage.objects[k] = None

SharedInv == CountInv /\ ClientInv /\ ObjectInv /\ FreshInv /\ OpenInv

LEMMA CountIs == CountsMembers <=> CountInv
BY DEF CountsMembers, CountInv, Holders

LEMMA StorageTypes ==
  ASSUME TypeOK, NEW k \in Keys
  PROVE  /\ storage.members[k] \in Nat /\ storage.objects[k] \in Clients \cup {None} /\ lost[k] \in Nat
         /\ storage.members \in [Keys -> Nat] /\ storage.objects \in [Keys -> Clients \cup {None}]
<1>1. storage \in [members : [Keys -> Nat], objects : [Keys -> Clients \cup {None}]] /\ lost \in [Keys -> Nat]
  BY DEF TypeOK
<1> QED BY <1>1

LEMMA HoldersFinite ==
  ASSUME BuiltInv, NEW k
  PROVE  IsFiniteSet(Holders(k)) /\ Cardinality(Holders(k)) \in Nat
<1>1. IsFiniteSet(Holders(k))
  BY FS_Subset DEF Holders, BuiltInv
<1> QED BY <1>1, FS_CardinalityType

(* The key of a client, when its pipeline was started.                     *)
LEMMA KeyOfLent ==
  ASSUME TypeOK, NEW i \in Lent, starts[i.pipe] > 0 \/ Types[i.type].global
  PROVE  Key(i) \in Keys
<1>1. i \in AllPlans
  BY DEF Lent
<1>2. i.pipe \in Pipes
  BY <1>1, Owner
<1>3. MaxStarts[i.pipe] \in Nat \ {0} /\ starts[i.pipe] \in Nat /\ starts[i.pipe] <= MaxStarts[i.pipe]
  BY <1>2, SharedAssumption DEF TypeOK
<1>4. \E n \in 1 .. MaxStarts[i.pipe] : Key(i) = KeyIn(i, n)
  <2>1. CASE Types[i.type].global
    <3>1. Key(i) = KeyIn(i, 1)
      BY <2>1 DEF Key, KeyIn
    <3>2. 1 \in 1 .. MaxStarts[i.pipe]
      BY <1>3
    <3> QED BY <3>1, <3>2
  <2>2. CASE ~Types[i.type].global
    <3>1. starts[i.pipe] \in 1 .. MaxStarts[i.pipe]
      BY <1>3, <2>2
    <3> QED BY <3>1 DEF Key
  <2> QED BY <2>1, <2>2
<1> QED BY <1>4 DEF Keys, KeysOf

LEMMA AliveFacts ==
  ASSUME TypeOK, PlaceInv, BuiltInv, NEW i \in alive
  PROVE  /\ i \in AllPlans /\ i.pipe \in Pipes /\ stage[i.pipe] # "stopped" /\ starts[i.pipe] > 0
         /\ i \in Lent => Key(i) \in Keys
<1>1. i \in AllPlans /\ i.pipe \in Pipes
  BY Owner DEF TypeOK
<1>2. stage[i.pipe] # "stopped"
  BY <1>1 DEF BuiltInv, Mine
<1>3. starts[i.pipe] > 0
  BY <1>1, <1>2 DEF PlaceInv
<1> QED BY <1>1, <1>2, <1>3, KeyOfLent

(* Where an instance is alive there is a client.                           *)
LEMMA HeldFacts ==
  ASSUME TypeOK, PlaceInv, BuiltInv, CountInv, NEW i \in alive \cap Lent
  PROVE  /\ Key(i) \in Keys /\ storage.members[Key(i)] > 0
         /\ storage.objects[Key(i)] # None /\ storage.objects[Key(i)] \in Clients
<1>1. Key(i) \in Keys
  BY AliveFacts
<1>2. i \in Holders(Key(i))
  BY DEF Holders
<1>3. IsFiniteSet(Holders(Key(i))) /\ Cardinality(Holders(Key(i))) \in Nat
  BY HoldersFinite
<1>4. Cardinality(Holders(Key(i))) # 0
  BY <1>2, <1>3, FS_EmptySet
<1>5. storage.members[Key(i)] > 0
  BY <1>1, <1>3, <1>4, StorageTypes DEF CountInv
<1>6. storage.objects[Key(i)] # None
  BY <1>1, <1>5 DEF CountInv
<1> QED BY <1>1, <1>5, <1>6, StorageTypes

(* Keys of plugins that are not of the whole process.                      *)
LEMMA OwnKey ==
  ASSUME NEW i \in Lent, NEW j \in Lent, NEW n \in Nat \ {0}, ~Types[i.type].global, Key(j) = <<i.name, n>>
  PROVE  ~Types[j.type].global /\ j.pipe = i.pipe /\ starts[j.pipe] = n
<1>1. CASE Types[j.type].global
  <2>1. Key(j) = <<j.type, 0>>
    BY <1>1 DEF Key, KeyIn
  <2>2. <<j.type, 0>> # <<i.name, n>>
    OBVIOUS
  <2> QED BY <2>1, <2>2
<1>2. CASE ~Types[j.type].global
  <2>1. Key(j) = <<j.name, starts[j.pipe]>>
    BY <1>2 DEF Key, KeyIn
  <2>2. j.name = i.name /\ starts[j.pipe] = n
    BY <2>1
  <2>3. i \in AllPlans /\ j \in AllPlans
    BY DEF Lent
  <2> QED BY <1>2, <2>2, <2>3, KeyAssumption
<1> QED BY <1>1, <1>2

LEMMA SameKeys ==
  ASSUME starts' = starts
  PROVE  \A i : Key(i)' = Key(i)
BY DEF Key

(* Nobody joins or leaves a storage.                                       *)
LEMMA SteadyShared ==
  ASSUME TypeOK, SharedInv, starts' = starts, lost' = lost, client' = client, open' = open, storage' = storage,
         alive' \cap Lent = alive \cap Lent, \A q \in Pipes : Running(q)' => Running(q)
  PROVE  SharedInv'
<1>1. \A i : Key(i)' = Key(i)
  BY SameKeys
<1>2. \A k \in Keys : Holders(k)' = Holders(k)
  BY <1>1 DEF Holders
<1>3. CountInv'
  BY <1>2, Zenon DEF SharedInv, CountInv
<1>4. ClientInv' /\ ObjectInv' /\ FreshInv'
  BY <1>1 DEF SharedInv, ClientInv, ObjectInv, FreshInv
<1>5. OpenInv'
  <2>1. \A i \in Lent : i.pipe \in Pipes
    BY Owner DEF Lent
  <2> QED BY <1>1, <2>1, Zenon DEF SharedInv, OpenInv
<1> QED BY <1>3, <1>4, <1>5 DEF SharedInv

(* A new start has new keys, which nobody holds.                           *)
LEMMA StartShared ==
  ASSUME TypeOK, PlaceInv, BuiltInv, SharedInv, NEW p \in Pipes, Start(p)
  PROVE  SharedInv'
<1>1. /\ starts[p] < MaxStarts[p] /\ starts' = [starts EXCEPT ![p] = @ + 1]
      /\ stage' = [stage EXCEPT ![p] = "building"]
      /\ alive' = alive /\ client' = client /\ lost' = lost /\ storage' = storage /\ open' = open
  BY DEF Start, shared
<1>2. /\ starts[p] \in Nat /\ starts'[p] = starts[p] + 1 /\ MaxStarts[p] \in Nat
      /\ \A q \in Pipes : q # p => starts'[q] = starts[q] /\ stage'[q] = stage[q]
  BY <1>1, SharedAssumption DEF TypeOK
<1>3. Mine(p) = {}
  BY StartBuilt
<1>4. \A i \in alive : i.pipe # p /\ i.pipe \in Pipes
  BY <1>3, AliveFacts DEF Mine
<1>5. \A i \in alive : Key(i)' = Key(i)
  BY <1>2, <1>4 DEF Key
<1>6. \A k \in Keys : Holders(k)' = Holders(k)
  BY <1>1, <1>5 DEF Holders
<1>7. CountInv'
  BY <1>1, <1>6, Zenon DEF SharedInv, CountInv
<1>8. ClientInv' /\ ObjectInv'
  BY <1>1, <1>5 DEF SharedInv, ClientInv, ObjectInv
<1>9. \A i \in Lent : i.pipe \in Pipes
  BY Owner DEF Lent
<1>10. FreshInv'
  <2>1. SUFFICES ASSUME NEW i \in Lent, NEW n \in 1 .. MaxStarts[i.pipe], ~Types[i.type].global, n > starts'[i.pipe]
                 PROVE  lost[KeyIn(i, n)] = 0
    BY <1>1 DEF FreshInv
  <2>2. n > starts[i.pipe]
    <3>1. MaxStarts[i.pipe] \in Nat
      BY <1>9, SharedAssumption
    <3>2. n \in Nat
      BY <3>1
    <3>3. starts'[i.pipe] = starts[i.pipe] \/ i.pipe = p
      BY <1>2, <1>9
    <3> QED BY <1>2, <2>1, <3>2, <3>3
  <2> QED BY <2>1, <2>2 DEF SharedInv, FreshInv
<1>11. OpenInv'
  <2>1. SUFFICES ASSUME NEW i \in Lent, Types[i.type].global \/ Running(i.pipe)', storage.objects[Key(i)'] # None
                 PROVE  storage.objects[Key(i)'] \in open
    BY <1>1, Zenon DEF OpenInv
  <2>2. CASE Types[i.type].global
    <3>1. Key(i)' = Key(i)
      BY <2>2 DEF Key, KeyIn
    <3> QED BY <2>1, <2>2, <3>1 DEF SharedInv, OpenInv
  <2>3. CASE ~Types[i.type].global /\ i.pipe # p
    <3>1. Key(i)' = Key(i) /\ Running(i.pipe)
      BY <1>2, <1>9, <2>1, <2>3 DEF Key, Running
    <3> QED BY <2>1, <3>1 DEF SharedInv, OpenInv
  <2>4. CASE ~Types[i.type].global /\ i.pipe = p
    <3>1. PICK n \in 1 .. MaxStarts[p] : n = starts[p] + 1
      BY <1>1, <1>2
    <3>2. Key(i)' = <<i.name, n>> /\ KeyIn(i, n) = <<i.name, n>>
      BY <1>2, <2>4, <3>1 DEF Key, KeyIn
    <3>3. KeyIn(i, n) \in Keys
      BY <2>4, <3>1 DEF Keys, KeysOf
    <3>4. n > starts[i.pipe] /\ n \in Nat \ {0}
      BY <1>2, <2>4, <3>1
    <3>5. lost[<<i.name, n>>] = 0
      BY <2>4, <3>1, <3>2, <3>4 DEF SharedInv, FreshInv
    <3>6. Holders(<<i.name, n>>) = {}
      <4>1. ASSUME NEW j \in alive \cap Lent, Key(j) = <<i.name, n>> PROVE FALSE
        <5>1. j.pipe = i.pipe
          BY <2>4, <3>4, <4>1, OwnKey
        <5> QED BY <1>4, <2>4, <4>1, <5>1
      <4> QED BY <4>1 DEF Holders
    <3>7. storage.members[<<i.name, n>>] = 0
      <4>1. Cardinality(Holders(<<i.name, n>>)) = 0
        BY <3>6, FS_EmptySet
      <4>2. storage.members[<<i.name, n>>] = Cardinality(Holders(<<i.name, n>>)) + lost[<<i.name, n>>]
        BY <3>2, <3>3 DEF SharedInv, CountInv
      <4> QED BY <3>5, <4>1, <4>2
    <3>8. storage.objects[<<i.name, n>>] = None
      BY <3>2, <3>3, <3>7 DEF SharedInv, CountInv
    <3> QED BY <2>1, <3>2, <3>8
  <2> QED BY <2>2, <2>3, <2>4
<1> QED BY <1>7, <1>8, <1>10, <1>11 DEF SharedInv

(* Who joins gets what is stored; a client that was created is in use or   *)
(* closed at once.                                                         *)
LEMMA JoinIs ==
  ASSUME TypeOK, NEW i \in Lent, NEW k \in Keys, k = Key(i), Join(i)
  PROVE  /\ storage'.members \in [Keys -> Nat] /\ storage'.objects \in [Keys -> Clients \cup {None}]
         /\ storage' \in [members : [Keys -> Nat], objects : [Keys -> Clients \cup {None}]]
         /\ client' \in [Lent -> Clients \cup {None}]
         /\ storage'.members[k] = storage.members[k] + 1
         /\ client'[i] = storage'.objects[k] /\ storage'.objects[k] \in Clients
         /\ \A x \in Keys : x # k => /\ storage'.members[x] = storage.members[x]
                                     /\ storage'.objects[x] = storage.objects[x]
         /\ \A j \in Lent : j # i => client'[j] = client[j]
         /\ storage.objects[k] # None => storage'.objects[k] = storage.objects[k] /\ Opened(i) = open
         /\ storage.objects[k] = None =>
              /\ storage'.objects[k] \in {k} \X Copies /\ storage'.objects[k] \notin open
              /\ Opened(i) = open \cup {storage'.objects[k]}
<1>1. PICK c : c = Created(k)
  OBVIOUS
<1>2. c \in {k} \X Copies /\ Unused(c)
  <2>1. \E d \in {k} \X Copies : Unused(d)
    BY DEF Join
  <2> QED BY <1>1, <2>1, Zenon DEF Created
<1>3. c \in Clients /\ c # None /\ c \notin open
  <2>1. c \in Clients
    BY <1>2 DEF Clients
  <2> QED BY <1>2, <2>1, SharedAssumption DEF Unused
<1>4. /\ storage.members \in [Keys -> Nat] /\ storage.objects \in [Keys -> Clients \cup {None}]
      /\ client \in [Lent -> Clients \cup {None}]
  BY StorageTypes DEF TypeOK
<1>5. PICK o : o = Stored(storage, k, c)
  OBVIOUS
<1>6. o \in Clients /\ (storage.objects[k] # None => o = storage.objects[k]) /\ (storage.objects[k] = None => o = c)
  BY <1>3, <1>4, <1>5 DEF Stored
<1>7. /\ storage' = [members |-> [storage.members EXCEPT ![k] = @ + 1], objects |-> [storage.objects EXCEPT ![k] = o]]
      /\ client' = [client EXCEPT ![i] = o]
  BY <1>1, <1>5 DEF Join, CompareAndStore
<1>8. /\ storage'.members = [storage.members EXCEPT ![k] = @ + 1]
      /\ storage'.objects = [storage.objects EXCEPT ![k] = o]
  BY <1>7
<1>9. /\ storage'.members \in [Keys -> Nat] /\ storage'.objects \in [Keys -> Clients \cup {None}]
      /\ client' \in [Lent -> Clients \cup {None}]
  BY <1>4, <1>6, <1>7, <1>8
<1>10. storage' \in [members : [Keys -> Nat], objects : [Keys -> Clients \cup {None}]]
  <2>1. storage' = [members |-> storage'.members, objects |-> storage'.objects]
    BY <1>7, <1>8
  <2> QED BY <1>9, <2>1
<1>11. /\ storage'.members[k] = storage.members[k] + 1 /\ storage'.objects[k] = o /\ client'[i] = o
       /\ \A x \in Keys : x # k => /\ storage'.members[x] = storage.members[x]
                                   /\ storage'.objects[x] = storage.objects[x]
       /\ \A j \in Lent : j # i => client'[j] = client[j]
  BY <1>4, <1>7, <1>8
<1>12. Opened(i) = IF storage.objects[k] = None THEN open \cup {c} ELSE open
  BY <1>1 DEF Opened
<1> QED BY <1>2, <1>3, <1>6, <1>9, <1>10, <1>11, <1>12

(* What joining does to the objects, whether or not a ping follows.        *)
LEMMA JoinObjects ==
  ASSUME TypeOK, PlaceInv, BuiltInv, SharedInv, NEW i \in Lent, NEW k \in Keys, k = Key(i), Join(i), starts' = starts
  PROVE  /\ ObjectInv'
         /\ \A j \in alive \cap Lent : j # i => client'[j] = storage'.objects[Key(j)]
         /\ \A j \in Lent : /\ Types[j.type].global \/ Running(j.pipe)
                            /\ starts[j.pipe] > 0 \/ Types[j.type].global
                            /\ storage'.objects[Key(j)] # None
                            => storage'.objects[Key(j)] \in Opened(i)
<1>1. /\ storage.objects[k] # None => storage'.objects[k] = storage.objects[k] /\ Opened(i) = open
      /\ storage.objects[k] = None =>
           /\ storage'.objects[k] \in {k} \X Copies /\ Opened(i) = open \cup {storage'.objects[k]}
      /\ \A x \in Keys : x # k => storage'.objects[x] = storage.objects[x]
      /\ \A j \in Lent : j # i => client'[j] = client[j]
  BY JoinIs
<1>2. ObjectInv'
  <2>1. SUFFICES ASSUME NEW x \in Keys, storage'.objects[x] # None
                 PROVE  storage'.objects[x] \in {x} \X Copies
    BY Zenon DEF ObjectInv, Keys, KeysOf
  <2>2. CASE storage.objects[x] # None
    BY <1>1, <2>1, <2>2 DEF SharedInv, ObjectInv
  <2>3. CASE storage.objects[x] = None
    BY <1>1, <2>1, <2>3
  <2> QED BY <2>2, <2>3
<1>3. ASSUME NEW j \in alive \cap Lent, j # i
      PROVE  client'[j] = storage'.objects[Key(j)]
  <2>1. Key(j) \in Keys /\ storage.objects[Key(j)] # None
    BY HeldFacts DEF SharedInv
  <2>2. storage'.objects[Key(j)] = storage.objects[Key(j)]
    BY <1>1, <2>1
  <2>3. client[j] = storage.objects[Key(j)]
    BY DEF SharedInv, ClientInv
  <2> QED BY <1>1, <1>3, <2>2, <2>3
<1>4. ASSUME NEW j \in Lent, Types[j.type].global \/ Running(j.pipe), starts[j.pipe] > 0 \/ Types[j.type].global,
             storage'.objects[Key(j)] # None
      PROVE  storage'.objects[Key(j)] \in Opened(i)
  <2>1. Key(j) \in Keys
    BY <1>4, KeyOfLent
  <2>2. CASE storage.objects[Key(j)] # None
    <3>1. storage'.objects[Key(j)] = storage.objects[Key(j)]
      BY <1>1, <2>1, <2>2
    <3>2. storage.objects[Key(j)] \in open
      BY <1>4, <2>2, Zenon DEF SharedInv, OpenInv
    <3>3. open \subseteq Opened(i)
      BY <1>1
    <3> QED BY <3>1, <3>2, <3>3
  <2>3. CASE storage.objects[Key(j)] = None
    BY <1>1, <1>4, <2>1, <2>3
  <2> QED BY <2>2, <2>3
<1> QED BY <1>2, <1>3, <1>4

LEMMA RunningStarted ==
  ASSUME TypeOK, PlaceInv, NEW p \in Pipes, Running(p)
  PROVE  starts[p] > 0
BY DEF PlaceInv, Running

(* A plugin that is lent a client becomes one of those it is counted for.  *)
LEMMA JoinShared ==
  ASSUME TypeOK, PlaceInv, BuiltInv, SharedInv, NEW i \in Lent, i \notin alive, NEW k \in Keys, k = Key(i),
         Join(i), open' = Opened(i), alive' = alive \cup {i}, stage' = stage, starts' = starts, lost' = lost
  PROVE  SharedInv'
<1>1. \A j : Key(j)' = Key(j)
  BY SameKeys
<1>2. CountInv'
  <2>1. SUFFICES ASSUME NEW x \in Keys
                 PROVE  /\ storage'.members[x] = Cardinality(Holders(x)') + lost[x]
                        /\ storage'.members[x] = 0 <=> storage'.objects[x] = None
    BY Zenon DEF CountInv, Keys, KeysOf
  <2>2. /\ storage.members[x] = Cardinality(Holders(x)) + lost[x]
        /\ storage.members[x] = 0 <=> storage.objects[x] = None
    BY DEF SharedInv, CountInv
  <2>3. storage.members[x] \in Nat /\ lost[x] \in Nat /\ IsFiniteSet(Holders(x)) /\ Cardinality(Holders(x)) \in Nat
    BY StorageTypes, HoldersFinite
  <2>4. CASE x # k
    <3>1. Holders(x)' = Holders(x)
      BY <1>1, <2>4 DEF Holders
    <3>2. storage'.members[x] = storage.members[x] /\ storage'.objects[x] = storage.objects[x]
      BY <2>4, JoinIs
    <3> QED BY <2>2, <3>1, <3>2
  <2>5. CASE x = k
    <3>1. Holders(x)' = Holders(x) \cup {i} /\ i \notin Holders(x)
      BY <1>1, <2>5 DEF Holders
    <3>2. Cardinality(Holders(x)') = Cardinality(Holders(x)) + 1
      BY <2>3, <3>1, FS_AddElement
    <3>3. storage'.members[x] = storage.members[x] + 1 /\ storage'.objects[x] \in Clients
      BY <2>5, JoinIs
    <3>4. storage'.objects[x] # None
      BY <3>3, SharedAssumption
    <3> QED BY <2>2, <2>3, <3>2, <3>3, <3>4
  <2> QED BY <2>4, <2>5
<1>3. ClientInv'
  <2>1. client'[i] = storage'.objects[k]
    BY JoinIs
  <2>2. ASSUME NEW j \in alive' \cap Lent PROVE client'[j] = storage'.objects[Key(j)]
    BY <2>1, JoinObjects
  <2> QED BY <1>1, <2>2, Zenon DEF ClientInv, Lent
<1>4. ObjectInv'
  BY JoinObjects
<1>5. FreshInv'
  BY DEF SharedInv, FreshInv
<1>6. OpenInv'
  <2>1. SUFFICES ASSUME NEW j \in Lent, Types[j.type].global \/ Running(j.pipe), storage'.objects[Key(j)] # None
                 PROVE  storage'.objects[Key(j)] \in Opened(i)
    BY <1>1, Zenon DEF OpenInv, Running
  <2>2. starts[j.pipe] > 0 \/ Types[j.type].global
    <3>1. j.pipe \in Pipes
      BY Owner DEF Lent
    <3> QED BY <2>1, <3>1, RunningStarted
  <2> QED BY <2>1, <2>2, JoinObjects
<1> QED BY <1>2, <1>3, <1>4, <1>5, <1>6 DEF SharedInv

(* What a build that fails leaves behind is counted as lost.               *)
LEMMA LostIs ==
  ASSUME TypeOK, BuiltInv, NEW P \in SUBSET alive, NEW others \in SUBSET Lent, IsFiniteSet(others),
         others \cap alive = {}, alive' = alive \ P, starts' = starts,
         lost' = [k \in Keys |-> lost[k] + Cardinality({i \in (P \cap Lent) \cup others : Key(i) = k})]
  PROVE  /\ lost' \in [Keys -> Nat]
         /\ \A x \in Keys :
              Cardinality(Holders(x)') + lost'[x] =
                Cardinality(Holders(x)) + lost[x] + Cardinality({i \in others : Key(i) = x})
<1> DEFINE Gone(x) == {i \in P \cap Lent : Key(i) = x}
           More(x) == {i \in others : Key(i) = x}
<1>1. \A j : Key(j)' = Key(j)
  BY SameKeys
<1>2. ASSUME NEW x \in Keys
      PROVE  /\ lost'[x] \in Nat
             /\ Cardinality(Holders(x)') + lost'[x] = Cardinality(Holders(x)) + lost[x] + Cardinality(More(x))
  <2>1. PICK H, G, M : H = Holders(x) /\ G = Gone(x) /\ M = More(x)
    OBVIOUS
  <2>2. IsFiniteSet(H) /\ Cardinality(H) \in Nat
    BY <2>1, HoldersFinite
  <2>3. IsFiniteSet(M) /\ Cardinality(M) \in Nat
    BY <2>1, FS_Subset, FS_CardinalityType
  <2>4. IsFiniteSet(G) /\ Cardinality(G) \in Nat
    <3>1. G \subseteq alive /\ IsFiniteSet(alive)
      BY <2>1 DEF BuiltInv
    <3> QED BY <3>1, FS_Subset, FS_CardinalityType
  <2>5. Holders(x)' = H \ G
    BY <1>1, <2>1 DEF Holders
  <2>6. H \cap G = G /\ G \cap M = {}
    BY <2>1 DEF Holders
  <2>7. Cardinality(H \ G) = Cardinality(H) - Cardinality(G)
    BY <2>2, <2>6, FS_Difference
  <2>8. Cardinality(G \cup M) = Cardinality(G) + Cardinality(M)
    <3>1. Cardinality(G \cup M) = Cardinality(G) + Cardinality(M) - Cardinality(G \cap M)
      BY <2>3, <2>4, FS_Union
    <3>2. Cardinality(G \cap M) = 0
      BY <2>6, FS_EmptySet
    <3> QED BY <2>3, <2>4, <3>1, <3>2
  <2>9. {i \in (P \cap Lent) \cup others : Key(i) = x} = G \cup M
    BY <2>1
  <2>10. lost'[x] = lost[x] + Cardinality(G \cup M) /\ lost[x] \in Nat
    BY <2>9, StorageTypes
  <2>11. Cardinality(Holders(x)') = Cardinality(H) - Cardinality(G)
    BY <2>5, <2>7
  <2> QED BY <2>1, <2>2, <2>3, <2>4, <2>8, <2>10, <2>11
<1>3. lost' \in [Keys -> Nat]
  BY <1>2
<1> QED BY <1>2, <1>3

LEMMA GivenUpFresh ==
  ASSUME TypeOK, FreshInv, NEW P, NEW others \in SUBSET Lent, starts' = starts,
         lost' = [k \in Keys |-> lost[k] + Cardinality({i \in (P \cap Lent) \cup others : Key(i) = k})]
  PROVE  FreshInv'
<1>1. SUFFICES ASSUME NEW i \in Lent, NEW n \in 1 .. MaxStarts[i.pipe], ~Types[i.type].global, n > starts[i.pipe]
               PROVE  lost'[KeyIn(i, n)] = 0
  BY DEF FreshInv
<1>2. i.pipe \in Pipes
  BY Owner DEF Lent
<1>3. n \in Nat \ {0}
  BY <1>2, SharedAssumption
<1>4. KeyIn(i, n) = <<i.name, n>> /\ KeyIn(i, n) \in Keys /\ lost[KeyIn(i, n)] = 0
  <2>1. KeyIn(i, n) = <<i.name, n>>
    BY <1>1 DEF KeyIn
  <2>2. KeyIn(i, n) \in Keys
    BY DEF Keys, KeysOf
  <2>3. lost[KeyIn(i, n)] = 0
    BY <1>1 DEF FreshInv
  <2> QED BY <2>1, <2>2, <2>3
<1>5. {j \in (P \cap Lent) \cup others : Key(j) = KeyIn(i, n)} = {}
  <2>1. ASSUME NEW j \in Lent, Key(j) = <<i.name, n>> PROVE FALSE
    <3>1. j.pipe = i.pipe /\ starts[j.pipe] = n
      BY <1>1, <1>3, <2>1, OwnKey
    <3>2. starts[i.pipe] \in Nat
      BY <1>2 DEF TypeOK
    <3> QED BY <1>1, <1>3, <3>1, <3>2
  <2> QED BY <1>4, <2>1
<1>6. lost'[KeyIn(i, n)] = lost[KeyIn(i, n)] + Cardinality({j \in (P \cap Lent) \cup others : Key(j) = KeyIn(i, n)})
  BY <1>4
<1>7. lost'[KeyIn(i, n)] = 0 + Cardinality({})
  BY <1>4, <1>5, <1>6
<1> QED BY <1>7, FS_EmptySet

LEMMA PendingAlive ==
  ASSUME TypeOK, PlaceInv, BuiltInv, NEW p \in Pipes, Building(p)
  PROVE  Pending(p) \subseteq alive
BY DEF Building, BuiltInv, Mine

LEMMA GivingUpRuns ==
  ASSUME TypeOK, NEW p \in Pipes, stage' = [stage EXCEPT ![p] = "closing"]
  PROVE  \A q \in Pipes : Running(q)' => q # p /\ Running(q)
BY DEF TypeOK, Running

(* A plugin is refused: nobody joins.                                      *)
LEMMA RefusedShared ==
  ASSUME TypeOK, PlaceInv, BuiltInv, SharedInv, NEW p \in Pipes, Building(p), GiveUp(p, {}),
         client' = client, open' = open, storage' = storage
  PROVE  SharedInv'
<1>1. /\ starts' = starts /\ alive' = alive \ Pending(p) /\ stage' = [stage EXCEPT ![p] = "closing"]
      /\ lost' = [k \in Keys |-> lost[k] + Cardinality({i \in (Pending(p) \cap Lent) \cup {} : Key(i) = k})]
  BY DEF GiveUp
<1>2. PICK P \in SUBSET alive : P = Pending(p)
  BY PendingAlive
<1>3. \A j : Key(j)' = Key(j)
  BY <1>1, SameKeys
<1>4. ASSUME NEW x \in Keys
      PROVE  Cardinality(Holders(x)') + lost'[x] = Cardinality(Holders(x)) + lost[x]
  <2>1. Cardinality(Holders(x)') + lost'[x] =
          Cardinality(Holders(x)) + lost[x] + Cardinality({i \in {} : Key(i) = x})
    <3>1. IsFiniteSet({}) /\ {} \cap alive = {} /\ {} \in SUBSET Lent
      BY FS_EmptySet
    <3> QED BY <1>1, <1>2, <3>1, LostIs
  <2>2. Cardinality({i \in {} : Key(i) = x}) = 0
    <3>1. {i \in {} : Key(i) = x} = {}
      OBVIOUS
    <3> QED BY <3>1, FS_EmptySet
  <2>3. Cardinality(Holders(x)) \in Nat /\ lost[x] \in Nat
    BY HoldersFinite, StorageTypes
  <2> QED BY <2>1, <2>2, <2>3
<1>5. CountInv'
  <2>1. SUFFICES ASSUME NEW x \in Keys
                 PROVE  /\ storage.members[x] = Cardinality(Holders(x)') + lost'[x]
                        /\ storage.members[x] = 0 <=> storage.objects[x] = None
    BY Zenon DEF CountInv, Keys, KeysOf
  <2> QED BY <1>4 DEF SharedInv, CountInv
<1>6. ClientInv' /\ ObjectInv'
  BY <1>1, <1>3 DEF SharedInv, ClientInv, ObjectInv
<1>7. FreshInv'
  <2>1. FreshInv /\ {} \in SUBSET Lent
    BY DEF SharedInv
  <2> QED BY <1>1, <2>1, GivenUpFresh, Zenon
<1>8. OpenInv'
  <2>1. \A i \in Lent : i.pipe \in Pipes
    BY Owner DEF Lent
  <2>2. \A q \in Pipes : Running(q)' => Running(q)
    BY <1>1, GivingUpRuns
  <2> QED BY <1>3, <2>1, <2>2, Zenon DEF SharedInv, OpenInv
<1> QED BY <1>5, <1>6, <1>7, <1>8 DEF SharedInv

(* A ping fails: the plugin has joined, and never leaves.                  *)
LEMMA PingShared ==
  ASSUME TypeOK, PlaceInv, BuiltInv, SharedInv, NEW p \in Pipes, PingFails(p)
  PROVE  SharedInv'
<1>1. PICK i \in AllPlans : i = Current(p)
  BY NextFacts DEF PingFails, Building
<1>2. /\ Building(p) /\ Step(i) = "ping" /\ Join(i) /\ open' = Opened(i) \ {client'[i]}
      /\ starts' = starts /\ alive' = alive \ Pending(p) /\ stage' = [stage EXCEPT ![p] = "closing"]
      /\ lost' = [k \in Keys |-> lost[k] + Cardinality({j \in (Pending(p) \cap Lent) \cup {i} : Key(j) = k})]
  BY <1>1 DEF PingFails, GiveUp
<1>3. i.pipe = p /\ i \notin alive
  <2>1. i.pipe = p /\ i \notin Pending(p) /\ i \notin Planned(p, at[p][1] - 1)
    BY <1>1, <1>2, NextFacts DEF Building
  <2>2. Mine(p) = Planned(p, at[p][1] - 1) \cup Pending(p)
    BY <1>2 DEF Building, BuiltInv
  <2> QED BY <2>1, <2>2 DEF Mine
<1>4. i \in Lent /\ ~Types[i.type].global
  <2>1. i \in Lent
    BY <1>2 DEF Lent
  <2> QED BY <1>2, <2>1, KeyAssumption
<1>5. stage[p] = "building" /\ starts[p] > 0
  BY <1>2 DEF Building, PlaceInv
<1>6. PICK k \in Keys : k = Key(i)
  BY <1>3, <1>4, <1>5, KeyOfLent
<1>7. PICK P \in SUBSET alive : P = Pending(p)
  BY <1>2, PendingAlive
<1>8. \A j : Key(j)' = Key(j)
  BY <1>2, SameKeys
<1>9. ASSUME NEW x \in Keys
      PROVE  Cardinality(Holders(x)') + lost'[x] =
               Cardinality(Holders(x)) + lost[x] + Cardinality({j \in {i} : Key(j) = x})
  <2>1. IsFiniteSet({i}) /\ {i} \cap alive = {} /\ {i} \in SUBSET Lent
    BY <1>3, <1>4, FS_Singleton
  <2> QED BY <1>2, <1>7, <2>1, LostIs
<1>10. CountInv'
  <2>1. SUFFICES ASSUME NEW x \in Keys
                 PROVE  /\ storage'.members[x] = Cardinality(Holders(x)') + lost'[x]
                        /\ storage'.members[x] = 0 <=> storage'.objects[x] = None
    BY Zenon DEF CountInv, Keys, KeysOf
  <2>2. /\ storage.members[x] = Cardinality(Holders(x)) + lost[x]
        /\ storage.members[x] = 0 <=> storage.objects[x] = None
    BY DEF SharedInv, CountInv
  <2>3. storage.members[x] \in Nat /\ lost[x] \in Nat /\ Cardinality(Holders(x)) \in Nat
    BY StorageTypes, HoldersFinite
  <2>4. CASE x # k
    <3>1. {j \in {i} : Key(j) = x} = {}
      BY <1>6, <2>4
    <3>2. Cardinality({j \in {i} : Key(j) = x}) = 0
      BY <3>1, FS_EmptySet
    <3>3. storage'.members[x] = storage.members[x] /\ storage'.objects[x] = storage.objects[x]
      BY <1>2, <1>4, <1>6, <2>4, JoinIs
    <3> QED BY <1>9, <2>2, <2>3, <3>2, <3>3
  <2>5. CASE x = k
    <3>1. {j \in {i} : Key(j) = x} = {i}
      BY <1>6, <2>5
    <3>2. Cardinality({j \in {i} : Key(j) = x}) = 1
      BY <3>1, FS_Singleton
    <3>3. storage'.members[x] = storage.members[x] + 1 /\ storage'.objects[x] \in Clients
      BY <1>2, <1>4, <1>6, <2>5, JoinIs
    <3>4. storage'.objects[x] # None
      BY <3>3, SharedAssumption
    <3> QED BY <1>9, <2>2, <2>3, <3>2, <3>3, <3>4
  <2> QED BY <2>4, <2>5
<1>11. /\ ObjectInv'
       /\ \A j \in alive \cap Lent : j # i => client'[j] = storage'.objects[Key(j)]
       /\ \A j \in Lent : /\ Types[j.type].global \/ Running(j.pipe)
                          /\ starts[j.pipe] > 0 \/ Types[j.type].global
                          /\ storage'.objects[Key(j)] # None
                          => storage'.objects[Key(j)] \in Opened(i)
  BY <1>2, <1>4, <1>6, JoinObjects
<1>12. ClientInv'
  <2>1. ASSUME NEW j \in alive' \cap Lent PROVE client'[j] = storage'.objects[Key(j)]
    BY <1>2, <1>3, <1>11
  <2> QED BY <1>8, <2>1, Zenon DEF ClientInv, Lent
<1>13. FreshInv'
  <2>1. FreshInv /\ {i} \in SUBSET Lent
    BY <1>4 DEF SharedInv
  <2> QED BY <1>2, <2>1, GivenUpFresh, Zenon
<1>14. OpenInv'
  <2>1. SUFFICES ASSUME NEW j \in Lent, Types[j.type].global \/ Running(j.pipe)', storage'.objects[Key(j)] # None
                 PROVE  storage'.objects[Key(j)] \in open'
    BY <1>8, Zenon DEF OpenInv
  <2>2. j.pipe \in Pipes
    BY Owner DEF Lent
  <2>3. Types[j.type].global \/ (Running(j.pipe) /\ j.pipe # p)
    BY <1>2, <2>1, <2>2, GivingUpRuns
  <2>4. starts[j.pipe] > 0 \/ Types[j.type].global
    BY <2>2, <2>3, RunningStarted
  <2>5. storage'.objects[Key(j)] \in Opened(i)
    BY <1>11, <2>1, <2>3, <2>4
  <2>6. Key(j) # k
    <3>1. k = <<i.name, starts[p]>> /\ starts[p] \in Nat \ {0}
      BY <1>3, <1>4, <1>5, <1>6 DEF Key, KeyIn, TypeOK
    <3>2. Key(j) = k => ~Types[j.type].global /\ j.pipe = p
      BY <1>3, <1>4, <3>1, OwnKey
    <3> QED BY <2>3, <3>2
  <2>7. Key(j) \in Keys
    BY <2>4, KeyOfLent
  <2>8. storage'.objects[Key(j)] \in {Key(j)} \X Copies
    BY <1>11, <2>1, <2>7, Zenon DEF ObjectInv, Keys, KeysOf
  <2>9. client'[i] = storage'.objects[k] /\ storage'.objects[k] \in Clients
    BY <1>2, <1>4, <1>6, JoinIs
  <2>10. client'[i] \in {k} \X Copies
    <3>1. client'[i] # None
      BY <2>9, SharedAssumption
    <3> QED BY <1>11, <2>9, <3>1, Zenon DEF ObjectInv, Keys, KeysOf
  <2>11. client'[i] # storage'.objects[Key(j)]
    BY <2>6, <2>8, <2>10
  <2> QED BY <1>2, <2>5, <2>11
<1> QED BY <1>10, <1>11, <1>12, <1>13, <1>14 DEF SharedInv

(* Who leaves is one of those the storage counts.                          *)
LEMMA LeaveIs ==
  ASSUME TypeOK, NEW k \in Keys, storage.members[k] > 0, storage' = Leave(storage, k)
  PROVE  /\ storage' \in [members : [Keys -> Nat], objects : [Keys -> Clients \cup {None}]]
         /\ storage'.members[k] = storage.members[k] - 1
         /\ storage'.objects[k] = IF storage.members[k] = 1 THEN None ELSE storage.objects[k]
         /\ \A x \in Keys : x # k => /\ storage'.members[x] = storage.members[x]
                                     /\ storage'.objects[x] = storage.objects[x]
<1>1. /\ storage.members \in [Keys -> Nat] /\ storage.objects \in [Keys -> Clients \cup {None}]
      /\ storage.members[k] \in Nat
  BY StorageTypes
<1>2. PICK o : o = IF storage.members[k] = 1 THEN None ELSE storage.objects[k]
  OBVIOUS
<1>3. o \in Clients \cup {None}
  BY <1>1, <1>2
<1>4. storage' = [members |-> [storage.members EXCEPT ![k] = @ - 1], objects |-> [storage.objects EXCEPT ![k] = o]]
  BY <1>2 DEF Leave, LastMember
<1>5. storage'.members = [storage.members EXCEPT ![k] = @ - 1] /\ storage'.objects = [storage.objects EXCEPT ![k] = o]
  BY <1>4
<1>6. storage.members[k] - 1 \in Nat
  BY <1>1
<1>7. storage'.members \in [Keys -> Nat] /\ storage'.objects \in [Keys -> Clients \cup {None}]
  BY <1>1, <1>3, <1>5, <1>6
<1>8. storage' \in [members : [Keys -> Nat], objects : [Keys -> Clients \cup {None}]]
  <2>1. storage' = [members |-> storage'.members, objects |-> storage'.objects]
    BY <1>4, <1>5
  <2> QED BY <1>7, <2>1
<1> QED BY <1>1, <1>2, <1>5, <1>8

LEMMA LeaveShared ==
  ASSUME TypeOK, PlaceInv, BuiltInv, SharedInv, NEW i \in alive, CloseShared(i), alive' = alive \ {i},
         stage' = stage, starts' = starts, lost' = lost
  PROVE  SharedInv' /\ ClientType' /\ client' \in [Lent -> Clients \cup {None}]
<1>1. i \in Lent /\ i \in AllPlans
  BY DEF CloseShared, Lent, TypeOK
<1>2. PICK k \in Keys : k = Key(i)
  BY <1>1, HeldFacts DEF SharedInv
<1>3. storage.members[k] > 0 /\ storage.objects[k] \in Clients /\ client[i] = storage.objects[k]
  BY <1>1, <1>2, HeldFacts DEF SharedInv, ClientInv
<1>4. /\ storage' = Leave(storage, k) /\ client' = [client EXCEPT ![i] = None]
      /\ open' = IF storage.members[k] = 1 /\ Types[i.type].closes THEN open \ {client[i]} ELSE open
  BY <1>2 DEF CloseShared, LastMember
<1>5. /\ storage' \in [members : [Keys -> Nat], objects : [Keys -> Clients \cup {None}]]
      /\ storage'.members[k] = storage.members[k] - 1
      /\ storage'.objects[k] = IF storage.members[k] = 1 THEN None ELSE storage.objects[k]
      /\ \A x \in Keys : x # k => /\ storage'.members[x] = storage.members[x]
                                  /\ storage'.objects[x] = storage.objects[x]
  BY <1>3, <1>4, LeaveIs
<1>6. client' \in [Lent -> Clients \cup {None}] /\ \A j \in Lent : j # i => client'[j] = client[j]
  BY <1>4 DEF TypeOK
<1>7. ClientType'
  BY <1>4, <1>5 DEF ClientType, TypeOK, Clients, Keys, KeysOf
<1>8. \A j : Key(j)' = Key(j)
  BY SameKeys
<1>9. \A x \in Keys : storage.members[x] = Cardinality(Holders(x)) + lost[x] /\ storage.members[x] \in Nat
                      /\ lost[x] \in Nat /\ IsFiniteSet(Holders(x)) /\ Cardinality(Holders(x)) \in Nat
  BY StorageTypes, HoldersFinite DEF SharedInv, CountInv
<1>10. CountInv'
  <2>1. SUFFICES ASSUME NEW x \in Keys
                 PROVE  /\ storage'.members[x] = Cardinality(Holders(x)') + lost[x]
                        /\ storage'.members[x] = 0 <=> storage'.objects[x] = None
    BY Zenon DEF CountInv, Keys, KeysOf
  <2>2. storage.members[x] = 0 <=> storage.objects[x] = None
    BY DEF SharedInv, CountInv
  <2>3. CASE x # k
    <3>1. Holders(x)' = Holders(x)
      BY <1>2, <1>8, <2>3 DEF Holders
    <3> QED BY <1>5, <1>9, <2>2, <2>3, <3>1
  <2>4. CASE x = k
    <3>1. Holders(x)' = Holders(x) \ {i} /\ i \in Holders(x)
      BY <1>1, <1>2, <1>8, <2>4 DEF Holders
    <3>2. Cardinality(Holders(x)') = Cardinality(Holders(x)) - 1
      BY <1>9, <3>1, FS_RemoveElement
    <3>3. storage'.members[x] = Cardinality(Holders(x)') + lost[x]
      BY <1>5, <1>9, <2>4, <3>2
    <3>4. CASE storage.members[x] = 1
      BY <1>5, <2>4, <3>3, <3>4
    <3>5. CASE storage.members[x] # 1
      BY <1>3, <1>5, <1>9, <2>2, <2>4, <3>3, <3>5
    <3> QED BY <3>4, <3>5
  <2> QED BY <2>3, <2>4
<1>11. ASSUME NEW j \in alive \cap Lent, j # i
       PROVE  storage'.objects[Key(j)] = storage.objects[Key(j)]
  <2>1. Key(j) \in Keys
    BY HeldFacts DEF SharedInv
  <2>2. CASE Key(j) # k
    BY <1>5, <2>1, <2>2
  <2>3. CASE Key(j) = k
    <3>1. i \in Holders(k) /\ j \in Holders(k)
      BY <1>1, <1>2, <2>3 DEF Holders
    <3>2. Cardinality(Holders(k) \ {i}) = Cardinality(Holders(k)) - 1 /\ IsFiniteSet(Holders(k) \ {i})
      BY <1>9, <3>1, FS_RemoveElement
    <3>3. Cardinality(Holders(k) \ {i}) # 0 /\ Cardinality(Holders(k) \ {i}) \in Nat
      BY <1>11, <3>1, <3>2, FS_EmptySet, FS_CardinalityType
    <3>4. storage.members[k] # 1
      BY <1>9, <3>2, <3>3
    <3> QED BY <1>5, <2>3, <3>4
  <2> QED BY <2>2, <2>3
<1>12. ClientInv'
  <2>1. ASSUME NEW j \in alive' \cap Lent PROVE client'[j] = storage'.objects[Key(j)]
    BY <1>6, <1>11 DEF SharedInv, ClientInv
  <2> QED BY <1>8, <2>1, Zenon DEF ClientInv, Lent
<1>13. ObjectInv'
  <2>1. SUFFICES ASSUME NEW x \in Keys, storage'.objects[x] # None
                 PROVE  storage'.objects[x] \in {x} \X Copies
    BY Zenon DEF ObjectInv, Keys, KeysOf
  <2> QED BY <1>5, <2>1 DEF SharedInv, ObjectInv
<1>14. FreshInv'
  BY DEF SharedInv, FreshInv
<1>15. OpenInv'
  <2>1. SUFFICES ASSUME NEW j \in Lent, Types[j.type].global \/ Running(j.pipe), storage'.objects[Key(j)] # None
                 PROVE  storage'.objects[Key(j)] \in open'
    BY <1>8, Zenon DEF OpenInv, Running
  <2>2. j.pipe \in Pipes
    BY Owner DEF Lent
  <2>3. Key(j) \in Keys
    BY <2>1, <2>2, RunningStarted, KeyOfLent
  <2>4. storage'.objects[Key(j)] = storage.objects[Key(j)]
    BY <1>5, <2>1, <2>3
  <2>5. storage.objects[Key(j)] \in open
    BY <2>1, <2>4, Zenon DEF SharedInv, OpenInv
  <2>6. CASE Key(j) = k
    BY <1>4, <1>5, <2>1, <2>4, <2>5, <2>6
  <2>7. CASE Key(j) # k
    <3>1. storage.objects[Key(j)] \in {Key(j)} \X Copies /\ storage.objects[k] \in {k} \X Copies
      <4>1. storage.objects[k] # None
        BY <1>3, SharedAssumption
      <4> QED BY <2>1, <2>3, <2>4, <4>1 DEF SharedInv, ObjectInv
    <3>2. storage.objects[Key(j)] # client[i]
      BY <1>3, <2>7, <3>1
    <3> QED BY <1>4, <2>4, <2>5, <3>2
  <2> QED BY <2>6, <2>7
<1> QED BY <1>6, <1>7, <1>10, <1>12, <1>13, <1>14, <1>15 DEF SharedInv

----------------------------------------------------------------------------
(* The steps, one after another.                                           *)
PlanInv == TypeOK /\ PlaceInv /\ BuiltInv /\ SharedInv

LEMMA TypesAgain ==
  ASSUME BuildType', ClientType', CacheType', CurType', RunType'
  PROVE  TypeOK'
BY Zenon DEF TypeOK, BuildType, ClientType, CacheType, CurType, RunType

LEMMA SameTypes ==
  ASSUME TypeOK
  PROVE  /\ UNCHANGED <<caches, templates>> => CacheType'
         /\ UNCHANGED running => CurType' /\ RunType'
         /\ UNCHANGED <<open, storage>> => ClientType'
         /\ UNCHANGED <<build, faults>> => BuildType'
<1>1. BuildType /\ ClientType /\ CacheType /\ CurType /\ RunType
  BY TypeParts
<1>2. UNCHANGED <<caches, templates>> => CacheType'
  BY <1>1 DEF CacheType
<1>3. UNCHANGED running => CurType' /\ RunType'
  BY <1>1 DEF running, CurType, RunType, Lines
<1>4. UNCHANGED <<open, storage>> => ClientType'
  BY <1>1, Zenon DEF ClientType
<1>5. UNCHANGED <<build, faults>> => BuildType'
  BY <1>1, Zenon DEF build, BuildType, AllPlans, Plans, Planned
<1> QED BY <1>2, <1>3, <1>4, <1>5, Zenon

LEMMA QuietStep ==
  ASSUME PlanInv, UNCHANGED <<build, open, storage>>, faults' \in 0 .. MaxFaults,
         CurType', RunType', CacheType'
  PROVE  PlanInv'
<1>1. /\ stage' = stage /\ starts' = starts /\ at' = at /\ left' = left /\ alive' = alive /\ client' = client
      /\ lost' = lost /\ open' = open /\ storage' = storage
  BY DEF build
<1>2. BuildType /\ ClientType
  BY TypeParts DEF PlanInv
<1>3. BuildType'
  BY <1>1, <1>2, Zenon DEF BuildType, AllPlans, Plans, Planned
<1>4. ClientType'
  BY <1>1, <1>2, Zenon DEF ClientType
<1>5. TypeOK'
  BY <1>3, <1>4, TypesAgain
<1>6. PlaceInv' /\ BuiltInv'
  BY <1>1, SteadyBuilt DEF PlanInv
<1>7. \A q \in Pipes : Running(q)' => Running(q)
  BY <1>1 DEF Running
<1>8. SharedInv'
  BY <1>1, <1>7, SteadyShared DEF PlanInv
<1> QED BY <1>5, <1>6, <1>8 DEF PlanInv

LEMMA StartStep ==
  ASSUME PlanInv, NEW p \in Pipes, Start(p)
  PROVE  PlanInv'
<1>0. BuildType /\ RunType /\ CurType /\ TypeOK
  BY TypeParts DEF PlanInv
<1>1. /\ starts[p] < MaxStarts[p] /\ stage' = [stage EXCEPT ![p] = "building"]
      /\ starts' = [starts EXCEPT ![p] = @ + 1] /\ at' = [at EXCEPT ![p] = <<1, 1>>]
      /\ cur' = [cur EXCEPT ![p] = [l \in Lines(p) |-> Idle]]
      /\ done' = [done EXCEPT ![p] = [l \in Lines(p) |-> 0]] /\ stopping' = stopping \ {p}
      /\ UNCHANGED <<left, alive, client, lost, open, storage, caches, templates, keys, mark, out, faults>>
  BY DEF Start, shared
<1>2. stage' \in [Pipes -> {"stopped", "building", "running", "closing"}]
  BY <1>0, <1>1 DEF BuildType
<1>3. starts' \in [Pipes -> Nat] /\ \A q \in Pipes : starts'[q] <= MaxStarts[q]
  <2>1. MaxStarts[p] \in Nat /\ starts[p] \in Nat
    BY <1>0, SharedAssumption DEF BuildType
  <2> QED BY <1>0, <1>1, <2>1 DEF BuildType
<1>4. at' \in [Pipes -> Nat \X Nat]
  BY <1>0, <1>1 DEF BuildType
<1>5. BuildType'
  BY <1>0, <1>1, <1>2, <1>3, <1>4, Zenon DEF BuildType, AllPlans, Plans, Planned
<1>6. CurType'
  <2>1. [l \in Lines(p) |-> Idle] \in [Lines(p) -> [e : Events[p] \cup {None}, k : Nat, try : Nat]]
    BY DEF Idle
  <2> QED BY <1>0, <1>1, <2>1 DEF CurType, Lines
<1>7. RunType'
  <2>1. [l \in Lines(p) |-> 0] \in [Lines(p) -> Nat]
    OBVIOUS
  <2>2. DOMAIN done' = Pipes /\ \A q \in Pipes : done'[q] \in [Lines(q) -> Nat]
    BY <1>0, <1>1, <2>1 DEF RunType
  <2> QED BY <1>0, <1>1, <2>2 DEF RunType, Lines
<1>8. CacheType' /\ ClientType'
  BY <1>0, <1>1, SameTypes
<1>9. TypeOK'
  BY <1>5, <1>6, <1>7, <1>8, TypesAgain
<1> QED BY <1>9, StartBuilt, StartShared DEF PlanInv

(* Building one plugin more.                                               *)
LEMMA InitTypes ==
  ASSUME TypeOK, NEW i \in AllPlans, InitPlugin(i)
  PROVE  CacheType'
<1>1. CacheType
  BY TypeParts
<1>2. CASE InitShared(i) \/ InitPlain(i)
  BY <1>1, <1>2, SameTypes DEF InitShared, InitPlain, shared
<1>3. CASE InitStats(i)
  <2>1. PICK k : caches' = [caches EXCEPT ![k] = NewCache(caches[k])]
    BY <1>3 DEF InitStats
  <2>2. k \in CacheKeys => NewCache(caches[k]) \in CacheSet
    BY <1>1, CacheValues DEF CacheType, CacheSet
  <2>3. caches' \in [CacheKeys -> CacheSet]
    BY <1>1, <2>1, <2>2, CachePut
  <2> QED BY <1>1, <1>3, <2>3 DEF InitStats, CacheType, CacheSet
<1>4. CASE InitTemplates(i)
  BY <1>1, <1>4 DEF InitTemplates, CacheType, Reg
<1> QED BY <1>2, <1>3, <1>4 DEF InitPlugin

LEMMA BuildNextStep ==
  ASSUME PlanInv, NEW p \in Pipes, BuildNext(p)
  PROVE  PlanInv'
<1>0. BuildType /\ TypeOK /\ PlaceInv /\ BuiltInv /\ SharedInv
  BY TypeParts DEF PlanInv
<1>1. /\ Building(p) /\ InitPlugin(Current(p)) /\ Advance(p) /\ alive' = alive \cup {Current(p)}
      /\ UNCHANGED <<stage, starts, left, lost, running, faults>>
  BY DEF BuildNext
<1>2. PICK i \in AllPlans : i = Current(p)
  BY <1>0, <1>1, NextFacts DEF Building
<1>3. PlaceInv' /\ BuiltInv' /\ i \notin alive
  <2>1. PlaceInv'
    BY <1>0, <1>1, AdvancePlace
  <2>2. BuiltInv' /\ Current(p) \notin alive
    BY <1>0, <1>1, AdvanceBuilt
  <2> QED BY <1>2, <2>1, <2>2
<1>4. at' \in [Pipes -> Nat \X Nat]
  BY <1>0, <1>1, AdvanceIs DEF Building
<1>5. CacheType' /\ CurType' /\ RunType'
  BY <1>0, <1>1, <1>2, InitTypes, SameTypes
<1>6. client' \in [Lent -> Clients \cup {None}] /\ ClientType' /\ SharedInv'
  <2>1. CASE InitShared(i)
    <3>1. i \in Lent
      BY <2>1 DEF InitShared, Lent
    <3>2. i.pipe = p /\ starts[i.pipe] > 0
      BY <1>0, <1>1, <1>2, NextFacts DEF Building, PlaceInv
    <3>3. PICK k \in Keys : k = Key(i)
      BY <1>0, <3>1, <3>2, KeyOfLent
    <3>4. Join(i) /\ open' = Opened(i)
      BY <2>1 DEF InitShared
    <3>5. SharedInv'
      BY <1>0, <1>1, <1>2, <1>3, <3>1, <3>3, <3>4, JoinShared
    <3>6. /\ storage' \in [members : [Keys -> Nat], objects : [Keys -> Clients \cup {None}]]
          /\ client' \in [Lent -> Clients \cup {None}] /\ storage'.objects[k] \in Clients
          /\ Opened(i) = open \/ Opened(i) = open \cup {storage'.objects[k]}
      BY <1>0, <3>1, <3>3, <3>4, JoinIs
    <3>7. open' \subseteq Clients
      BY <1>0, <3>4, <3>6 DEF TypeOK
    <3>8. ClientType'
      BY <3>6, <3>7, Zenon DEF ClientType, Clients, Keys, KeysOf
    <3> QED BY <3>5, <3>6, <3>8
  <2>2. CASE InitStats(i) \/ InitTemplates(i) \/ InitPlain(i)
    <3>1. i \notin Lent /\ client' = client /\ open' = open /\ storage' = storage
      BY <2>2 DEF InitStats, InitTemplates, InitPlain, shared, Lent
    <3>2. alive' \cap Lent = alive \cap Lent
      BY <1>1, <1>2, <3>1
    <3>3. \A q \in Pipes : Running(q)' => Running(q)
      BY <1>1 DEF Running
    <3>4. SharedInv'
      BY <1>0, <1>1, <3>1, <3>2, <3>3, SteadyShared
    <3> QED BY <1>0, <3>1, <3>4, SameTypes DEF BuildType
  <2> QED BY <1>1, <1>2, <2>1, <2>2 DEF InitPlugin
<1>7. alive' \subseteq AllPlans
  BY <1>0, <1>1, <1>2 DEF BuildType
<1>8. BuildType'
  BY <1>0, <1>1, <1>4, <1>6, <1>7, Zenon DEF BuildType, AllPlans, Plans, Planned, Lent, Clients, Keys, KeysOf
<1>9. TypeOK'
  BY <1>5, <1>6, <1>8, TypesAgain
<1> QED BY <1>3, <1>6, <1>9 DEF PlanInv

(* A build that fails.                                                     *)
LEMMA GiveUpTypes ==
  ASSUME PlanInv, NEW p \in Pipes, Building(p), NEW others \in SUBSET Lent, IsFiniteSet(others), others \cap alive = {},
         GiveUp(p, others), Fault, client' \in [Lent -> Clients \cup {None}]
  PROVE  PlaceInv' /\ BuiltInv' /\ BuildType' /\ CurType' /\ RunType'
<1>0. BuildType /\ TypeOK /\ PlaceInv /\ BuiltInv
  BY TypeParts DEF PlanInv
<1>1. /\ stage' = [stage EXCEPT ![p] = "closing"] /\ left' = [left EXCEPT ![p] = ToClose[p][at[p][1] - 1]]
      /\ alive' = alive \ Pending(p) /\ UNCHANGED <<starts, at, running>>
      /\ lost' = [k \in Keys |-> lost[k] + Cardinality({i \in (Pending(p) \cap Lent) \cup others : Key(i) = k})]
  BY DEF GiveUp
<1>2. stage[p] \in {"building", "running"}
  BY DEF Building
<1>3. PlaceInv' /\ BuiltInv' /\ ToClose[p][at[p][1] - 1] \in Seq(AllPlans)
  BY <1>0, <1>1, <1>2, ClosingBuilt
<1>4. lost' \in [Keys -> Nat]
  <2>1. PICK P \in SUBSET alive : P = Pending(p)
    BY <1>0, PendingAlive
  <2> QED BY <1>0, <1>1, <2>1, LostIs
<1>5. /\ stage' \in [Pipes -> {"stopped", "building", "running", "closing"}]
      /\ left' \in [Pipes -> Seq(AllPlans)] /\ alive' \subseteq AllPlans
  BY <1>0, <1>1, <1>3 DEF BuildType
<1>6. faults' \in 0 .. MaxFaults
  BY <1>0, SharedAssumption DEF BuildType, Fault
<1>7. BuildType'
  BY <1>0, <1>1, <1>4, <1>5, <1>6, Zenon DEF BuildType, AllPlans, Plans, Planned, Lent, Clients, Keys, KeysOf
<1> QED BY <1>0, <1>1, <1>3, <1>7, SameTypes

LEMMA RefusedStep ==
  ASSUME PlanInv, NEW p \in Pipes, InitRefused(p) \/ StatsRefused(p)
  PROVE  PlanInv'
<1>0. BuildType /\ CacheType /\ TypeOK /\ PlaceInv /\ BuiltInv /\ SharedInv
  BY TypeParts DEF PlanInv
<1>1. /\ Building(p) /\ Fault /\ GiveUp(p, {}) /\ client' = client /\ open' = open /\ storage' = storage
      /\ templates' = templates
  BY DEF InitRefused, StatsRefused, shared
<1>2. {} \in SUBSET Lent /\ IsFiniteSet({}) /\ {} \cap alive = {} /\ client' \in [Lent -> Clients \cup {None}]
  BY <1>0, <1>1, FS_EmptySet DEF BuildType
<1>3. PlaceInv' /\ BuiltInv' /\ BuildType' /\ CurType' /\ RunType'
  BY <1>1, <1>2, GiveUpTypes, Zenon
<1>4. ClientType'
  BY <1>0, <1>1, SameTypes
<1>5. CacheType'
  <2>1. CASE InitRefused(p)
    BY <1>0, <2>1, SameTypes DEF InitRefused, shared
  <2>2. CASE StatsRefused(p)
    <3>1. PICK k : caches' = [caches EXCEPT ![k] = NewCache(caches[k])]
      BY <2>2 DEF StatsRefused
    <3>2. k \in CacheKeys => NewCache(caches[k]) \in CacheSet
      BY <1>0, CacheValues DEF CacheType, CacheSet
    <3>3. caches' \in [CacheKeys -> CacheSet]
      BY <1>0, <3>1, <3>2, CachePut
    <3> QED BY <1>0, <1>1, <3>3 DEF CacheType, CacheSet
  <2> QED BY <2>1, <2>2
<1>6. TypeOK'
  BY <1>3, <1>4, <1>5, TypesAgain
<1>7. SharedInv'
  BY <1>0, <1>1, RefusedShared
<1> QED BY <1>3, <1>6, <1>7 DEF PlanInv

LEMMA PingStep ==
  ASSUME PlanInv, NEW p \in Pipes, PingFails(p)
  PROVE  PlanInv'
<1>0. BuildType /\ TypeOK /\ PlaceInv /\ BuiltInv /\ SharedInv
  BY TypeParts DEF PlanInv
<1>1. PICK i \in AllPlans : i = Current(p)
  BY <1>0, NextFacts DEF PingFails, Building
<1>2. /\ Building(p) /\ Step(i) = "ping" /\ Fault /\ Join(i) /\ open' = Opened(i) \ {client'[i]}
      /\ GiveUp(p, {i}) /\ UNCHANGED <<caches, templates>>
  BY <1>1 DEF PingFails
<1>3. i \in Lent
  BY <1>2 DEF Lent
<1>4. i.pipe = p /\ i \notin alive /\ starts[i.pipe] > 0
  <2>1. i.pipe = p /\ i \notin Pending(p) /\ i \notin Planned(p, at[p][1] - 1)
    BY <1>0, <1>1, <1>2, NextFacts DEF Building
  <2>2. Mine(p) = Planned(p, at[p][1] - 1) \cup Pending(p)
    BY <1>0, <1>2 DEF Building, BuiltInv
  <2> QED BY <1>0, <1>2, <2>1, <2>2 DEF Mine, PlaceInv, Building
<1>5. PICK k \in Keys : k = Key(i)
  BY <1>0, <1>3, <1>4, KeyOfLent
<1>6. /\ storage' \in [members : [Keys -> Nat], objects : [Keys -> Clients \cup {None}]]
      /\ client' \in [Lent -> Clients \cup {None}] /\ storage'.objects[k] \in Clients
      /\ Opened(i) = open \/ Opened(i) = open \cup {storage'.objects[k]}
  BY <1>0, <1>2, <1>3, <1>5, JoinIs
<1>7. open' \subseteq Clients
  BY <1>0, <1>2, <1>6 DEF TypeOK
<1>8. ClientType'
  BY <1>6, <1>7, Zenon DEF ClientType, Clients, Keys, KeysOf
<1>9. {i} \in SUBSET Lent /\ IsFiniteSet({i}) /\ {i} \cap alive = {}
  BY <1>3, <1>4, FS_Singleton
<1>10. PlaceInv' /\ BuiltInv' /\ BuildType' /\ CurType' /\ RunType'
  BY <1>2, <1>6, <1>9, GiveUpTypes, Zenon
<1>11. CacheType'
  BY <1>0, <1>2, SameTypes
<1>12. TypeOK'
  BY <1>8, <1>10, <1>11, TypesAgain
<1>13. SharedInv'
  BY <1>0, PingShared
<1> QED BY <1>10, <1>12, <1>13 DEF PlanInv

(* A pipeline runs, is told to end, or has been closed.                    *)
LEMMA StageStep ==
  ASSUME PlanInv, NEW p \in Pipes, Run(p) \/ NotAcquired(p) \/ RunEnds(p) \/ CloseEnds(p)
  PROVE  PlanInv'
<1>0. BuildType /\ TypeOK /\ PlaceInv /\ BuiltInv /\ SharedInv
  BY TypeParts DEF PlanInv
<1>1. UNCHANGED <<starts, at, alive, client, lost, open, storage, caches, templates, running>>
  BY DEF Run, NotAcquired, RunEnds, CloseEnds, shared
<1>2. faults' \in 0 .. MaxFaults
  BY <1>0, SharedAssumption DEF BuildType, Fault, Run, NotAcquired, RunEnds, CloseEnds
<1>3. /\ PlaceInv' /\ BuiltInv' /\ left' \in [Pipes -> Seq(AllPlans)]
      /\ stage' \in [Pipes -> {"stopped", "building", "running", "closing"}]
      /\ \A q \in Pipes : Running(q)' => Running(q)
  <2>1. CASE Run(p)
    <3>1. PlaceInv' /\ BuiltInv'
      BY <1>0, <2>1, RunBuilt
    <3>2. stage' = [stage EXCEPT ![p] = "running"] /\ left' = left /\ stage[p] = "building"
      BY <2>1 DEF Run, Built
    <3> QED BY <1>0, <3>1, <3>2 DEF BuildType, Running
  <2>2. CASE CloseEnds(p)
    <3>1. PlaceInv' /\ BuiltInv'
      BY <1>0, <2>2, ClosedBuilt
    <3>2. stage' = [stage EXCEPT ![p] = "stopped"] /\ left' = left
      BY <2>2 DEF CloseEnds
    <3> QED BY <1>0, <3>1, <3>2 DEF BuildType, Running
  <2>3. CASE NotAcquired(p) \/ RunEnds(p)
    <3>1. /\ stage[p] \in {"building", "running"} /\ stage' = [stage EXCEPT ![p] = "closing"]
          /\ left' = [left EXCEPT ![p] = ToClose[p][at[p][1] - 1]]
      BY <2>3 DEF NotAcquired, RunEnds, Built
    <3>2. at[p][1] > Len(Plans[p])
      BY <1>0, <2>3 DEF NotAcquired, RunEnds, Built, PlaceInv
    <3>3. Pending(p) = {}
      BY <1>0, <3>2 DEF PlaceInv, Pending
    <3>4. alive' = alive \ Pending(p)
      BY <1>1, <3>3
    <3>5. PlaceInv' /\ BuiltInv' /\ ToClose[p][at[p][1] - 1] \in Seq(AllPlans)
      BY <1>0, <1>1, <3>1, <3>4, ClosingBuilt
    <3> QED BY <1>0, <3>1, <3>5, GivingUpRuns DEF BuildType
  <2> QED BY <2>1, <2>2, <2>3
<1>4. BuildType'
  BY <1>0, <1>1, <1>2, <1>3, Zenon DEF BuildType, AllPlans, Plans, Planned
<1>5. TypeOK'
  BY <1>0, <1>1, <1>4, SameTypes, TypesAgain
<1>6. SharedInv'
  BY <1>0, <1>1, <1>3, SteadyShared
<1> QED BY <1>3, <1>5, <1>6 DEF PlanInv

LEMMA CloseNextStep ==
  ASSUME PlanInv, NEW p \in Pipes, CloseNext(p)
  PROVE  PlanInv'
<1>0. BuildType /\ CacheType /\ TypeOK /\ PlaceInv /\ BuiltInv /\ SharedInv
  BY TypeParts DEF PlanInv
<1>1. /\ PlaceInv' /\ BuiltInv' /\ left' \in [Pipes -> Seq(AllPlans)]
      /\ Head(left[p]) \in alive
  BY <1>0, CloseBuilt
<1>2. PICK i \in alive : i = Head(left[p])
  BY <1>1
<1>3. ClosePlugin(i) /\ alive' = alive \ {i} /\ UNCHANGED <<stage, starts, at, lost, running, faults>>
  BY <1>2 DEF CloseNext
<1>4. client' \in [Lent -> Clients \cup {None}] /\ ClientType' /\ SharedInv'
  <2>1. CASE CloseShared(i)
    BY <1>0, <1>3, <2>1, LeaveShared
  <2>2. CASE CloseStats(i) \/ CloseTemplates(i) \/ ClosePlain(i)
    <3>1. i \notin Lent /\ client' = client /\ open' = open /\ storage' = storage
      BY <2>2 DEF CloseStats, CloseTemplates, ClosePlain, shared, Lent
    <3>2. alive' \cap Lent = alive \cap Lent
      BY <1>3, <3>1
    <3>3. \A q \in Pipes : Running(q)' => Running(q)
      BY <1>3 DEF Running
    <3>4. SharedInv'
      BY <1>0, <1>3, <3>1, <3>2, <3>3, SteadyShared
    <3> QED BY <1>0, <3>1, <3>4, SameTypes DEF BuildType
  <2> QED BY <1>3, <2>1, <2>2 DEF ClosePlugin
<1>5. CacheType'
  <2>1. CASE CloseShared(i) \/ ClosePlain(i)
    BY <1>0, <2>1, SameTypes DEF CloseShared, ClosePlain, shared
  <2>2. CASE CloseStats(i)
    <3>1. PICK k : caches' = [caches EXCEPT ![k] = CacheClear(caches[k])]
      BY <2>2 DEF CloseStats
    <3>2. k \in CacheKeys => CacheClear(caches[k]) \in CacheSet
      BY <1>0, CacheValues DEF CacheType, CacheSet
    <3>3. caches' \in [CacheKeys -> CacheSet]
      BY <1>0, <3>1, <3>2, CachePut
    <3> QED BY <1>0, <2>2, <3>3 DEF CloseStats, CacheType, CacheSet
  <2>3. CASE CloseTemplates(i)
    <3>1. caches' = caches /\ templates' = LeaveTemplates(templates)
      BY <2>3 DEF CloseTemplates
    <3>2. PICK u \in Nat, m \in SUBSET {KeyOf[e] : e \in AllEvents} : templates = [u |-> u, m |-> m]
      BY <1>0 DEF CacheType
    <3>3. [u |-> 0, m |-> {}] \in [u : Nat, m : SUBSET {KeyOf[e] : e \in AllEvents}]
      OBVIOUS
    <3>4. ~(u - 1 <= 0) => [templates EXCEPT !.u = @ - 1] = [u |-> u - 1, m |-> m] /\ u - 1 \in Nat
      BY <3>2
    <3>5. templates.u = u
      BY <3>2
    <3>6. CASE u - 1 <= 0
      <4>1. templates' = [u |-> 0, m |-> {}]
        BY <3>1, <3>5, <3>6, Zenon DEF LeaveTemplates, NoTemplates
      <4>2. templates' \in [u : Nat, m : SUBSET {KeyOf[e] : e \in AllEvents}]
        BY <3>3, <4>1
      <4> QED BY <1>0, <3>1, <4>2 DEF CacheType
    <3>7. CASE ~(u - 1 <= 0)
      <4>1. templates' = [u |-> u - 1, m |-> m] /\ u - 1 \in Nat
        BY <3>1, <3>4, <3>5, <3>7, Zenon DEF LeaveTemplates
      <4> QED BY <1>0, <3>1, <3>2, <4>1 DEF CacheType
    <3> QED BY <3>6, <3>7
  <2> QED BY <1>3, <2>1, <2>2, <2>3 DEF ClosePlugin
<1>6. alive' \subseteq AllPlans
  BY <1>0, <1>3 DEF BuildType
<1>7. BuildType'
  BY <1>0, <1>1, <1>3, <1>4, <1>6, Zenon DEF BuildType, AllPlans, Plans, Planned, Lent, Clients, Keys, KeysOf
<1>8. TypeOK'
  BY <1>0, <1>3, <1>4, <1>5, <1>7, SameTypes, TypesAgain
<1> QED BY <1>1, <1>4, <1>8 DEF PlanInv

LEMMA LineStepStep ==
  ASSUME PlanInv, NEW p \in Pipes, NEW l \in Lines(p), LineStep(p, l)
  PROVE  PlanInv'
<1>0. BuildType /\ TypeOK
  BY TypeParts DEF PlanInv
<1>1. UNCHANGED <<build, open, storage>>
  BY DEF LineStep, SetKey, CallFails, AnswerLost, Call, Render, Observe, ProcEnds, shared
<1>2. faults' \in 0 .. MaxFaults
  BY <1>0, SharedAssumption
     DEF BuildType, Fault, LineStep, SetKey, CallFails, AnswerLost, Call, Render, Observe, ProcEnds
<1> QED BY <1>0, <1>1, <1>2, LineTypes, QuietStep

LEMMA TickStep ==
  ASSUME PlanInv, NEW p \in Pipes, NEW l \in Lines(p), Tick(p, l)
  PROVE  PlanInv'
<1>0. BuildType /\ CacheType /\ TypeOK
  BY TypeParts DEF PlanInv
<1>1. UNCHANGED <<build, open, storage, running, faults, templates>>
  BY DEF Tick
<1>2. PICK k : caches' = [caches EXCEPT ![k] = CacheFlush(@)]
  BY DEF Tick, Flush
<1>3. caches' \in [CacheKeys -> CacheSet]
  BY <1>0, <1>2, FlushedType
<1>4. CacheType'
  BY <1>0, <1>1, <1>3 DEF CacheType, CacheSet
<1>5. faults' \in 0 .. MaxFaults
  BY <1>0, <1>1 DEF BuildType
<1> QED BY <1>0, <1>1, <1>4, <1>5, SameTypes, QuietStep

LEMMA StopStep ==
  ASSUME PlanInv, NEW p \in Pipes, Stop(p)
  PROVE  PlanInv'
<1>0. BuildType /\ CurType /\ RunType /\ TypeOK
  BY TypeParts DEF PlanInv
<1>1. UNCHANGED <<build, shared, keys, cur, done, mark, out, faults>> /\ stopping' = stopping \cup {p}
  BY DEF Stop
<1>2. CurType' /\ RunType'
  BY <1>0, <1>1 DEF CurType, RunType, Lines
<1>3. UNCHANGED <<open, storage, caches, templates>>
  BY <1>1 DEF shared
<1>4. faults' \in 0 .. MaxFaults
  BY <1>0, <1>1 DEF BuildType
<1> QED BY <1>0, <1>1, <1>2, <1>3, <1>4, SameTypes, QuietStep

LEMMA TakeStep ==
  ASSUME PlanInv, NEW p \in Pipes, NEW l \in Lines(p), NEW e \in Events[p], Take(p, l, e)
  PROVE  PlanInv'
<1>0. BuildType /\ CurType /\ RunType /\ TypeOK
  BY TypeParts DEF PlanInv
<1> DEFINE next == [e |-> e, k |-> 1, try |-> 0]
<1>1. UNCHANGED <<build, shared, keys, done, stopping, mark, out, faults>> /\ cur' = [cur EXCEPT ![p][l] = next]
  BY DEF Take
<1>2. next \in [e : Events[p] \cup {None}, k : Nat, try : Nat]
  OBVIOUS
<1>3. CurType'
  <2> HIDE DEF next
  <2> QED BY <1>0, <1>1, <1>2, CurTypeKeeps
<1>4. RunType'
  BY <1>0, <1>1 DEF RunType, Lines
<1>5. UNCHANGED <<open, storage, caches, templates>>
  BY <1>1 DEF shared
<1>6. faults' \in 0 .. MaxFaults
  BY <1>0, <1>1 DEF BuildType
<1> QED BY <1>0, <1>1, <1>3, <1>4, <1>5, <1>6, SameTypes, QuietStep

LEMMA PlanStep ==
  ASSUME PlanInv, [Next]_vars
  PROVE  PlanInv'
<1>1. CASE UNCHANGED vars
  <2>1. UNCHANGED <<build, open, storage, caches, templates, running, faults>>
    BY <1>1 DEF vars, shared
  <2>2. TypeOK /\ faults' \in 0 .. MaxFaults
    BY <2>1 DEF PlanInv, TypeOK
  <2> QED BY <2>1, <2>2, SameTypes, QuietStep
<1>2. ASSUME NEW p \in Pipes, EngineStep(p) PROVE PlanInv'
  BY <1>2, BuildNextStep, RefusedStep, PingStep, StageStep, CloseNextStep DEF EngineStep
<1>3. ASSUME NEW p \in Pipes, Start(p) \/ Stop(p) PROVE PlanInv'
  BY <1>3, StartStep, StopStep
<1>4. ASSUME NEW p \in Pipes, NEW l \in Lines(p), LineStep(p, l) \/ Tick(p, l) PROVE PlanInv'
  BY <1>4, LineStepStep, TickStep
<1>5. ASSUME NEW p \in Pipes, NEW l \in Lines(p), NEW e \in Events[p], Take(p, l, e) PROVE PlanInv'
  BY <1>5, TakeStep
<1> QED BY <1>1, <1>2, <1>3, <1>4, <1>5 DEF Next
----------------------------------------------------------------------------
(* Clients that are open are in a storage, if every type of plugin closes  *)
(* the client when it is the last to leave.                                *)
ClosedByLast == \A i \in Lent : Types[i.type].closes

LEMMA HeldKeys ==
  ASSUME TypeOK, NEW c \in open
  PROVE  c \in Clients /\ c[1] \in Keys /\ c # None
<1>1. c \in Clients
  BY DEF TypeOK
<1>2. c[1] \in Keys
  BY <1>1 DEF Clients
<1>3. c # None
  BY <1>1, SharedAssumption
<1> QED BY <1>1, <1>2, <1>3

(* A client whose key is not k stays where it is.                          *)
LEMMA HeldElsewhere ==
  ASSUME TypeOK, HeldInv, NEW k \in Keys, NEW c \in open, c[1] # k,
         \A x \in Keys : x # k => storage'.objects[x] = storage.objects[x]
  PROVE  storage'.objects[c[1]] = c
BY HeldKeys DEF HeldInv

(* No client is opened.                                                    *)
LEMMA SteadyHeld ==
  ASSUME HeldInv, open' \subseteq open, storage' = storage
  PROVE  HeldInv'
BY DEF HeldInv

(* A client that is opened is stored.                                      *)
LEMMA JoinHeld ==
  ASSUME TypeOK, HeldInv, NEW i \in Lent, NEW k \in Keys, k = Key(i), Join(i)
  PROVE  \A c \in Opened(i) : storage'.objects[c[1]] = c
<1>1. /\ storage.objects[k] # None => storage'.objects[k] = storage.objects[k] /\ Opened(i) = open
      /\ storage.objects[k] = None =>
           /\ storage'.objects[k] \in {k} \X Copies /\ Opened(i) = open \cup {storage'.objects[k]}
      /\ \A x \in Keys : x # k => storage'.objects[x] = storage.objects[x]
  BY JoinIs
<1>2. ASSUME NEW c \in open PROVE storage'.objects[c[1]] = c
  <2>1. CASE c[1] # k
    BY <1>1, <1>2, <2>1, HeldElsewhere
  <2>2. CASE c[1] = k
    <3>1. storage.objects[k] = c /\ c # None
      BY <2>2, HeldKeys DEF HeldInv
    <3> QED BY <1>1, <2>2, <3>1
  <2> QED BY <2>1, <2>2
<1>3. ASSUME NEW c \in Opened(i), c \notin open PROVE storage'.objects[c[1]] = c
  <2>1. c = storage'.objects[k] /\ c \in {k} \X Copies
    BY <1>1, <1>3
  <2> QED BY <2>1
<1> QED BY <1>2, <1>3

(* The last to leave takes the client out of the storage and closes it.    *)
LEMMA LeaveHeld ==
  ASSUME ClosedByLast, TypeOK, PlaceInv, BuiltInv, SharedInv, HeldInv, NEW i \in alive, CloseShared(i)
  PROVE  HeldInv'
<1>1. i \in Lent
  BY DEF CloseShared, Lent, TypeOK
<1>2. PICK k \in Keys : k = Key(i)
  BY <1>1, HeldFacts DEF SharedInv
<1>3. storage.members[k] > 0 /\ client[i] = storage.objects[k]
  BY <1>1, <1>2, HeldFacts DEF SharedInv, ClientInv
<1>4. /\ storage' = Leave(storage, k)
      /\ open' = IF storage.members[k] = 1 THEN open \ {client[i]} ELSE open
  BY <1>1, <1>2 DEF CloseShared, LastMember, ClosedByLast
<1>5. /\ storage'.objects[k] = IF storage.members[k] = 1 THEN None ELSE storage.objects[k]
      /\ \A x \in Keys : x # k => storage'.objects[x] = storage.objects[x]
  BY <1>3, <1>4, LeaveIs
<1>6. ASSUME NEW c \in open' PROVE storage'.objects[c[1]] = c
  <2>1. c \in open
    BY <1>4, <1>6
  <2>2. CASE c[1] # k
    BY <1>5, <2>1, <2>2, HeldElsewhere
  <2>3. CASE c[1] = k
    <3>1. storage.objects[k] = c
      BY <2>1, <2>3 DEF HeldInv
    <3>2. storage.members[k] # 1
      BY <1>3, <1>4, <1>6, <3>1
    <3> QED BY <1>5, <2>3, <3>1, <3>2
  <2> QED BY <2>2, <2>3
<1> QED BY <1>6 DEF HeldInv

LEMMA EngineHeld ==
  ASSUME ClosedByLast, PlanInv, HeldInv, NEW p \in Pipes, EngineStep(p)
  PROVE  HeldInv'
<1>0. TypeOK /\ PlaceInv /\ BuiltInv /\ SharedInv
  BY DEF PlanInv
<1>1. ASSUME NEW i \in Lent, Join(i), i = Current(p), Building(p)
      PROVE  \A c \in Opened(i) : storage'.objects[c[1]] = c
  <2>1. i.pipe = p /\ starts[i.pipe] > 0
    BY <1>0, <1>1, NextFacts DEF Building, PlaceInv
  <2>2. PICK k \in Keys : k = Key(i)
    BY <1>0, <2>1, KeyOfLent
  <2> QED BY <1>0, <1>1, <2>2, JoinHeld
<1>2. CASE BuildNext(p)
  <2>1. PICK i \in AllPlans : i = Current(p)
    BY <1>0, <1>2, NextFacts DEF BuildNext, Building
  <2>2. Building(p) /\ InitPlugin(i)
    BY <1>2, <2>1 DEF BuildNext
  <2>3. CASE InitShared(i)
    <3>1. i \in Lent /\ Join(i) /\ open' = Opened(i)
      BY <2>3 DEF InitShared, Lent
    <3> QED BY <1>1, <2>1, <2>2, <3>1 DEF HeldInv
  <2>4. CASE InitStats(i) \/ InitTemplates(i) \/ InitPlain(i)
    BY <2>4, SteadyHeld DEF InitStats, InitTemplates, InitPlain, shared
  <2> QED BY <2>2, <2>3, <2>4 DEF InitPlugin
<1>3. CASE PingFails(p)
  <2>1. PICK i \in AllPlans : i = Current(p)
    BY <1>0, <1>3, NextFacts DEF PingFails, Building
  <2>2. Building(p) /\ i \in Lent /\ Join(i) /\ open' \subseteq Opened(i)
    BY <1>3, <2>1 DEF PingFails, Lent
  <2> QED BY <1>1, <2>1, <2>2 DEF HeldInv
<1>4. CASE CloseNext(p)
  <2>1. PICK i \in alive : i = Head(left[p])
    BY <1>0, <1>4, CloseBuilt
  <2>2. CASE CloseShared(i)
    BY <1>0, <2>2, LeaveHeld
  <2>3. CASE CloseStats(i) \/ CloseTemplates(i) \/ ClosePlain(i)
    BY <2>3, SteadyHeld DEF CloseStats, CloseTemplates, ClosePlain, shared
  <2> QED BY <1>4, <2>1, <2>2, <2>3 DEF CloseNext, ClosePlugin
<1>5. CASE InitRefused(p) \/ StatsRefused(p) \/ Run(p) \/ NotAcquired(p) \/ RunEnds(p) \/ CloseEnds(p)
  BY <1>5, SteadyHeld DEF InitRefused, StatsRefused, Run, NotAcquired, RunEnds, CloseEnds, shared
<1> QED BY <1>2, <1>3, <1>4, <1>5 DEF EngineStep

LEMMA HeldStep ==
  ASSUME ClosedByLast, PlanInv, HeldInv, [Next]_vars
  PROVE  HeldInv'
<1>1. CASE UNCHANGED vars
  BY <1>1, SteadyHeld DEF vars, shared
<1>2. ASSUME NEW p \in Pipes, Start(p) \/ Stop(p) PROVE HeldInv'
  BY <1>2, SteadyHeld DEF Start, Stop, shared
<1>3. ASSUME NEW p \in Pipes, EngineStep(p) PROVE HeldInv'
  BY <1>3, EngineHeld
<1>4. ASSUME NEW p \in Pipes, NEW l \in Lines(p), LineStep(p, l) \/ Tick(p, l) PROVE HeldInv'
  BY <1>4, SteadyHeld
     DEF LineStep, SetKey, CallFails, AnswerLost, Call, Render, Observe, ProcEnds, Tick, shared
<1>5. ASSUME NEW p \in Pipes, NEW l \in Lines(p), NEW e \in Events[p], Take(p, l, e) PROVE HeldInv'
  BY <1>5, SteadyHeld DEF Take, shared
<1> QED BY <1>1, <1>2, <1>3, <1>4, <1>5 DEF Next
----------------------------------------------------------------------------
(* In the beginning nobody has anything.                                   *)
LEMMA InitPlan == Init => PlanInv
<1> SUFFICES ASSUME Init PROVE PlanInv
  OBVIOUS
<1>1. /\ stage = [p \in Pipes |-> "stopped"] /\ starts = [p \in Pipes |-> 0]
      /\ at = [p \in Pipes |-> <<1, 1>>] /\ left = [p \in Pipes |-> <<>>]
      /\ alive = {} /\ client = [i \in Lent |-> None] /\ open = {}
      /\ storage = NewStorage(Keys) /\ lost = [k \in Keys |-> 0] /\ faults = 0
  BY DEF Init
<1>2. BuildType
  <2>1. <<1, 1>> \in Nat \X Nat /\ <<>> \in Seq(AllPlans)
    OBVIOUS
  <2> QED BY <1>1, <2>1, SharedAssumption DEF BuildType
<1>3. /\ storage.members = [k \in Keys |-> 0] /\ storage.objects = [k \in Keys |-> None]
      /\ storage \in [members : [Keys -> Nat], objects : [Keys -> Clients \cup {None}]]
  BY <1>1 DEF NewStorage
<1>4. ClientType
  BY <1>1, <1>3 DEF ClientType
<1>5. CacheType
  <2>1. caches = [k \in CacheKeys |-> NoCache] /\ templates = NoTemplates
    BY DEF Init
  <2>2. NoCache \in [writers : Nat, syncPoint : Nat, fresh : SUBSET AllEvents]
    BY DEF NoCache
  <2>3. NoTemplates \in [u : Nat, m : SUBSET {KeyOf[e] : e \in AllEvents}]
    BY DEF NoTemplates
  <2> QED BY <2>1, <2>2, <2>3 DEF CacheType
<1>6. CurType
  <2>1. cur = [p \in Pipes |-> [l \in Lines(p) |-> Idle]]
    BY DEF Init
  <2>2. \A p \in Pipes : Idle \in [e : Events[p] \cup {None}, k : Nat, try : Nat]
    BY DEF Idle
  <2> QED BY <2>1, <2>2 DEF CurType
<1>7. RunType
  BY DEF Init, RunType
<1>8. PlaceInv
  <2>1. \A p \in Pipes : at[p][1] = 1 /\ at[p][2] = 1 /\ stage[p] = "stopped"
    BY <1>1
  <2>2. ASSUME NEW p \in Pipes
        PROVE  1 \in 1 .. Len(Plans[p]) + 1 /\ (1 <= Len(Plans[p]) => 1 \in 1 .. Len(Plans[p][1]))
    BY PlanFacts
  <2> QED BY <2>1, <2>2 DEF PlaceInv, Group
<1>9. BuiltInv
  <2>1. \A p \in Pipes : stage[p] = "stopped"
    BY <1>1
  <2>2. IsFiniteSet(alive)
    BY <1>1, FS_EmptySet
  <2> QED BY <1>1, <2>1, <2>2 DEF BuiltInv, Mine
<1>10. CountInv
  <2>1. \A k \in Keys : Holders(k) = {}
    BY <1>1 DEF Holders
  <2>2. Cardinality({}) = 0
    BY FS_EmptySet
  <2>3. ASSUME NEW k \in Keys
        PROVE  /\ storage.members[k] = Cardinality(Holders(k)) + lost[k]
               /\ storage.members[k] = 0 <=> storage.objects[k] = None
    <3>1. storage.members[k] = 0 /\ lost[k] = 0 /\ storage.objects[k] = None
      BY <1>1, <1>3
    <3>2. Cardinality(Holders(k)) = 0
      BY <2>1, <2>2
    <3> QED BY <3>1, <3>2
  <2> QED BY <2>3 DEF CountInv
<1>11. ClientInv /\ ObjectInv
  BY <1>1, <1>3 DEF ClientInv, ObjectInv
<1>12. FreshInv
  <2>1. SUFFICES ASSUME NEW i \in Lent, NEW n \in 1 .. MaxStarts[i.pipe] PROVE lost[KeyIn(i, n)] = 0
    BY DEF FreshInv
  <2>2. KeyIn(i, n) \in Keys
    BY DEF Keys, KeysOf
  <2> QED BY <1>1, <2>2
<1>13. OpenInv
  <2>1. SUFFICES ASSUME NEW i \in Lent, Types[i.type].global \/ Running(i.pipe), storage.objects[Key(i)] # None
                 PROVE  FALSE
    BY DEF OpenInv
  <2>2. i.pipe \in Pipes
    BY Owner DEF Lent
  <2>3. ~Running(i.pipe)
    BY <1>1, <2>2 DEF Running
  <2>4. Key(i) \in Keys
    BY <1>2, <1>4, <1>5, <1>6, <1>7, <2>1, <2>3, TypeParts, KeyOfLent
  <2> QED BY <1>3, <2>1, <2>4
<1> QED BY <1>2, <1>4, <1>5, <1>6, <1>7, <1>8, <1>9, <1>10, <1>11, <1>12, <1>13, TypeParts DEF PlanInv, SharedInv

LEMMA InitOriginal == Init => OriginalInv /\ HeldInv
<1> SUFFICES ASSUME Init PROVE OriginalInv /\ HeldInv
  OBVIOUS
<1>1. out = {} /\ open = {} /\ cur = [p \in Pipes |-> [l \in Lines(p) |-> Idle]]
  BY DEF Init
<1>2. ASSUME NEW e \in AllEvents PROVE ~Past(e)
  <2>1. \A p \in Pipes : \A l \in Lines(p) : cur[p][l].e = None
    BY <1>1 DEF Idle
  <2>2. e # None
    BY SharedAssumption
  <2> QED BY <1>1, <2>1, <2>2 DEF Past
<1> QED BY <1>1, <1>2 DEF OriginalInv, Original, HeldInv
----------------------------------------------------------------------------
(* The types: every build, failed build and close keeps the instances, the *)
(* storages and the lines of any number of pipelines of their types.       *)
THEOREM TypeCorrect == Spec => []TypeOK
<1>1. PlanInv => TypeOK
  BY DEF PlanInv
<1> QED BY <1>1, InitPlan, PlanStep, PTL DEF Spec

(* A storage counts the instances that will leave it, whatever is built,   *)
(* fails to be built or is closed, and has an object as long as there are  *)
(* any (sharedstorage.go:22, :42).                                         *)
THEOREM CountsMembersCorrect == Spec => []CountsMembers
<1>1. PlanInv => CountsMembers
  BY CountIs DEF PlanInv, SharedInv
<1> QED BY <1>1, InitPlan, PlanStep, PTL DEF Spec

(* The client that plugins of a running pipeline use is the one in the     *)
(* storage and is open, whatever the pipelines they share it with do       *)
(* (deduplicate.go:66, :95, zstd.go:31, :46).                              *)
THEOREM InUseIsOpenCorrect == Spec => []InUseIsOpen
<1>1. ASSUME PlanInv PROVE InUseIsOpen
  <2>0. TypeOK /\ PlaceInv /\ BuiltInv /\ CountInv /\ ClientInv /\ OpenInv
    BY <1>1 DEF PlanInv, SharedInv
  <2>1. SUFFICES ASSUME NEW i \in alive \cap Lent, stage[i.pipe] = "running"
                 PROVE  client[i] \in open /\ client[i] = storage.objects[Key(i)]
    BY DEF InUseIsOpen
  <2>2. storage.objects[Key(i)] # None
    BY <2>0, HeldFacts
  <2>3. client[i] = storage.objects[Key(i)]
    BY <2>0 DEF ClientInv
  <2>4. storage.objects[Key(i)] \in open
    BY <2>0, <2>1, <2>2, Zenon DEF OpenInv, Running
  <2> QED BY <2>3, <2>4
<1> QED BY <1>1, InitPlan, PlanStep, PTL DEF Spec

(* When all pipelines are stopped, what was built has been closed or was   *)
(* lost by a failed build, the storages count what was lost, and an open   *)
(* client is in a storage (pipeline.go:145, internal.go:247).              *)
THEOREM StoppedIsFreeCorrect ==
  ASSUME ClosedByLast
  PROVE  Spec => []StoppedIsFree
<1>1. ASSUME PlanInv, HeldInv PROVE StoppedIsFree
  <2>0. TypeOK /\ BuiltInv /\ CountInv
    BY <1>1 DEF PlanInv, SharedInv
  <2>1. SUFFICES ASSUME \A p \in Pipes : stage[p] = "stopped"
                 PROVE  /\ \A k \in Keys : storage.members[k] = lost[k]
                        /\ open \subseteq Range(storage.objects) /\ alive = {}
    BY DEF StoppedIsFree
  <2>2. alive = {}
    <3>1. ASSUME NEW i \in alive PROVE FALSE
      <4>1. i.pipe \in Pipes
        BY <2>0, Owner DEF TypeOK
      <4> QED BY <2>0, <2>1, <4>1 DEF BuiltInv, Mine
    <3> QED BY <3>1
  <2>3. ASSUME NEW k \in Keys PROVE storage.members[k] = lost[k]
    <3>1. Holders(k) = {}
      BY <2>2 DEF Holders
    <3>2. Cardinality(Holders(k)) = 0
      BY <3>1, FS_EmptySet
    <3>3. storage.members[k] = Cardinality(Holders(k)) + lost[k] /\ lost[k] \in Nat
      BY <2>0, StorageTypes DEF CountInv
    <3> QED BY <3>2, <3>3
  <2>4. ASSUME NEW c \in open PROVE c \in Range(storage.objects)
    <3>1. c[1] \in Keys /\ storage.objects[c[1]] = c
      BY <1>1, <2>0, HeldKeys DEF HeldInv
    <3>2. DOMAIN storage.objects = Keys
      BY <2>0, <3>1, StorageTypes
    <3> QED BY <3>1, <3>2 DEF Range
  <2> QED BY <2>2, <2>3, <2>4
<1>2. PlanInv /\ HeldInv /\ [Next]_vars => PlanInv' /\ HeldInv'
  BY PlanStep, HeldStep
<1> QED BY <1>1, <1>2, InitPlan, InitOriginal, PTL DEF Spec

(* Of the events with one idempotency key at most one leaves its line as   *)
(* unique and without an error, in any number of lines and pipelines,      *)
(* calls that fail and answers that are lost (deduplicate.go:121, :145).   *)
THEOREM OneOriginalCorrect ==
  ASSUME KeysAreChecked
  PROVE  Spec => []OneOriginal
<1>1. ASSUME PlanInv, OriginalInv PROVE OneOriginal
  <2>1. SUFFICES ASSUME NEW e \in out, NEW f \in out, e # f, KeyOf[e] = KeyOf[f], KeyOf[e] # None,
                        Original(e), Original(f)
                 PROVE  FALSE
    BY DEF OneOriginal, Original, Past
  <2>2. e \in AllEvents /\ f \in AllEvents
    BY <1>1 DEF PlanInv, TypeOK
  <2>3. SharedKey(e)
    BY <2>1, <2>2 DEF SharedKey
  <2> QED BY <1>1, <2>1, <2>2, <2>3 DEF OriginalInv
<1>2. PlanInv /\ OriginalInv /\ [Next]_vars => PlanInv' /\ OriginalInv'
  BY PlanStep, KeyStep DEF PlanInv
<1> QED BY <1>1, <1>2, InitPlan, InitOriginal, PTL DEF Spec
=============================================================================
