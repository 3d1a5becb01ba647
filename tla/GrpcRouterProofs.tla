--------------------------- MODULE GrpcRouterProofs ---------------------------
(***************************************************************************)
(* The streams of the gRPC output get the events in order and once, with   *)
(* Random one of them gets an event, and no subscriber is left out: for    *)
(* any number of procedures, streams and events.                           *)
(***************************************************************************)
EXTENDS GrpcRouter, SequenceTheorems, TLAPS

\* A stream has been announced to its publisher: it is not announced again.
Announced(c) == at[c] \notin {"none", "recv", "join", "joining"}

\* A stream belongs to one procedure, and its publisher has it once.
MemberInv ==
  /\ \A c \in Clients : at[c] # "none" => rpc[c] \in Rpcs
  /\ \A r \in Rpcs : joins[r] # None =>
       Announced(joins[r]) /\ rpc[joins[r]] = r /\ joins[r] \notin Listed(r)
  /\ \A r \in Rpcs : \A c \in Listed(r) : Announced(c) /\ rpc[c] = r
  /\ \A r \in Rpcs : \A i, j \in 1 .. Len(subs[r]) : subs[r][i] = subs[r][j] => i = j

Busy(r) == pub[r] \in {"offer", "await"}

Ahead(r) == {cur[r].rest[i] : i \in 1 .. Len(cur[r].rest)}

\* What a publisher does with an event: the subscribers it has not tried are subscribers, each
\* to be tried once; the others have the event or were missed.
CurInv ==
  \A r \in Rpcs :
    IF Busy(r)
    THEN /\ cur[r].e \in Numbers /\ cur[r].rest # <<>>
         /\ Ahead(r) \subseteq Listed(r)
         /\ \A i, j \in 1 .. Len(cur[r].rest) : cur[r].rest[i] = cur[r].rest[j] => i = j
         /\ \A c \in Listed(r) : c \in Ahead(r) \/ c \in cur[r].missed \/ Has(c, cur[r].e)
    ELSE cur[r] = Idle

\* The publisher waits for the stream that sends.
SendingInv ==
  \A c \in Clients : at[c] = "sending" => pub[rpc[c]] = "await" /\ c = Head(cur[rpc[c]].rest)

Given == main \in {"push", "send"}

Fresh(e) == \A c \in Clients : ~Has(c, e)

\* An event is in one place, and moves on in order: what was taken last, what waits in the
\* channel of a publisher, what it publishes, what its streams got.
PlaceInv ==
  /\ Given => key \in Rpcs /\ taken \in Numbers
  /\ \A r \in Rpcs : queue[r] # None =>
       /\ queue[r] <= taken /\ (Given => queue[r] < taken)
       /\ Fresh(queue[r])
       /\ \A q \in Rpcs : q # r => queue[q] # queue[r]
       /\ \A q \in Rpcs : Busy(q) => cur[q].e # queue[r]
       /\ Busy(r) => cur[r].e < queue[r]
  /\ \A r \in Rpcs : Busy(r) =>
       /\ cur[r].e <= taken /\ (Given => cur[r].e < taken)
       /\ behaviour = "Random" => Fresh(cur[r].e)
       /\ \A q \in Rpcs : q # r /\ Busy(q) => cur[q].e # cur[r].e

\* What a stream got came before what its publisher has and what was taken last.
PastInv ==
  \A c \in Clients : \A i \in 1 .. Len(got[c]) :
    /\ at[c] # "none"
    /\ got[c][i] <= taken /\ (Given => got[c][i] < taken)
    /\ queue[rpc[c]] # None => got[c][i] < queue[rpc[c]]
    /\ Busy(rpc[c]) => got[c][i] <= cur[rpc[c]].e
    /\ Busy(rpc[c]) /\ got[c][i] = cur[rpc[c]].e => c \notin Ahead(rpc[c])

\* Where the events are, and what the streams got.
EventInv == CurInv /\ SendingInv /\ PlaceInv /\ PastInv /\ DeliveredOnce

Inv == TypeOK /\ MemberInv /\ EventInv
-----------------------------------------------------------------------------
(* Lists of subscribers.                                                    *)

\* Two ends of a list, without the entry between them.
LEMMA Glued ==
  ASSUME NEW S, NEW s \in Seq(S), NEW k \in 1 .. Len(s)
  PROVE  LET t == SubSeq(s, 1, k - 1) \o SubSeq(s, k + 1, Len(s))
         IN /\ t \in Seq(S) /\ Len(t) = Len(s) - 1
            /\ \A i \in 1 .. Len(s) - 1 : t[i] = IF i < k THEN s[i] ELSE s[i + 1]
<1> DEFINE a == SubSeq(s, 1, k - 1)
           b == SubSeq(s, k + 1, Len(s))
<1>1. PICK n \in Nat : n = Len(s)
  OBVIOUS
<1>2. \A i \in 1 .. Len(s) : s[i] \in S
  OBVIOUS
<1>3. a \in Seq(S) /\ Len(a) = k - 1 /\ \A i \in 1 .. k - 1 : a[i] = s[i]
  BY <1>2, SubSeqProperties
<1>4. b \in Seq(S) /\ Len(b) = n - k /\ \A i \in 1 .. n - k : b[i] = s[k + i]
  BY <1>1, <1>2, SubSeqProperties
<1> HIDE DEF a, b
<1>5. /\ a \o b \in Seq(S) /\ Len(a \o b) = Len(a) + Len(b)
      /\ \A i \in 1 .. Len(a) + Len(b) :
           (a \o b)[i] = IF i <= Len(a) THEN a[i] ELSE b[i - Len(a)]
  BY <1>3, <1>4, ConcatProperties, Zenon
<1>6. Len(a \o b) = n - 1
  BY <1>1, <1>3, <1>4, <1>5
<1>7. ASSUME NEW i \in 1 .. n - 1, i < k PROVE (a \o b)[i] = s[i]
  <2>1. i \in 1 .. Len(a) + Len(b) /\ i <= Len(a) /\ i \in 1 .. k - 1
    BY <1>1, <1>3, <1>4, <1>7
  <2> QED BY <2>1, <1>3, <1>5
<1>8. ASSUME NEW i \in 1 .. n - 1, ~(i < k) PROVE (a \o b)[i] = s[i + 1]
  <2>1. i - (k - 1) \in 1 .. n - k /\ k + (i - (k - 1)) = i + 1
    BY <1>1, <1>8
  <2>2. i \in 1 .. Len(a) + Len(b) /\ ~(i <= Len(a)) /\ Len(a) = k - 1
    BY <1>1, <1>3, <1>4, <1>8
  <2>3. (a \o b)[i] = b[i - (k - 1)]
    BY <2>2, <1>5
  <2> QED BY <2>1, <2>3, <1>4
<1> QED BY <1>1, <1>5, <1>6, <1>7, <1>8 DEF a, b

\* Taking an entry off a list without repetitions leaves one (router.go:205).
LEMMA WithoutOne ==
  ASSUME NEW S, NEW s \in Seq(S), NEW x,
         \A i, j \in 1 .. Len(s) : s[i] = s[j] => i = j
  PROVE  LET t == Without(s, x)
         IN /\ t \in Seq(S)
            /\ \A j \in 1 .. Len(t) : \E i \in 1 .. Len(s) : s[i] = t[j]
            /\ \A i, j \in 1 .. Len(t) : t[i] = t[j] => i = j
<1> DEFINE t == Without(s, x)
<1>1. CASE ~ \E i \in 1 .. Len(s) : s[i] = x
  <2>1. t = s
    BY <1>1 DEF Without
  <2> QED BY <2>1
<1>2. CASE \E i \in 1 .. Len(s) : s[i] = x
  <2>1. PICK k \in 1 .. Len(s) : t = SubSeq(s, 1, k - 1) \o SubSeq(s, k + 1, Len(s))
    BY <1>2 DEF Without
  <2>2. Len(s) \in Nat
    OBVIOUS
  <2>3. /\ t \in Seq(S) /\ Len(t) = Len(s) - 1
        /\ \A i \in 1 .. Len(s) - 1 : t[i] = IF i < k THEN s[i] ELSE s[i + 1]
    <3> DEFINE e == SubSeq(s, 1, k - 1) \o SubSeq(s, k + 1, Len(s))
    <3>1. /\ e \in Seq(S) /\ Len(e) = Len(s) - 1
          /\ \A i \in 1 .. Len(s) - 1 : e[i] = IF i < k THEN s[i] ELSE s[i + 1]
      BY Glued
    <3>2. t = e
      BY <2>1
    <3> HIDE DEF t, e
    <3> QED BY <3>1, <3>2
  <2> HIDE DEF t
  <2>4. \A i \in 1 .. Len(t) : \E j \in 1 .. Len(s) : t[i] = s[j] /\ j = IF i < k THEN i ELSE i + 1
    BY <2>3, <2>2
  <2>5. \A i, j \in 1 .. Len(t) : t[i] = t[j] => i = j
    BY <2>4, <2>2, <2>3
  <2> QED BY <2>3, <2>4, <2>5 DEF t
<1> QED BY <1>1, <1>2

\* What is left of a list when its first entry is through.
LEMMA TailOf ==
  ASSUME NEW S, NEW s \in Seq(S), s # <<>>
  PROVE  /\ Head(s) = s[1] /\ 1 \in 1 .. Len(s) /\ Head(s) \in S
         /\ Tail(s) \in Seq(S) /\ Len(Tail(s)) = Len(s) - 1
         /\ \A i \in 1 .. Len(Tail(s)) : Tail(s)[i] = s[i + 1] /\ i + 1 \in 1 .. Len(s)
         /\ \A i \in 1 .. Len(s) : i = 1 \/ i - 1 \in 1 .. Len(Tail(s))
<1>1. Len(s) \in Nat \ {0}
  BY EmptySeq
<1> QED BY <1>1, HeadTailProperties

USE RouterAssumption

-----------------------------------------------------------------------------
(* Types.                                                                  *)

\* Reporting an event and going on with the next subscriber keep the types.
LEMMA ReportType ==
  ASSUME TypeOK, NEW r \in Rpcs, NEW e \in Numbers, Report(r, e)
  PROVE  /\ reports' \in [Numbers -> Nat]
         /\ pub' \in [Rpcs -> {"none", "poll", "select", "offer", "await", "gone"}]
         /\ cur' \in [Rpcs -> [e : Numbers \cup {None}, rest : Seq(Clients),
                               missed : SUBSET Clients]]
<1>1. Idle \in [e : Numbers \cup {None}, rest : Seq(Clients), missed : SUBSET Clients]
  BY DEF Idle
<1> QED BY <1>1 DEF TypeOK, Report

LEMMA AdvanceType ==
  ASSUME TypeOK, CurInv, NEW r \in Rpcs, NEW F \in SUBSET Clients, Busy(r), Advance(r, F)
  PROVE  /\ reports' \in [Numbers -> Nat]
         /\ pub' \in [Rpcs -> {"none", "poll", "select", "offer", "await", "gone"}]
         /\ cur' \in [Rpcs -> [e : Numbers \cup {None}, rest : Seq(Clients),
                               missed : SUBSET Clients]]
<1>1. cur[r].e \in Numbers /\ cur[r].rest # <<>>
  BY DEF CurInv
<1>2. CASE Len(cur[r].rest) = 1
  BY <1>1, <1>2, ReportType DEF Advance
<1>3. CASE Len(cur[r].rest) # 1
  <2>1. cur[r].rest \in Seq(Clients) /\ cur[r].missed \in SUBSET Clients
    BY DEF TypeOK
  <2>2. Others(r) \in Seq(Clients)
    BY <2>1, <1>1, TailOf DEF Others
  <2>3. cur' = [cur EXCEPT ![r] = [e |-> cur[r].e, rest |-> Others(r),
                                  missed |-> cur[r].missed \cup F]]
    BY <1>3, <2>1 DEF Advance, TypeOK
  <2>4. pub' = [pub EXCEPT ![r] = "offer"] /\ reports' = reports
    BY <1>3 DEF Advance
  <2> QED BY <1>1, <2>1, <2>2, <2>3, <2>4 DEF TypeOK
<1> QED BY <1>2, <1>3
LEMMA JoinType ==
  ASSUME TypeOK, MemberInv, NEW r \in Rpcs, Join(r) \/ Part(r)
  PROVE  /\ subs' \in [Rpcs -> Seq(Clients)]
         /\ joins' \in [Rpcs -> Clients \cup {None}] /\ parts' \in [Rpcs -> Clients \cup {None}]
         /\ late' \subseteq Clients
<1>1. CASE Join(r)
  BY <1>1 DEF Join, TypeOK
<1>2. CASE Part(r)
  <2>1. subs[r] \in Seq(Clients) /\ \A i, j \in 1 .. Len(subs[r]) : subs[r][i] = subs[r][j] => i = j
    BY DEF TypeOK, MemberInv
  <2>2. Without(subs[r], parts[r]) \in Seq(Clients)
    BY <2>1, WithoutOne
  <2> QED BY <1>2, <2>2 DEF Part, TypeOK
<1> QED BY <1>1, <1>2

\* The order in which the subscribers are tried names each of them once.
LEMMA OrderOf ==
  ASSUME TypeOK, MemberInv, NEW r \in Rpcs, NEW s \in Orders(r)
  PROVE  /\ s \in Seq(Clients) /\ Len(s) = Len(subs[r])
         /\ {s[i] : i \in 1 .. Len(s)} = Listed(r)
         /\ \A i, j \in 1 .. Len(s) : s[i] = s[j] => i = j
<1>1. subs[r] \in Seq(Clients) /\ Len(subs[r]) \in Nat
  BY DEF TypeOK
<1>2. CASE behaviour = "Broadcast"
  <2>1. s = subs[r]
    BY <1>2 DEF Orders
  <2> QED BY <1>1, <2>1 DEF Listed, MemberInv
<1>3. CASE behaviour # "Broadcast"
  <2>1. s \in Bijection(1 .. Len(subs[r]), Listed(r))
    BY <1>3 DEF Orders
  <2>2. /\ s \in [1 .. Len(subs[r]) -> Listed(r)]
        /\ \A i, j \in 1 .. Len(subs[r]) : s[i] = s[j] => i = j
        /\ \A c \in Listed(r) : \E i \in 1 .. Len(subs[r]) : s[i] = c
    BY <2>1 DEF Bijection, Injection, Surjection, IsInjective
  <2>3. Listed(r) \subseteq Clients
    BY <1>1 DEF Listed
  <2>4. s \in Seq(Clients) /\ Len(s) = Len(subs[r])
    BY <1>1, <2>2, <2>3
  <2> QED BY <2>2, <2>4
<1> QED BY <1>2, <1>3

\* The ways in which a stream is announced, and those in which it takes its leave.
LEMMA SubscribeIs ==
  ASSUME NEW c \in Clients, Subscribe(c)
  PROVE  /\ at[c] = "join"
         /\ UNCHANGED <<behaviour, taken, main, key, closed, stopped, drained, queue, deaf, parts,
                        subs, cur, rpc, free, late, got, reports, crashed>>
         /\ \/ at' = [at EXCEPT ![c] = "loop"] /\ told' = told \cup {c}
               /\ pub' = pub /\ joins' = joins /\ mu' = mu
            \/ at' = [at EXCEPT ![c] = "loop"] /\ told' = told
               /\ pub' = Got(rpc[c]) /\ joins' = [joins EXCEPT ![rpc[c]] = c] /\ mu' = mu
            \/ at' = [at EXCEPT ![c] = "joining"] /\ told' = told
               /\ pub' = Got(rpc[c]) /\ joins' = joins /\ mu' = c
BY Zenon DEF Subscribe, input

LEMMA UnsubscribeIs ==
  ASSUME NEW c \in Clients, Unsubscribe(c)
  PROVE  /\ at[c] = "part"
         /\ \/ at' = at /\ parts' = parts /\ mu' = mu
            \/ at' = [at EXCEPT ![c] = "gone"] /\ parts' = [parts EXCEPT ![rpc[c]] = c] /\ mu' = mu
            \/ at' = [at EXCEPT ![c] = "parting"] /\ parts' = parts /\ mu' = c
BY Zenon DEF Unsubscribe

\* What the prover needs to know of the parts of the state.
LEMMA TypeStep ==
  ASSUME TypeOK, MemberInv, CurInv, SendingInv, PlaceInv, Next
  PROVE  TypeOK'
<1>1. CASE TakeEvent
  <2>1. taken + 1 \in Numbers /\ taken' \in 0 .. Events
    BY <1>1 DEF TakeEvent, TypeOK, Numbers
  <2>2. PICK r \in Rpcs \cup {None} :
          /\ key' = r
          /\ IF r = None THEN reports' = [reports EXCEPT ![taken + 1] = @ + 1] /\ UNCHANGED main
                         ELSE main' = "push" /\ UNCHANGED reports
    BY <1>1 DEF TakeEvent
  <2>3. main' \in {main, "push"}
    BY <2>2
  <2>4. reports' \in [Numbers -> Nat]
    <3>1. reports \in [Numbers -> Nat] /\ reports[taken + 1] + 1 \in Nat
      BY <2>1 DEF TypeOK
    <3> QED BY <2>1, <2>2, <3>1
  <2> QED BY <1>1, <2>1, <2>2, <2>3, <2>4 DEF TypeOK, TakeEvent, router, chans, works, streams
<1>2. CASE Push
  <2>1. key \in Rpcs /\ taken \in Numbers
    BY <1>2 DEF Push, PlaceInv, Given
  <2>2. queue' \in [Rpcs -> Numbers \cup {None}] /\ pub' \in {pub, [pub EXCEPT ![key] = "poll"]}
    BY <1>2, <2>1 DEF Push, Got, TypeOK
  <2>3. /\ main' \in {"take", "send"} /\ key' \in {key, None} /\ mu' \in {mu, "main"}
    BY <1>2 DEF Push
  <2> QED BY <1>2, <2>1, <2>2, <2>3 DEF TypeOK, Push, streams
<1>3. CASE Send
  BY <1>3 DEF TypeOK, Numbers, Send, input, router, chans, works, streams, PlaceInv, Given
<1>4. CASE CloseRouter
  BY <1>4 DEF TypeOK, Numbers, CloseRouter, input, router, chans, works, streams
<1>5. CASE StopRouter
  BY <1>5 DEF TypeOK, Numbers, StopRouter, input, router, chans, works, streams
<1>6. CASE Drained
  BY <1>6 DEF TypeOK, Numbers, Drained, input, router, chans, works, streams
<1>7. CASE Return
  BY <1>7 DEF TypeOK, Numbers, Return, input, router, chans, works, streams
<1>8. CASE InputClosed
  BY <1>8 DEF TypeOK, Numbers, InputClosed, input, router, chans, works, streams
<1>9. ASSUME NEW r \in Rpcs, Poll(r) PROVE TypeOK'
  <2>1. PICK b : pub' = [pub EXCEPT ![r] = b] /\ b \in {"poll", "select"}
    BY <1>9 DEF Poll
  <2>2. pub' \in [Rpcs -> {"none", "poll", "select", "offer", "await", "gone"}]
    BY <2>1 DEF TypeOK
  <2>3. CASE Join(r) \/ Part(r)
    <3>1. /\ subs' \in [Rpcs -> Seq(Clients)]
          /\ joins' \in [Rpcs -> Clients \cup {None}] /\ parts' \in [Rpcs -> Clients \cup {None}]
          /\ late' \subseteq Clients
      BY <2>3, JoinType
    <3> QED BY <1>9, <2>2, <3>1 DEF TypeOK, Poll, input, router
  <2>4. CASE UNCHANGED <<subs, joins, parts, late>>
    BY <1>9, <2>2, <2>4 DEF TypeOK, Poll, input, router
  <2> QED BY <1>9, <2>3, <2>4 DEF Poll
<1>10. ASSUME NEW r \in Rpcs, SelectMember(r) PROVE TypeOK'
  <2>1. PICK b : pub' = [pub EXCEPT ![r] = b] /\ b \in {"poll", "select"}
    BY <1>10 DEF SelectMember
  <2>2. pub' \in [Rpcs -> {"none", "poll", "select", "offer", "await", "gone"}]
    BY <2>1 DEF TypeOK
  <2>3. CASE Join(r) \/ Part(r)
    <3>1. /\ subs' \in [Rpcs -> Seq(Clients)]
          /\ joins' \in [Rpcs -> Clients \cup {None}] /\ parts' \in [Rpcs -> Clients \cup {None}]
          /\ late' \subseteq Clients
      BY <2>3, JoinType
    <3> QED BY <1>10, <2>2, <3>1 DEF TypeOK, SelectMember, input, router
  <2>4. CASE UNCHANGED <<subs, joins, parts, late>>
    BY <1>10, <2>2, <2>4 DEF TypeOK, SelectMember, input, router
  <2> QED BY <1>10, <2>3, <2>4 DEF SelectMember
<1>11. ASSUME NEW r \in Rpcs, SelectStop(r) PROVE TypeOK'
  BY <1>11 DEF TypeOK, Numbers, SelectStop, input, router, chans, works, streams
<1>12. ASSUME NEW r \in Rpcs, SelectClosed(r) PROVE TypeOK'
  <2>1. \A i \in 1 .. Len(subs[r]) : subs[r][i] \in Clients
    BY DEF TypeOK
  <2>2. Told(r) \subseteq Clients
    BY <2>1 DEF Told, Listed
  <2> QED BY <1>12, <2>2 DEF TypeOK, SelectClosed, input, router
<1>13. ASSUME NEW r \in Rpcs, SelectEvent(r) PROVE TypeOK'
  <2>1. queue[r] \in Numbers /\ queue' \in [Rpcs -> Numbers \cup {None}]
    BY <1>13 DEF SelectEvent, TypeOK
  <2>2. CASE Report(r, queue[r])
    <3>1. /\ reports' \in [Numbers -> Nat]
          /\ pub' \in [Rpcs -> {"none", "poll", "select", "offer", "await", "gone"}]
          /\ cur' \in [Rpcs -> [e : Numbers \cup {None}, rest : Seq(Clients),
                                missed : SUBSET Clients]]
      BY <2>1, <2>2, ReportType
    <3> QED BY <1>13, <2>1, <3>1 DEF TypeOK, SelectEvent, input, router, streams
  <2>3. CASE ~ Report(r, queue[r])
    <3>1. PICK order \in Orders(r) :
            cur' = [cur EXCEPT ![r] = [e |-> queue[r], rest |-> order, missed |-> {}]]
      BY <1>13, <2>3 DEF SelectEvent
    <3>2. order \in Seq(Clients)
      BY OrderOf
    <3>3. [e |-> queue[r], rest |-> order, missed |-> {}]
            \in [e : Numbers \cup {None}, rest : Seq(Clients), missed : SUBSET Clients]
      BY <2>1, <3>2
    <3>4. cur' \in [Rpcs -> [e : Numbers \cup {None}, rest : Seq(Clients),
                             missed : SUBSET Clients]]
      BY <3>1, <3>3 DEF TypeOK
    <3>5. pub' = [pub EXCEPT ![r] = "offer"] /\ reports' = reports
      BY <1>13, <2>3 DEF SelectEvent
    <3> QED BY <1>13, <2>1, <3>4, <3>5 DEF TypeOK, SelectEvent, input, router, streams
  <2> QED BY <2>2, <2>3
<1>14. ASSUME NEW r \in Rpcs, Offer(r) PROVE TypeOK'
  BY <1>14 DEF TypeOK, Numbers, Offer, input, router, chans, works, streams
<1>15. ASSUME NEW r \in Rpcs, Skip(r) PROVE TypeOK'
  <2>1. Busy(r) /\ Head(cur[r].rest) \in Clients
    <3>1. Busy(r) /\ cur[r].rest # <<>> /\ cur[r].rest \in Seq(Clients)
      BY <1>15 DEF Skip, Busy, CurInv, TypeOK
    <3> QED BY <3>1, TailOf
  <2>2. Advance(r, {Head(cur[r].rest)}) /\ {Head(cur[r].rest)} \in SUBSET Clients
    BY <1>15, <2>1 DEF Skip
  <2>3. /\ reports' \in [Numbers -> Nat]
        /\ pub' \in [Rpcs -> {"none", "poll", "select", "offer", "await", "gone"}]
        /\ cur' \in [Rpcs -> [e : Numbers \cup {None}, rest : Seq(Clients),
                              missed : SUBSET Clients]]
    BY <2>1, <2>2, AdvanceType
  <2> QED BY <1>15, <2>3 DEF TypeOK, Skip, input, router, chans, streams
<1>16. ASSUME NEW c \in Clients, Open(c) PROVE TypeOK'
  BY <1>16 DEF TypeOK, Numbers, Open, MemberInv, Got, input, router, chans, works, streams
<1>17. ASSUME NEW c \in Clients, Received(c) PROVE TypeOK'
  BY <1>17 DEF TypeOK, Numbers, Received, MemberInv, Got, input, router, chans, works, streams
<1>18. ASSUME NEW c \in Clients, RecvFails(c) PROVE TypeOK'
  BY <1>18 DEF TypeOK, Numbers, RecvFails, MemberInv, Got, input, router, chans, works, streams
<1>19. ASSUME NEW c \in Clients, Subscribe(c) PROVE TypeOK'
  <2>1. rpc[c] \in Rpcs
    BY <1>19 DEF Subscribe, MemberInv
  <2>2. UNCHANGED <<behaviour, taken, main, key, closed, stopped, drained, queue, deaf, parts,
                    subs, cur, rpc, free, late, got, reports, crashed>>
    BY <1>19, SubscribeIs
  <2>3. CASE /\ at' = [at EXCEPT ![c] = "loop"] /\ told' = told \cup {c}
             /\ pub' = pub /\ joins' = joins /\ mu' = mu
    BY <2>2, <2>3 DEF TypeOK
  <2>4. CASE /\ at' = [at EXCEPT ![c] = "loop"] /\ told' = told
             /\ pub' = Got(rpc[c]) /\ joins' = [joins EXCEPT ![rpc[c]] = c] /\ mu' = mu
    BY <2>2, <2>1, <2>4 DEF TypeOK, Got
  <2>5. CASE /\ at' = [at EXCEPT ![c] = "joining"] /\ told' = told
             /\ pub' = Got(rpc[c]) /\ joins' = joins /\ mu' = c
    BY <2>2, <2>1, <2>5 DEF TypeOK, Got
  <2> QED BY <1>19, <2>3, <2>4, <2>5, SubscribeIs
<1>20. ASSUME NEW c \in Clients, Subscribed(c) PROVE TypeOK'
  BY <1>20 DEF TypeOK, Numbers, Subscribed, MemberInv, Got, input, router, chans, works, streams
<1>21. ASSUME NEW c \in Clients, HangUp(c) PROVE TypeOK'
  BY <1>21 DEF TypeOK, Numbers, HangUp, MemberInv, Got, input, router, chans, works, streams
<1>22. ASSUME NEW c \in Clients, Left(c) PROVE TypeOK'
  BY <1>22 DEF TypeOK, Numbers, Left, MemberInv, Got, input, router, chans, works, streams
<1>23. ASSUME NEW c \in Clients, SendMsg(c) PROVE TypeOK'
  <2>1. rpc[c] \in Rpcs /\ Busy(rpc[c]) /\ cur[rpc[c]].e \in Numbers
    BY <1>23 DEF SendMsg, MemberInv, SendingInv, CurInv, Busy, TypeOK
  <2>2. at' \in [Clients -> {"none", "recv", "join", "joining", "loop", "sending", "part",
                       "parting", "gone"}]
    BY <1>23 DEF SendMsg, TypeOK
  <2>3. got' \in {got, [got EXCEPT ![c] = Append(@, cur[rpc[c]].e)]}
    BY <1>23 DEF SendMsg
  <2>4. got' \in [Clients -> Seq(Numbers)]
    <3>1. got \in [Clients -> Seq(Numbers)] /\ Append(got[c], cur[rpc[c]].e) \in Seq(Numbers)
      BY <2>1, AppendProperties DEF TypeOK
    <3> QED BY <2>3, <3>1
  <2>5. Report(rpc[c], cur[rpc[c]].e) \/ Advance(rpc[c], {}) \/ Advance(rpc[c], {c})
    BY <1>23 DEF SendMsg
  <2>6. /\ reports' \in [Numbers -> Nat]
        /\ pub' \in [Rpcs -> {"none", "poll", "select", "offer", "await", "gone"}]
        /\ cur' \in [Rpcs -> [e : Numbers \cup {None}, rest : Seq(Clients),
                              missed : SUBSET Clients]]
    <3>1. CASE Report(rpc[c], cur[rpc[c]].e)
      BY <2>1, <3>1, ReportType
    <3>2. CASE Advance(rpc[c], {})
      BY <2>1, <3>2, AdvanceType
    <3>3. CASE Advance(rpc[c], {c})
      <4>1. {c} \in SUBSET Clients
        OBVIOUS
      <4> QED BY <2>1, <3>3, <4>1, AdvanceType
    <3> QED BY <2>5, <3>1, <3>2, <3>3
  <2> QED BY <1>23, <2>2, <2>4, <2>6 DEF TypeOK, SendMsg, input, router, chans
<1>24. ASSUME NEW c \in Clients, Unsubscribe(c) PROVE TypeOK'
  <2>1. rpc[c] \in Rpcs
    BY <1>24 DEF Unsubscribe, MemberInv
  <2>2. crashed' \in BOOLEAN
    <3>1. crashed \in BOOLEAN
      BY DEF TypeOK
    <3>2. crashed' = TRUE \/ crashed' = crashed
      BY <1>24, Zenon DEF Unsubscribe
    <3> QED BY <3>1, <3>2, Zenon
  <2>3. CASE at' = at /\ parts' = parts /\ mu' = mu
    BY <1>24, <2>2, <2>3 DEF TypeOK, Unsubscribe, input, works
  <2>4. CASE at' = [at EXCEPT ![c] = "gone"] /\ parts' = [parts EXCEPT ![rpc[c]] = c] /\ mu' = mu
    BY <1>24, <2>1, <2>2, <2>4 DEF TypeOK, Unsubscribe, input, works
  <2>5. CASE at' = [at EXCEPT ![c] = "parting"] /\ parts' = parts /\ mu' = c
    BY <1>24, <2>2, <2>5 DEF TypeOK, Unsubscribe, input, works
  <2> QED BY <1>24, <2>3, <2>4, <2>5, UnsubscribeIs
<1>25. ASSUME NEW c \in Clients, Unsubscribed(c) PROVE TypeOK'
  BY <1>25 DEF TypeOK, Numbers, Unsubscribed, MemberInv, Got, input, router, chans, works, streams
<1> QED BY <1>1, <1>2, <1>3, <1>4, <1>5, <1>6, <1>7, <1>8, <1>9, <1>10, <1>11, <1>12, <1>13, <1>14, <1>15, <1>16, <1>17, <1>18, <1>19, <1>20, <1>21, <1>22, <1>23, <1>24, <1>25
       DEF Next, Main, Publisher, Receive, Serve
-----------------------------------------------------------------------------
(* The lists of subscribers.                                               *)

\* The lists stay, and so do the procedures of the streams that were opened.
Settled ==
  /\ UNCHANGED <<subs, joins>>
  /\ \A c \in Clients : /\ Announced(c) => Announced(c)'
                        /\ at[c] # "none" => at'[c] # "none" /\ rpc'[c] = rpc[c]
                        /\ at'[c] # "none" => at[c] # "none" \/ rpc'[c] \in Rpcs

LEMMA SettledKeeps ==
  ASSUME TypeOK, MemberInv, Settled
  PROVE  MemberInv'
<1>1. \A r \in Rpcs : Listed(r)' = Listed(r)
  BY DEF Settled, Listed
<1>2. \A r \in Rpcs : \A c \in Listed(r) : c \in Clients
  <2>1. \A r \in Rpcs : \A i \in 1 .. Len(subs[r]) : subs[r][i] \in Clients
    BY DEF TypeOK
  <2> QED BY <2>1 DEF Listed
<1>3. \A r \in Rpcs : joins[r] # None => joins[r] \in Clients
  BY DEF TypeOK
<1>4. \A c \in Clients : at'[c] # "none" => rpc'[c] \in Rpcs
  BY DEF Settled, MemberInv
<1>5. \A r \in Rpcs : \A c \in Listed(r) : Announced(c)' /\ rpc'[c] = r
  BY <1>2 DEF Settled, MemberInv, Announced
<1>6. \A r \in Rpcs : joins[r] # None =>
        Announced(joins[r])' /\ rpc'[joins[r]] = r /\ joins[r] \notin Listed(r)
  BY <1>3 DEF Settled, MemberInv, Announced
<1>7. joins' = joins /\ subs' = subs
  BY DEF Settled
<1> QED BY <1>1, <1>4, <1>5, <1>6, <1>7 DEF MemberInv, Announced

\* A stream is announced to its publisher, once.
LEMMA Announcement ==
  ASSUME TypeOK, MemberInv, NEW c \in Clients, at[c] \in {"join", "joining"},
         at' = [at EXCEPT ![c] = "loop"], joins' = [joins EXCEPT ![rpc[c]] = c],
         UNCHANGED <<subs, rpc>>
  PROVE  MemberInv'
<1>1. rpc[c] \in Rpcs /\ ~Announced(c) /\ Announced(c)'
  BY DEF MemberInv, Announced, TypeOK
<1>2. \A d \in Clients : Announced(d) => Announced(d)'
  BY DEF Announced, TypeOK
<1>3. \A r \in Rpcs : Listed(r)' = Listed(r) /\ \A d \in Listed(r) : d \in Clients
  <2>1. \A r \in Rpcs : \A i \in 1 .. Len(subs[r]) : subs[r][i] \in Clients
    BY DEF TypeOK
  <2> QED BY <2>1 DEF Listed
<1>4. \A d \in Clients : at'[d] # "none" => rpc'[d] \in Rpcs
  BY <1>1 DEF MemberInv, TypeOK
<1>5. \A r \in Rpcs : \A d \in Listed(r) : Announced(d)' /\ rpc'[d] = r
  BY <1>2, <1>3 DEF MemberInv
<1>6. ASSUME NEW r \in Rpcs, joins'[r] # None
      PROVE  Announced(joins[r])' /\ rpc'[joins'[r]] = r /\ joins'[r] \notin Listed(r)
  <2>1. CASE r = rpc[c]
    <3>1. joins'[r] = c
      BY <2>1 DEF TypeOK
    <3>2. c \notin Listed(r)
      BY <1>1 DEF MemberInv
    <3>3. rpc'[c] = r
      BY <2>1
    <3> QED BY <1>1, <3>1, <3>2, <3>3 DEF Announced
  <2>2. CASE r # rpc[c]
    <3>1. joins'[r] = joins[r] /\ joins[r] \in Clients
      BY <1>6, <2>2 DEF TypeOK
    <3> QED BY <1>2, <1>6, <3>1 DEF MemberInv, Announced
  <2> QED BY <2>1, <2>2
<1>7. subs' = subs
  OBVIOUS
<1> QED BY <1>3, <1>4, <1>5, <1>6, <1>7 DEF MemberInv

\* The publisher takes a stream into its list, or off it.
LEMMA JoinMember ==
  ASSUME TypeOK, MemberInv, NEW r \in Rpcs, Join(r), UNCHANGED <<at, rpc>>
  PROVE  MemberInv'
<1>1. PICK c \in Clients : c = joins[r] /\ Announced(c) /\ rpc[c] = r /\ c \notin Listed(r)
  BY DEF Join, MemberInv, TypeOK
<1>2. joins' = [joins EXCEPT ![r] = None] /\ subs' = [subs EXCEPT ![r] = Append(subs[r], c)]
  BY <1>1 DEF Join, TypeOK
<1>3. subs[r] \in Seq(Clients) /\ subs'[r] = Append(subs[r], c) /\ joins'[r] = None
  BY <1>2 DEF TypeOK
<1>4. \A q \in Rpcs : q # r => subs'[q] = subs[q] /\ joins'[q] = joins[q]
  BY <1>2 DEF TypeOK
<1>5. /\ Len(subs'[r]) = Len(subs[r]) + 1 /\ Len(subs[r]) \in Nat
      /\ \A i \in 1 .. Len(subs[r]) : subs'[r][i] = subs[r][i]
      /\ subs'[r][Len(subs[r]) + 1] = c
  BY <1>3, AppendProperties
<1>6. \A i \in 1 .. Len(subs'[r]) : i \in 1 .. Len(subs[r]) \/ i = Len(subs[r]) + 1
  BY <1>5
<1>7. \A i \in 1 .. Len(subs[r]) : subs[r][i] \in Listed(r)
  BY DEF Listed
<1>8. \A i, j \in 1 .. Len(subs'[r]) : subs'[r][i] = subs'[r][j] => i = j
  <2>1. SUFFICES ASSUME NEW i \in 1 .. Len(subs'[r]), NEW j \in 1 .. Len(subs'[r]), subs'[r][i] = subs'[r][j]
                 PROVE  i = j
    OBVIOUS
  <2>2. \A m, n \in 1 .. Len(subs[r]) : subs[r][m] = subs[r][n] => m = n
    BY DEF MemberInv
  <2>3. \A m \in 1 .. Len(subs[r]) : subs[r][m] # c
    BY <1>1, <1>7
  <2>4. CASE i \in 1 .. Len(subs[r]) /\ j \in 1 .. Len(subs[r])
    BY <1>5, <2>1, <2>2, <2>4
  <2>5. CASE i = Len(subs[r]) + 1 /\ j \in 1 .. Len(subs[r])
    BY <1>5, <2>1, <2>3, <2>5
  <2>6. CASE i \in 1 .. Len(subs[r]) /\ j = Len(subs[r]) + 1
    BY <1>5, <2>1, <2>3, <2>6
  <2>7. CASE i = Len(subs[r]) + 1 /\ j = Len(subs[r]) + 1
    BY <2>7
  <2> QED BY <1>6, <2>4, <2>5, <2>6, <2>7
<1>9. \A d \in Listed(r)' : d = c \/ d \in Listed(r)
  BY <1>5, <1>6, <1>7 DEF Listed
<1>10. \A q \in Rpcs : q # r => Listed(q)' = Listed(q)
  BY <1>4 DEF Listed
<1>11. \A q \in Rpcs : \A d \in Listed(q)' : Announced(d)' /\ rpc'[d] = q
  BY <1>1, <1>9, <1>10 DEF MemberInv, Announced
<1>12. \A q \in Rpcs : joins'[q] # None =>
         Announced(joins[q])' /\ rpc'[joins'[q]] = q /\ joins'[q] \notin Listed(q)'
  BY <1>3, <1>4, <1>10 DEF MemberInv, Announced
<1>13. \A q \in Rpcs : \A i, j \in 1 .. Len(subs'[q]) : subs'[q][i] = subs'[q][j] => i = j
  BY <1>4, <1>8 DEF MemberInv
<1> QED BY <1>11, <1>12, <1>13 DEF MemberInv

LEMMA PartMember ==
  ASSUME TypeOK, MemberInv, NEW r \in Rpcs, Part(r), UNCHANGED <<at, rpc>>
  PROVE  MemberInv'
<1>1. joins' = joins /\ subs' = [subs EXCEPT ![r] = Without(subs[r], parts[r])]
  BY DEF Part, TypeOK
<1>2. \A q \in Rpcs : q # r => subs'[q] = subs[q]
  BY <1>1 DEF TypeOK
<1>3. subs[r] \in Seq(Clients) /\ subs'[r] = Without(subs[r], parts[r])
  BY <1>1 DEF TypeOK
<1>4. \A i, j \in 1 .. Len(subs[r]) : subs[r][i] = subs[r][j] => i = j
  BY DEF MemberInv
<1>5. /\ \A j \in 1 .. Len(subs'[r]) : \E i \in 1 .. Len(subs[r]) : subs[r][i] = subs'[r][j]
      /\ \A i, j \in 1 .. Len(subs'[r]) : subs'[r][i] = subs'[r][j] => i = j
  BY <1>3, <1>4, WithoutOne
<1>6. \A q \in Rpcs : \A d \in Listed(q)' : d \in Listed(q)
  BY <1>2, <1>5 DEF Listed
<1>7. \A q \in Rpcs : \A d \in Listed(q)' : Announced(d)' /\ rpc'[d] = q
  BY <1>6 DEF MemberInv, Announced
<1>8. \A q \in Rpcs : joins'[q] # None =>
        Announced(joins[q])' /\ rpc'[joins'[q]] = q /\ joins'[q] \notin Listed(q)'
  BY <1>1, <1>6 DEF MemberInv, Announced
<1>9. \A q \in Rpcs : \A i, j \in 1 .. Len(subs'[q]) : subs'[q][i] = subs'[q][j] => i = j
  BY <1>2, <1>5 DEF MemberInv
<1> QED BY <1>7, <1>8, <1>9 DEF MemberInv

LEMMA MemberStep ==
  ASSUME TypeOK, MemberInv, CurInv, SendingInv, PlaceInv, Next
  PROVE  MemberInv'
<1> USE DEF input, router, chans, works, streams
<1>1. CASE TakeEvent
  <2>1. Settled
    BY <1>1 DEF TakeEvent, Settled, Announced
  <2> QED BY <2>1, SettledKeeps
<1>2. CASE Push
  <2>1. Settled
    BY <1>2 DEF Push, Settled, Announced
  <2> QED BY <2>1, SettledKeeps
<1>3. CASE Send
  <2>1. Settled
    BY <1>3 DEF Send, Settled, Announced
  <2> QED BY <2>1, SettledKeeps
<1>4. CASE CloseRouter
  <2>1. Settled
    BY <1>4 DEF CloseRouter, Settled, Announced
  <2> QED BY <2>1, SettledKeeps
<1>5. CASE StopRouter
  <2>1. Settled
    BY <1>5 DEF StopRouter, Settled, Announced
  <2> QED BY <2>1, SettledKeeps
<1>6. CASE Drained
  <2>1. Settled
    BY <1>6 DEF Drained, Settled, Announced
  <2> QED BY <2>1, SettledKeeps
<1>7. CASE Return
  <2>1. Settled
    BY <1>7 DEF Return, Settled, Announced
  <2> QED BY <2>1, SettledKeeps
<1>8. CASE InputClosed
  <2>1. Settled
    BY <1>8 DEF InputClosed, Settled, Announced
  <2> QED BY <2>1, SettledKeeps
<1>9. ASSUME NEW r \in Rpcs, SelectStop(r) PROVE MemberInv'
  <2>1. Settled
    BY <1>9 DEF SelectStop, Settled, Announced, TypeOK
  <2> QED BY <2>1, SettledKeeps
<1>10. ASSUME NEW r \in Rpcs, SelectClosed(r) PROVE MemberInv'
  <2>1. Settled
    BY <1>10 DEF SelectClosed, Settled, Announced, TypeOK
  <2> QED BY <2>1, SettledKeeps
<1>11. ASSUME NEW r \in Rpcs, SelectEvent(r) PROVE MemberInv'
  <2>1. Settled
    BY <1>11 DEF SelectEvent, Settled, Announced, TypeOK
  <2> QED BY <2>1, SettledKeeps
<1>12. ASSUME NEW r \in Rpcs, Offer(r) PROVE MemberInv'
  <2>1. Settled
    BY <1>12 DEF Offer, Settled, Announced, TypeOK
  <2> QED BY <2>1, SettledKeeps
<1>13. ASSUME NEW r \in Rpcs, Skip(r) PROVE MemberInv'
  <2>1. Settled
    BY <1>13 DEF Skip, Settled, Announced, TypeOK
  <2> QED BY <2>1, SettledKeeps
<1>14. ASSUME NEW c \in Clients, Open(c) PROVE MemberInv'
  <2>1. Settled
    BY <1>14 DEF Open, Settled, Announced, TypeOK
  <2> QED BY <2>1, SettledKeeps
<1>15. ASSUME NEW c \in Clients, Received(c) PROVE MemberInv'
  <2>1. Settled
    BY <1>15 DEF Received, Settled, Announced, TypeOK
  <2> QED BY <2>1, SettledKeeps
<1>16. ASSUME NEW c \in Clients, RecvFails(c) PROVE MemberInv'
  <2>1. Settled
    BY <1>16 DEF RecvFails, Settled, Announced, TypeOK
  <2> QED BY <2>1, SettledKeeps
<1>17. ASSUME NEW c \in Clients, HangUp(c) PROVE MemberInv'
  <2>1. Settled
    BY <1>17 DEF HangUp, Settled, Announced, TypeOK
  <2> QED BY <2>1, SettledKeeps
<1>18. ASSUME NEW c \in Clients, Left(c) PROVE MemberInv'
  <2>1. Settled
    BY <1>18 DEF Left, Settled, Announced, TypeOK
  <2> QED BY <2>1, SettledKeeps
<1>19. ASSUME NEW c \in Clients, SendMsg(c) PROVE MemberInv'
  <2>1. Settled
    BY <1>19 DEF SendMsg, Settled, Announced, TypeOK
  <2> QED BY <2>1, SettledKeeps
<1>20. ASSUME NEW c \in Clients, Unsubscribe(c) PROVE MemberInv'
  <2>1. Settled
    BY <1>20 DEF Unsubscribe, Settled, Announced, TypeOK
  <2> QED BY <2>1, SettledKeeps
<1>21. ASSUME NEW c \in Clients, Unsubscribed(c) PROVE MemberInv'
  <2>1. Settled
    BY <1>21 DEF Unsubscribed, Settled, Announced, TypeOK
  <2> QED BY <2>1, SettledKeeps
<1>22. ASSUME NEW r \in Rpcs, Poll(r) PROVE MemberInv'
  <2>1. UNCHANGED <<at, rpc>>
    BY <1>22 DEF Poll
  <2>2. CASE Join(r)
    BY <2>1, <2>2, JoinMember
  <2>3. CASE Part(r)
    BY <2>1, <2>3, PartMember
  <2>4. CASE UNCHANGED <<subs, joins>>
    BY <2>1, <2>4, SettledKeeps DEF Settled, Announced
  <2> QED BY <1>22, <2>2, <2>3, <2>4 DEF Poll
<1>23. ASSUME NEW r \in Rpcs, SelectMember(r) PROVE MemberInv'
  <2>1. UNCHANGED <<at, rpc>>
    BY <1>23 DEF SelectMember
  <2>2. CASE Join(r)
    BY <2>1, <2>2, JoinMember
  <2>3. CASE Part(r)
    BY <2>1, <2>3, PartMember
  <2>4. CASE UNCHANGED <<subs, joins>>
    BY <2>1, <2>4, SettledKeeps DEF Settled, Announced
  <2> QED BY <1>23, <2>2, <2>3, <2>4 DEF SelectMember
<1>24. ASSUME NEW c \in Clients, Subscribe(c) PROVE MemberInv'
  <2>1. at[c] = "join" /\ UNCHANGED <<subs, rpc>>
    BY <1>24, SubscribeIs
  <2>2. CASE at' = [at EXCEPT ![c] = "loop"] /\ joins' = [joins EXCEPT ![rpc[c]] = c]
    BY <2>1, <2>2, Announcement
  <2>3. CASE at' = [at EXCEPT ![c] = "loop"] /\ joins' = joins
    <3>1. Settled
      BY <2>1, <2>3 DEF Settled, Announced, TypeOK
    <3> QED BY <3>1, SettledKeeps
  <2>4. CASE at' = [at EXCEPT ![c] = "joining"] /\ joins' = joins
    <3>1. Settled
      BY <2>1, <2>4 DEF Settled, Announced, TypeOK
    <3> QED BY <3>1, SettledKeeps
  <2> QED BY <1>24, <2>2, <2>3, <2>4, SubscribeIs
<1>25. ASSUME NEW c \in Clients, Subscribed(c) PROVE MemberInv'
  BY <1>25, Announcement DEF Subscribed
<1> QED BY <1>1, <1>2, <1>3, <1>4, <1>5, <1>6, <1>7, <1>8, <1>9, <1>10, <1>11, <1>12, <1>13, <1>14, <1>15, <1>16, <1>17, <1>18, <1>19, <1>20, <1>21, <1>22, <1>23, <1>24, <1>25
       DEF Next, Main, Publisher, Receive, Serve
-----------------------------------------------------------------------------
(* The events.                                                             *)

\* Nothing happens to an event.
Quiet ==
  /\ UNCHANGED <<behaviour, taken, queue, cur, got>>
  /\ \A r \in Rpcs : /\ Busy(r)' <=> Busy(r)
                     /\ pub[r] = "await" => pub'[r] = "await"
                     /\ Busy(r) => subs'[r] = subs[r]
  /\ \A c \in Clients : /\ at'[c] = "sending" => at[c] = "sending"
                        /\ at[c] # "none" => at'[c] # "none" /\ rpc'[c] = rpc[c]
  /\ Given' => Given /\ key' = key

LEMMA GotTypes ==
  ASSUME TypeOK
  PROVE  /\ \A c \in Clients : got[c] \in Seq(Numbers) /\ Len(got[c]) \in Nat
         /\ \A c \in Clients : \A i \in 1 .. Len(got[c]) : got[c][i] \in Numbers
         /\ \A r \in Rpcs : queue[r] \in Numbers \cup {None} /\ cur[r].e \in Numbers \cup {None}
         /\ \A r \in Rpcs : cur[r].rest \in Seq(Clients) /\ subs[r] \in Seq(Clients)
         /\ \A r \in Rpcs : Ahead(r) \subseteq Clients /\ Listed(r) \subseteq Clients
         /\ taken \in Nat /\ Numbers \subseteq Nat /\ None \notin Numbers
<1>1. \A c \in Clients : got[c] \in Seq(Numbers)
  BY DEF TypeOK
<1>2. \A r \in Rpcs : cur[r].rest \in Seq(Clients) /\ subs[r] \in Seq(Clients)
  BY DEF TypeOK
<1>3. \A c \in Clients : \A i \in 1 .. Len(got[c]) : got[c][i] \in Numbers
  BY <1>1
<1>4. \A r \in Rpcs : Ahead(r) \subseteq Clients /\ Listed(r) \subseteq Clients
  BY <1>2 DEF Ahead, Listed
<1>5. \A r \in Rpcs : queue[r] \in Numbers \cup {None} /\ cur[r].e \in Numbers \cup {None}
  BY DEF TypeOK
<1>6. taken \in Nat /\ Numbers \subseteq Nat /\ None \notin Numbers
  BY DEF TypeOK, Numbers
<1> QED BY <1>1, <1>2, <1>3, <1>4, <1>5, <1>6

LEMMA QuietKeeps ==
  ASSUME TypeOK, MemberInv, EventInv, Quiet
  PROVE  EventInv'
<1> USE DEF EventInv
<1>1. \A r \in Rpcs : /\ Busy(r)' <=> Busy(r)
                      /\ Ahead(r)' = Ahead(r) /\ cur'[r] = cur[r] /\ queue'[r] = queue[r]
                      /\ Busy(r) => Listed(r)' = Listed(r)
  BY DEF Quiet, Ahead, Listed
<1>2. \A c, e : Has(c, e)' <=> Has(c, e)
  BY DEF Quiet, Has
<1>3. CurInv'
  BY <1>1, <1>2 DEF CurInv
<1>4. SendingInv'
  <2>1. ASSUME NEW c \in Clients, at'[c] = "sending"
        PROVE  pub'[rpc'[c]] = "await" /\ c = Head(cur'[rpc'[c]].rest)
    <3>1. at[c] = "sending" /\ rpc'[c] = rpc[c]
      BY <2>1 DEF Quiet
    <3>2. rpc[c] \in Rpcs
      BY <3>1 DEF MemberInv
    <3> QED BY <1>1, <3>1, <3>2 DEF Quiet, SendingInv
  <2> QED BY <2>1 DEF SendingInv
<1>5. PlaceInv'
  <2>1. taken' = taken /\ behaviour' = behaviour /\ (Given' => Given /\ key' = key)
    BY DEF Quiet
  <2>2. \A e : Fresh(e)' <=> Fresh(e)
    BY <1>2 DEF Fresh
  <2> QED BY <1>1, <2>1, <2>2 DEF PlaceInv
<1>6. PastInv'
  <2>1. taken' = taken /\ got' = got /\ (Given' => Given)
    BY DEF Quiet
  <2>2. ASSUME NEW c \in Clients, NEW i \in 1 .. Len(got[c])
        PROVE  /\ at'[c] # "none" /\ got[c][i] <= taken /\ (Given => got[c][i] < taken)
               /\ queue'[rpc'[c]] # None => got[c][i] < queue'[rpc'[c]]
               /\ Busy(rpc[c])' => got[c][i] <= cur'[rpc'[c]].e
               /\ Busy(rpc[c])' /\ got[c][i] = cur'[rpc'[c]].e => c \notin Ahead(rpc[c])'
    <3>1. at[c] # "none"
      BY DEF PastInv
    <3>2. rpc[c] \in Rpcs /\ rpc'[c] = rpc[c] /\ at'[c] # "none"
      BY <3>1 DEF MemberInv, Quiet
    <3>3. /\ Busy(rpc[c])' <=> Busy(rpc[c])
          /\ Ahead(rpc[c])' = Ahead(rpc[c])
          /\ cur'[rpc'[c]] = cur[rpc[c]] /\ queue'[rpc'[c]] = queue[rpc[c]]
      BY <1>1, <3>2 DEF Busy, Ahead
    <3> QED BY <3>2, <3>3 DEF PastInv
  <2> QED BY <2>1, <2>2 DEF PastInv
<1>7. DeliveredOnce'
  BY <1>2 DEF DeliveredOnce, InOrder, RandomOnce, Quiet
<1> QED BY <1>3, <1>4, <1>5, <1>6, <1>7

\* The next event of the unit: all others came before it.
LEMMA TakeEventKeeps ==
  ASSUME TypeOK, MemberInv, EventInv, TakeEvent
  PROVE  EventInv'
<1> USE DEF EventInv
<1>1. UNCHANGED <<behaviour, queue, cur, got, pub, subs, at, rpc>>
  BY DEF TakeEvent, chans, works, streams
<1>2. taken' = taken + 1 /\ taken + 1 \in Numbers /\ ~Given
  BY DEF TakeEvent, Given, TypeOK, Numbers
<1>3. Given' => key' \in Rpcs
  BY <1>2 DEF TakeEvent, Given
<1>4. CurInv' /\ SendingInv' /\ DeliveredOnce'
  <2>1. CurInv'
    <3>1. \A r \in Rpcs : (Busy(r)' <=> Busy(r)) /\ Ahead(r)' = Ahead(r) /\ Listed(r)' = Listed(r)
      BY <1>1 DEF Busy, Ahead, Listed
    <3>2. \A c, e : Has(c, e)' <=> Has(c, e)
      BY <1>1 DEF Has
    <3> QED BY <1>1, <3>1, <3>2 DEF CurInv
  <2>2. SendingInv'
    BY <1>1 DEF SendingInv
  <2>3. DeliveredOnce'
    BY <1>1 DEF DeliveredOnce, InOrder, RandomOnce, Has
  <2> QED BY <2>1, <2>2, <2>3
<1>5. PlaceInv'
  <2>1. \A e : Fresh(e)' <=> Fresh(e)
    BY <1>1 DEF Fresh, Has
  <2>2. \A r \in Rpcs : /\ Busy(r)' <=> Busy(r)
                        /\ cur'[r] = cur[r] /\ queue'[r] = queue[r]
    BY <1>1 DEF Busy
  <2>3. \A r \in Rpcs : queue[r] # None => queue[r] <= taken + 1 /\ queue[r] < taken + 1
    BY GotTypes DEF PlaceInv
  <2>4. \A r \in Rpcs : Busy(r) => cur[r].e <= taken + 1 /\ cur[r].e < taken + 1
    BY GotTypes DEF PlaceInv, CurInv
  <2> QED BY <1>1, <1>2, <1>3, <2>1, <2>2, <2>3, <2>4 DEF PlaceInv
<1>6. PastInv'
  <2>1. \A c \in Clients : \A i \in 1 .. Len(got[c]) :
          got[c][i] <= taken + 1 /\ got[c][i] < taken + 1
    BY GotTypes DEF PastInv
  <2> QED BY <1>1, <1>2, <2>1 DEF PastInv, Busy, Ahead
<1> QED BY <1>4, <1>5, <1>6

\* The event in hand goes into the channel of its publisher, behind all others.
LEMMA PutKeeps ==
  ASSUME TypeOK, MemberInv, EventInv, Given,
         queue[key] = None, queue' = [queue EXCEPT ![key] = taken], main' = "take",
         UNCHANGED <<behaviour, taken, cur, got, subs, at, rpc>>,
         \A r \in Rpcs : pub'[r] = pub[r] \/ (pub[r] = "none" /\ pub'[r] = "poll")
  PROVE  EventInv'
<1> USE DEF EventInv
<1>1. key \in Rpcs /\ taken \in Numbers /\ ~Given'
  BY DEF PlaceInv, Given
<1>2. \A r \in Rpcs : queue'[r] = IF r = key THEN taken ELSE queue[r]
  BY DEF TypeOK
<1>3. \A r \in Rpcs : (Busy(r)' <=> Busy(r)) /\ Ahead(r)' = Ahead(r) /\ Listed(r)' = Listed(r)
  BY DEF Busy, Ahead, Listed
<1>4. \A c, e : Has(c, e)' <=> Has(c, e)
  BY DEF Has
<1>5. CurInv' /\ DeliveredOnce'
  BY <1>3, <1>4 DEF CurInv, DeliveredOnce, InOrder, RandomOnce
<1>6. SendingInv'
  <2>1. \A c \in Clients : at[c] = "sending" => rpc[c] \in Rpcs
    BY DEF MemberInv
  <2> QED BY <2>1 DEF SendingInv
<1>7. PlaceInv'
  <2>1. \A e : Fresh(e)' <=> Fresh(e)
    BY <1>4 DEF Fresh
  <2>2. Fresh(taken)
    BY GotTypes DEF PastInv, Fresh, Has
  <2>3. \A r \in Rpcs : Busy(r) => cur[r].e < taken /\ cur[r].e # taken
    BY GotTypes DEF PlaceInv, CurInv
  <2>4. \A r \in Rpcs : queue[r] # None => queue[r] # taken
    BY GotTypes DEF PlaceInv
  <2>5. taken <= taken
    BY GotTypes
  <2> QED BY <1>1, <1>2, <1>3, <2>1, <2>2, <2>3, <2>4, <2>5 DEF PlaceInv
<1>8. PastInv'
  <2>1. ASSUME NEW c \in Clients, NEW i \in 1 .. Len(got[c])
        PROVE  /\ at[c] # "none" /\ got[c][i] <= taken
               /\ queue'[rpc[c]] # None => got[c][i] < queue'[rpc[c]]
               /\ Busy(rpc[c])' => got[c][i] <= cur[rpc[c]].e
               /\ Busy(rpc[c])' /\ got[c][i] = cur[rpc[c]].e => c \notin Ahead(rpc[c])'
    <3>1. at[c] # "none" /\ got[c][i] < taken /\ got[c][i] <= taken
      BY DEF PastInv
    <3>2. rpc[c] \in Rpcs
      BY <3>1 DEF MemberInv
    <3>3. (Busy(rpc[c])' <=> Busy(rpc[c])) /\ Ahead(rpc[c])' = Ahead(rpc[c])
      BY <1>3, <3>2 DEF Busy, Ahead
    <3> QED BY <1>2, <3>1, <3>2, <3>3 DEF PastInv
  <2> QED BY <1>1, <2>1 DEF PastInv
<1> QED BY <1>5, <1>6, <1>7, <1>8
\* An event leaves the channel of its publisher: it is reported, or published to the
\* subscribers in some order.
LEMMA SelectKeeps ==
  ASSUME TypeOK, MemberInv, EventInv, NEW r \in Rpcs, SelectEvent(r)
  PROVE  EventInv'
<1> USE DEF EventInv
<1>1. /\ ~Busy(r) /\ queue[r] # None /\ queue[r] \in Numbers
      /\ queue' = [queue EXCEPT ![r] = None]
      /\ UNCHANGED <<behaviour, taken, main, key, got, subs, at, rpc>>
  BY DEF SelectEvent, Busy, TypeOK, input, streams
<1>2. \A q \in Rpcs : queue'[q] = IF q = r THEN None ELSE queue[q]
  BY <1>1 DEF TypeOK
<1>3. \A c, e : Has(c, e)' <=> Has(c, e)
  BY <1>1 DEF Has
<1>4. \A c \in Clients : ~(at[c] = "sending" /\ rpc[c] = r)
  BY <1>1 DEF SendingInv, Busy
<1>5. \A q \in Rpcs : q # r => pub'[q] = pub[q] /\ cur'[q] = cur[q]
  <2>1. CASE Report(r, queue[r])
    BY <2>1 DEF Report, TypeOK
  <2>2. CASE ~Report(r, queue[r])
    BY <2>2 DEF SelectEvent, TypeOK
  <2> QED BY <2>1, <2>2
<1>6. \A q \in Rpcs : q # r => /\ Busy(q)' <=> Busy(q)
                               /\ Ahead(q)' = Ahead(q)
  BY <1>5 DEF Busy, Ahead
<1>7. \A q \in Rpcs : Listed(q)' = Listed(q)
  BY <1>1 DEF Listed
<1>8. \/ ~Busy(r)' /\ cur'[r] = Idle
      \/ /\ Busy(r)' /\ cur'[r].e = queue[r] /\ cur'[r].rest # <<>>
         /\ Ahead(r)' = Listed(r)
         /\ \A i, j \in 1 .. Len(cur'[r].rest) : cur'[r].rest[i] = cur'[r].rest[j] => i = j
  <2>1. CASE Report(r, queue[r])
    BY <2>1 DEF Report, TypeOK, Busy
  <2>2. CASE ~Report(r, queue[r])
    <3>1. PICK order \in Orders(r) :
            cur' = [cur EXCEPT ![r] = [e |-> queue[r], rest |-> order, missed |-> {}]]
      BY <2>2 DEF SelectEvent
    <3>2. cur'[r] = [e |-> queue[r], rest |-> order, missed |-> {}]
      BY <3>1 DEF TypeOK
    <3>3. subs[r] # <<>> /\ pub'[r] = "offer"
      BY <2>2 DEF SelectEvent, TypeOK
    <3>4. /\ order \in Seq(Clients) /\ Len(order) = Len(subs[r])
          /\ {order[i] : i \in 1 .. Len(order)} = Listed(r)
          /\ \A i, j \in 1 .. Len(order) : order[i] = order[j] => i = j
      BY OrderOf
    <3>5. order # <<>>
      <4>1. subs[r] \in Seq(Clients)
        BY DEF TypeOK
      <4> QED BY <3>3, <3>4, <4>1, EmptySeq
    <3>6. Ahead(r)' = Listed(r)
      BY <3>2, <3>4 DEF Ahead
    <3>7. cur'[r].e = queue[r] /\ cur'[r].rest = order
      BY <3>2
    <3> QED BY <3>3, <3>4, <3>5, <3>6, <3>7 DEF Busy
  <2> QED BY <2>1, <2>2
<1>9. Busy(r)' => cur'[r].e = queue[r]
  BY <1>8 DEF Idle, Busy
<1>10. CurInv'
  <2>1. ASSUME NEW q \in Rpcs, q # r
        PROVE  IF Busy(q)
               THEN /\ cur'[q].e \in Numbers /\ cur'[q].rest # <<>>
                    /\ Ahead(q)' \subseteq Listed(q)'
                    /\ \A i, j \in 1 .. Len(cur'[q].rest) :
                         cur'[q].rest[i] = cur'[q].rest[j] => i = j
                    /\ \A c \in Listed(q)' :
                         c \in Ahead(q)' \/ c \in cur'[q].missed \/ Has(c, cur[q].e)'
               ELSE cur'[q] = Idle
    BY <1>3, <1>5, <1>6, <1>7, <2>1 DEF CurInv
  <2>2. IF Busy(r)'
        THEN /\ cur'[r].e \in Numbers /\ cur'[r].rest # <<>>
             /\ Ahead(r)' \subseteq Listed(r)'
             /\ \A i, j \in 1 .. Len(cur'[r].rest) : cur'[r].rest[i] = cur'[r].rest[j] => i = j
             /\ \A c \in Listed(r)' : c \in Ahead(r)'
        ELSE cur'[r] = Idle
    BY <1>1, <1>7, <1>8
  <2> QED BY <1>6, <2>1, <2>2 DEF CurInv
<1>11. SendingInv'
  <2>1. \A c \in Clients : at[c] = "sending" => rpc[c] \in Rpcs /\ rpc[c] # r
    BY <1>4 DEF MemberInv
  <2> QED BY <1>1, <1>5, <2>1 DEF SendingInv
<1>12. PlaceInv'
  <2>1. \A e : Fresh(e)' <=> Fresh(e)
    BY <1>3 DEF Fresh
  <2>2. Given' <=> Given
    BY <1>1 DEF Given
  <2>3. ASSUME NEW q \in Rpcs, queue'[q] # None
        PROVE  /\ queue'[q] <= taken /\ (Given => queue'[q] < taken)
               /\ Fresh(queue[q])'
               /\ \A p \in Rpcs : p # q => queue'[p] # queue'[q]
               /\ \A p \in Rpcs : Busy(p)' => cur'[p].e # queue'[q]
               /\ Busy(q)' => cur'[q].e < queue'[q]
    <3>1. q # r /\ queue'[q] = queue[q] /\ queue[q] # None
      BY <1>2, <2>3
    <3>2. \A p \in Rpcs : Busy(p)' => cur'[p].e # queue[q]
      BY <1>1, <1>5, <1>6, <1>9, <3>1 DEF PlaceInv
    <3>3. \A p \in Rpcs : p # q => queue'[p] # queue[q]
      BY <1>2, <3>1 DEF PlaceInv
    <3>4. Busy(q)' => cur'[q].e < queue[q]
      BY <1>5, <1>6, <3>1 DEF PlaceInv
    <3>5. Fresh(queue[q]) /\ queue[q] <= taken /\ (Given => queue[q] < taken)
      BY <3>1 DEF PlaceInv
    <3>6. Fresh(queue[q])'
      BY <1>3, <3>1, <3>5 DEF Fresh
    <3> QED BY <3>1, <3>2, <3>3, <3>4, <3>5, <3>6
  <2>4. ASSUME NEW q \in Rpcs, Busy(q)'
        PROVE  /\ cur'[q].e <= taken /\ (Given => cur'[q].e < taken)
               /\ behaviour = "Random" => Fresh(cur[q].e)'
               /\ \A p \in Rpcs : p # q /\ Busy(p)' => cur'[p].e # cur'[q].e
    <3>1. CASE q # r
      <4>1. cur'[q] = cur[q] /\ Busy(q)
        BY <1>5, <1>6, <2>4, <3>1
      <4>2. \A p \in Rpcs : p # q /\ Busy(p)' => cur'[p].e # cur[q].e
        BY <1>1, <1>5, <1>6, <1>9, <4>1 DEF PlaceInv
      <4>3. behaviour = "Random" => Fresh(cur[q].e)'
        BY <1>3, <4>1 DEF PlaceInv, Fresh
      <4> QED BY <4>1, <4>2, <4>3 DEF PlaceInv
    <3>2. CASE q = r
      <4>1. cur'[r].e = queue[r]
        BY <1>9, <2>4, <3>2
      <4>2. \A p \in Rpcs : p # r /\ Busy(p)' => cur'[p].e # queue[r]
        BY <1>1, <1>5, <1>6 DEF PlaceInv
      <4>3. Fresh(queue[r]) /\ queue[r] <= taken /\ (Given => queue[r] < taken)
        BY <1>1 DEF PlaceInv
      <4>4. Fresh(cur[q].e)'
        BY <1>3, <3>2, <4>1, <4>3 DEF Fresh
      <4> QED BY <3>2, <4>1, <4>2, <4>3, <4>4
    <3> QED BY <3>1, <3>2
  <2> QED BY <1>1, <2>2, <2>3, <2>4 DEF PlaceInv
<1>13. PastInv'
  <2>1. ASSUME NEW c \in Clients, NEW i \in 1 .. Len(got[c])
        PROVE  /\ at[c] # "none" /\ got[c][i] <= taken /\ (Given => got[c][i] < taken)
               /\ queue'[rpc[c]] # None => got[c][i] < queue'[rpc[c]]
               /\ Busy(rpc[c])' => got[c][i] <= cur'[rpc[c]].e
               /\ Busy(rpc[c])' /\ got[c][i] = cur'[rpc[c]].e => c \notin Ahead(rpc[c])'
    <3>1. at[c] # "none" /\ rpc[c] \in Rpcs
      BY DEF PastInv, MemberInv
    <3>2. CASE rpc[c] # r
      <4>1. /\ Busy(rpc[c])' <=> Busy(rpc[c])
            /\ Ahead(rpc[c])' = Ahead(rpc[c])
        BY <1>1, <1>6, <3>1, <3>2 DEF Busy, Ahead
      <4> QED BY <1>2, <1>5, <3>1, <3>2, <4>1 DEF PastInv
    <3>3. CASE rpc[c] = r
      <4>1. got[c][i] < queue[r] /\ got[c][i] <= queue[r] /\ got[c][i] # queue[r]
        BY <1>1, <3>3, GotTypes DEF PastInv
      <4>2. Busy(rpc[c])' => cur'[r].e = queue[r]
        BY <1>1, <1>9, <3>3 DEF Busy
      <4> QED BY <1>2, <3>1, <3>3, <4>1, <4>2 DEF PastInv
    <3> QED BY <3>2, <3>3
  <2> QED BY <1>1, <2>1 DEF PastInv, Given
<1>14. DeliveredOnce'
  BY <1>1, <1>3 DEF DeliveredOnce, InOrder, RandomOnce
<1> QED BY <1>10, <1>11, <1>12, <1>13, <1>14

\* A message goes to the stream whose turn it is.
LEMMA OfferKeeps ==
  ASSUME TypeOK, MemberInv, EventInv, NEW r \in Rpcs, Offer(r)
  PROVE  EventInv'
<1> USE DEF EventInv
<1>1. /\ pub[r] = "offer" /\ pub' = [pub EXCEPT ![r] = "await"]
      /\ at' = [at EXCEPT ![Head(cur[r].rest)] = "sending"]
      /\ UNCHANGED <<behaviour, taken, main, key, queue, cur, got, subs, rpc>>
  BY DEF Offer, input, chans
<1>2. \A q \in Rpcs : (Busy(q)' <=> Busy(q)) /\ Ahead(q)' = Ahead(q) /\ Listed(q)' = Listed(q)
  BY <1>1 DEF Busy, Ahead, Listed, TypeOK
<1>3. \A c, e : Has(c, e)' <=> Has(c, e)
  BY <1>1 DEF Has
<1>4. /\ Head(cur[r].rest) \in Clients /\ rpc[Head(cur[r].rest)] = r
      /\ at[Head(cur[r].rest)] # "none"
  <2>1. cur[r].rest \in Seq(Clients) /\ cur[r].rest # <<>> /\ Ahead(r) \subseteq Listed(r)
    BY <1>1 DEF CurInv, Busy, TypeOK
  <2>2. Head(cur[r].rest) \in Ahead(r)
    BY <2>1, TailOf DEF Ahead
  <2> QED BY <2>1, <2>2, TailOf DEF MemberInv, Announced
<1>5. CurInv' /\ DeliveredOnce'
  BY <1>1, <1>2, <1>3 DEF CurInv, DeliveredOnce, InOrder, RandomOnce
<1>6. SendingInv'
  <2>1. \A c \in Clients : at'[c] = "sending" => at[c] = "sending" \/ c = Head(cur[r].rest)
    BY <1>1, <1>4 DEF TypeOK
  <2>2. \A c \in Clients : at[c] = "sending" => rpc[c] \in Rpcs /\ rpc[c] # r
    BY <1>1 DEF SendingInv, MemberInv
  <2> QED BY <1>1, <1>4, <2>1, <2>2 DEF SendingInv, TypeOK
<1>7. PlaceInv'
  <2>1. \A e : Fresh(e)' <=> Fresh(e)
    BY <1>3 DEF Fresh
  <2> QED BY <1>1, <1>2, <2>1 DEF PlaceInv, Given
<1>8. PastInv'
  <2>1. \A c \in Clients : at[c] # "none" => at'[c] # "none" /\ rpc[c] \in Rpcs
    BY <1>1, <1>4 DEF MemberInv, TypeOK
  <2>2. \A c \in Clients : at[c] # "none" =>
          (Busy(rpc[c])' <=> Busy(rpc[c])) /\ Ahead(rpc[c])' = Ahead(rpc[c])
    BY <1>1, <1>2, <2>1 DEF Busy, Ahead
  <2> QED BY <1>1, <2>1, <2>2 DEF PastInv, Given
<1> QED BY <1>5, <1>6, <1>7, <1>8
\* The publisher is done with its event.
Over(r) ==
  pub' = [pub EXCEPT ![r] = "poll"] /\ cur' = [cur EXCEPT ![r] = Idle]

\* It goes on behind the first subscriber, who has the event or was missed.
Further(r, failed) ==
  /\ Len(cur[r].rest) # 1
  /\ pub' = [pub EXCEPT ![r] = "offer"]
  /\ cur' = [cur EXCEPT ![r] = [e |-> cur[r].e, rest |-> Tail(cur[r].rest),
                                missed |-> cur[r].missed \cup failed]]

\* The event was added to what a stream got.
Added(c, e) == got' = [got EXCEPT ![c] = Append(@, e)]

\* The subscriber whose turn it was is through.
Through(r, c) ==
  /\ Busy(r) /\ c = Head(cur[r].rest)
  /\ UNCHANGED <<behaviour, taken, main, key, queue, subs, rpc>>
  /\ \A d \in Clients : /\ at'[d] = "sending" => at[d] = "sending" /\ rpc[d] # r
                        /\ at[d] # "none" => at'[d] # "none"
  /\ \/ Added(c, cur[r].e) /\ Over(r)
     \/ Added(c, cur[r].e) /\ behaviour # "Random" /\ Further(r, {})
     \/ got' = got /\ Over(r)
     \/ got' = got /\ Further(r, {c})

\* What has changed then, procedure by procedure and stream by stream.
LEMMA ThroughIs ==
  ASSUME TypeOK, MemberInv, EventInv, NEW r \in Rpcs, NEW c, Through(r, c)
  PROVE  /\ c \in Clients /\ c \in Ahead(r) /\ rpc[c] = r /\ at[c] # "none"
         /\ cur[r].e \in Numbers /\ Busy(r)
         /\ \A q \in Rpcs : q # r => pub'[q] = pub[q] /\ cur'[q] = cur[q]
         /\ \/ ~Busy(r)' /\ cur'[r] = Idle
            \/ /\ Busy(r)' /\ cur'[r].e = cur[r].e /\ cur'[r].rest # <<>>
               /\ Ahead(r)' \subseteq Ahead(r) /\ c \notin Ahead(r)'
               /\ \A d \in Ahead(r) : d = c \/ d \in Ahead(r)'
               /\ \A i, j \in 1 .. Len(cur'[r].rest) :
                    cur'[r].rest[i] = cur'[r].rest[j] => i = j
               /\ cur[r].missed \subseteq cur'[r].missed
               /\ \/ Added(c, cur[r].e) /\ behaviour # "Random"
                  \/ got' = got /\ c \in cur'[r].missed
         /\ Added(c, cur[r].e) \/ got' = got
<1> USE DEF EventInv
<1>1. /\ cur[r].e \in Numbers /\ cur[r].rest # <<>> /\ cur[r].rest \in Seq(Clients)
      /\ Ahead(r) \subseteq Listed(r) /\ Busy(r) /\ c = Head(cur[r].rest)
      /\ \A i, j \in 1 .. Len(cur[r].rest) : cur[r].rest[i] = cur[r].rest[j] => i = j
  BY DEF CurInv, Through, TypeOK
<1>2. /\ c = cur[r].rest[1] /\ 1 \in 1 .. Len(cur[r].rest) /\ c \in Clients
      /\ Tail(cur[r].rest) \in Seq(Clients) /\ Len(Tail(cur[r].rest)) = Len(cur[r].rest) - 1
      /\ \A i \in 1 .. Len(Tail(cur[r].rest)) :
           Tail(cur[r].rest)[i] = cur[r].rest[i + 1] /\ i + 1 \in 1 .. Len(cur[r].rest)
      /\ \A i \in 1 .. Len(cur[r].rest) : i = 1 \/ i - 1 \in 1 .. Len(Tail(cur[r].rest))
  BY <1>1, TailOf
<1>3. c \in Ahead(r) /\ rpc[c] = r /\ at[c] # "none"
  <2>1. c \in Ahead(r)
    BY <1>2 DEF Ahead
  <2> QED BY <1>1, <2>1 DEF MemberInv, Announced
<1>4. \A q \in Rpcs : q # r => pub'[q] = pub[q] /\ cur'[q] = cur[q]
  <2>1. CASE Over(r)
    BY <2>1 DEF Over, TypeOK
  <2>2. ASSUME NEW F, Further(r, F) PROVE \A q \in Rpcs : q # r => pub'[q] = pub[q] /\ cur'[q] = cur[q]
    BY <2>2 DEF Further, TypeOK
  <2> QED BY <2>1, <2>2 DEF Through
<1>5. Over(r) => ~Busy(r)' /\ cur'[r] = Idle
  BY DEF Over, Busy, TypeOK
<1>6. ASSUME NEW F, Further(r, F)
      PROVE  /\ Busy(r)' /\ cur'[r].e = cur[r].e /\ cur'[r].rest # <<>>
             /\ Ahead(r)' \subseteq Ahead(r) /\ c \notin Ahead(r)'
             /\ \A d \in Ahead(r) : d = c \/ d \in Ahead(r)'
             /\ \A i, j \in 1 .. Len(cur'[r].rest) : cur'[r].rest[i] = cur'[r].rest[j] => i = j
             /\ cur[r].missed \subseteq cur'[r].missed /\ F \subseteq cur'[r].missed
  <2>1. cur'[r] = [e |-> cur[r].e, rest |-> Tail(cur[r].rest), missed |-> cur[r].missed \cup F]
    BY <1>6 DEF Further, TypeOK
  <2>2. /\ cur'[r].e = cur[r].e /\ cur'[r].rest = Tail(cur[r].rest)
        /\ cur'[r].missed = cur[r].missed \cup F
    BY <2>1
  <2>3. Busy(r)'
    BY <1>6 DEF Further, Busy, TypeOK
  <2>4. Tail(cur[r].rest) # <<>>
    <3>1. Len(cur[r].rest) # 1 /\ Len(cur[r].rest) \in Nat
      BY <1>1, <1>6 DEF Further
    <3>2. Len(Tail(cur[r].rest)) # 0
      BY <1>2, <3>1
    <3>3. Len(<<>>) = 0
      OBVIOUS
    <3> QED BY <3>2, <3>3
  <2> DEFINE rest == cur[r].rest
             tail == Tail(rest)
  <2>5. Ahead(r) = {rest[i] : i \in 1 .. Len(rest)} /\ Ahead(r)' = {tail[i] : i \in 1 .. Len(tail)}
    BY <2>2 DEF Ahead
  <2>6. /\ Len(rest) \in Nat /\ Len(tail) = Len(rest) - 1 /\ c = rest[1] /\ 1 \in 1 .. Len(rest)
        /\ \A i \in 1 .. Len(tail) : tail[i] = rest[i + 1] /\ i + 1 \in 1 .. Len(rest)
        /\ \A i, j \in 1 .. Len(rest) : rest[i] = rest[j] => i = j
        /\ \A i \in 1 .. Len(rest) : i = 1 \/ i - 1 \in 1 .. Len(tail)
    BY <1>1, <1>2
  <2>7. cur'[r].rest = tail
    BY <2>2
  <2> HIDE DEF rest, tail
  <2>8. \A i, j \in 1 .. Len(tail) : tail[i] = tail[j] => i = j
    BY <2>6
  <2>9. \A i \in 1 .. Len(tail) : tail[i] # c
    BY <2>6
  <2>10. \A i \in 1 .. Len(rest) : rest[i] = c \/ rest[i] = tail[i - 1]
    BY <2>6
  <2>11. Ahead(r)' \subseteq Ahead(r) /\ c \notin Ahead(r)'
    BY <2>5, <2>6, <2>9
  <2>12. \A d \in Ahead(r) : d = c \/ d \in Ahead(r)'
    BY <2>5, <2>6, <2>10
  <2> QED BY <2>2, <2>3, <2>4, <2>7, <2>8, <2>11, <2>12 DEF tail, rest
<1>7. \/ ~Busy(r)' /\ cur'[r] = Idle
      \/ Further(r, {}) /\ Added(c, cur[r].e) /\ behaviour # "Random"
      \/ Further(r, {c}) /\ got' = got
  BY <1>5 DEF Through
<1>8. Added(c, cur[r].e) \/ got' = got
  BY DEF Through
<1> QED BY <1>1, <1>2, <1>3, <1>4, <1>6, <1>7, <1>8
LEMMA ThroughKeeps ==
  ASSUME TypeOK, MemberInv, EventInv, NEW r \in Rpcs, NEW c, Through(r, c)
  PROVE  EventInv'
<1> USE DEF EventInv
<1>7. PICK e : e = cur[r].e
  OBVIOUS
<1>1. /\ c \in Clients /\ c \in Ahead(r) /\ rpc[c] = r /\ at[c] # "none"
      /\ e \in Numbers /\ Busy(r)
      /\ \A q \in Rpcs : q # r => pub'[q] = pub[q] /\ cur'[q] = cur[q]
  BY <1>7, ThroughIs
<1>2. \/ ~Busy(r)' /\ cur'[r] = Idle
      \/ /\ Busy(r)' /\ cur'[r].e = e /\ cur'[r].rest # <<>>
         /\ Ahead(r)' \subseteq Ahead(r) /\ c \notin Ahead(r)'
         /\ \A d \in Ahead(r) : d = c \/ d \in Ahead(r)'
         /\ \A i, j \in 1 .. Len(cur'[r].rest) : cur'[r].rest[i] = cur'[r].rest[j] => i = j
         /\ cur[r].missed \subseteq cur'[r].missed
         /\ \/ Added(c, e) /\ behaviour # "Random"
            \/ got' = got /\ c \in cur'[r].missed
  BY <1>7, ThroughIs
<1>3. Added(c, e) \/ got' = got
  BY <1>7, ThroughIs
<1>4. /\ UNCHANGED <<behaviour, taken, main, key, queue, subs, rpc>>
      /\ \A d \in Clients : /\ at'[d] = "sending" => at[d] = "sending" /\ rpc[d] # r
                            /\ at[d] # "none" => at'[d] # "none"
  BY DEF Through
<1>5. \A q \in Rpcs : q # r => /\ Busy(q)' <=> Busy(q)
                               /\ Ahead(q)' = Ahead(q)
  BY <1>1 DEF Busy, Ahead
<1>6. \A q \in Rpcs : Listed(q)' = Listed(q)
  BY <1>4 DEF Listed
<1>8. got[c] \in Seq(Numbers) /\ Len(got[c]) \in Nat
  BY <1>1, GotTypes
<1>9. Added(c, e) =>
        /\ got'[c] = Append(got[c], e) /\ Len(got'[c]) = Len(got[c]) + 1
        /\ \A i \in 1 .. Len(got[c]) : got'[c][i] = got[c][i]
        /\ got'[c][Len(got[c]) + 1] = e
        /\ \A d \in Clients : d # c => got'[d] = got[d]
  <2>1. Added(c, e) => got'[c] = Append(got[c], e) /\ \A d \in Clients : d # c => got'[d] = got[d]
    BY <1>1 DEF Added, TypeOK
  <2> QED BY <1>1, <1>8, <2>1, AppendProperties
<1>10. ASSUME NEW d \in Clients, NEW i \in 1 .. Len(got'[d])
       PROVE  \/ i \in 1 .. Len(got[d]) /\ got'[d][i] = got[d][i]
              \/ d = c /\ Added(c, e) /\ i = Len(got[c]) + 1 /\ got'[d][i] = e
  <2>1. CASE got' = got
    BY <2>1
  <2>2. CASE Added(c, e) /\ d # c
    BY <1>9, <2>2
  <2>3. CASE Added(c, e) /\ d = c
    <3>1. i \in 1 .. Len(got[c]) \/ i = Len(got[c]) + 1
      BY <1>8, <1>9, <2>3
    <3> QED BY <1>9, <2>3, <3>1
  <2> QED BY <1>3, <2>1, <2>2, <2>3
<1>11. \A d \in Clients : \A n : Has(d, n) => Has(d, n)'
  <2>1. \A d \in Clients : \A i \in 1 .. Len(got[d]) :
          i \in 1 .. Len(got'[d]) /\ got'[d][i] = got[d][i]
    <3>1. CASE got' = got
      BY <3>1
    <3>2. CASE Added(c, e)
      <4>1. \A i \in 1 .. Len(got[c]) : i \in 1 .. Len(got[c]) + 1
        BY <1>8
      <4> QED BY <1>9, <3>2, <4>1
    <3> QED BY <1>3, <3>1, <3>2
  <2> QED BY <2>1 DEF Has
<1>12. \A d \in Clients : \A n : Has(d, n)' => Has(d, n) \/ (d = c /\ n = e /\ Added(c, e))
  BY <1>10 DEF Has
<1>13. Added(c, e) => Has(c, e)'
  <2>1. Added(c, e) => Len(got[c]) + 1 \in 1 .. Len(got'[c])
    BY <1>8, <1>9
  <2> QED BY <1>9, <2>1 DEF Has
<1>14. \A n : n # e => (Fresh(n)' <=> Fresh(n))
  BY <1>11, <1>12 DEF Fresh
<1>15. CurInv'
  <2>1. ASSUME NEW q \in Rpcs, q # r
        PROVE  IF Busy(q)
               THEN /\ cur'[q].e \in Numbers /\ cur'[q].rest # <<>>
                    /\ Ahead(q)' \subseteq Listed(q)'
                    /\ \A i, j \in 1 .. Len(cur'[q].rest) :
                         cur'[q].rest[i] = cur'[q].rest[j] => i = j
                    /\ \A d \in Listed(q)' :
                         d \in Ahead(q)' \/ d \in cur'[q].missed \/ Has(d, cur[q].e)'
               ELSE cur'[q] = Idle
    <3>1. cur'[q] = cur[q] /\ Ahead(q)' = Ahead(q) /\ Listed(q)' = Listed(q)
      BY <1>1, <1>5, <1>6, <2>1
    <3>2. \A d \in Listed(q) : d \in Clients
      BY GotTypes
    <3>3. Busy(q) => \A d \in Listed(q) :
            d \in Ahead(q) \/ d \in cur[q].missed \/ Has(d, cur[q].e)'
      BY <1>11, <3>1, <3>2 DEF CurInv
    <3> QED BY <3>1, <3>3 DEF CurInv
  <2>2. IF Busy(r)'
        THEN /\ cur'[r].e \in Numbers /\ cur'[r].rest # <<>>
             /\ Ahead(r)' \subseteq Listed(r)'
             /\ \A i, j \in 1 .. Len(cur'[r].rest) : cur'[r].rest[i] = cur'[r].rest[j] => i = j
             /\ \A d \in Listed(r)' :
                  d \in Ahead(r)' \/ d \in cur'[r].missed \/ Has(d, cur[r].e)'
        ELSE cur'[r] = Idle
    <3>1. CASE ~Busy(r)'
      BY <1>2, <3>1
    <3>2. CASE Busy(r)'
      <4>1. cur'[r].e = e /\ cur'[r].e \in Numbers
        BY <1>1, <1>2, <3>2
      <4>2. ASSUME NEW d \in Listed(r)
            PROVE  d \in Ahead(r)' \/ d \in cur'[r].missed \/ Has(d, cur[r].e)'
        <5>1. d \in Clients
          BY <4>2, GotTypes
        <5>2. CASE d \in Ahead(r)
          <6>1. d \in Ahead(r)' \/ d = c
            BY <1>2, <3>2, <5>2
          <6>2. Has(c, cur[r].e)' \/ c \in cur'[r].missed
            BY <1>2, <1>13, <3>2, <4>1
          <6> QED BY <6>1, <6>2
        <5>3. CASE d \in cur[r].missed
          BY <1>2, <3>2, <5>3
        <5>4. CASE Has(d, e)
          <6>1. Has(d, e)'
            BY <1>11, <5>1, <5>4
          <6> QED BY <4>1, <6>1 DEF Has
        <5> QED BY <1>1, <1>7, <5>2, <5>3, <5>4 DEF CurInv
      <4> QED BY <1>1, <1>2, <1>6, <3>2, <4>1, <4>2 DEF CurInv
    <3> QED BY <3>1, <3>2
  <2> QED BY <1>5, <2>1, <2>2 DEF CurInv
<1>16. SendingInv'
  <2>1. \A d \in Clients : at[d] = "sending" => rpc[d] \in Rpcs
    BY DEF MemberInv
  <2> QED BY <1>1, <1>4, <2>1 DEF SendingInv
<1>17. PlaceInv'
  <2>1. ASSUME NEW q \in Rpcs, queue[q] # None
        PROVE  /\ Fresh(queue[q])'
               /\ \A p \in Rpcs : Busy(p)' => cur'[p].e # queue[q]
               /\ Busy(q)' => cur'[q].e < queue[q]
    <3>1. queue[q] # e
      BY <1>1, <1>7, <2>1 DEF PlaceInv
    <3>2. Fresh(queue[q])'
      <4>1. Fresh(queue[q])
        BY <2>1 DEF PlaceInv
      <4> QED BY <1>4, <1>11, <1>12, <3>1, <4>1 DEF Fresh
    <3>3. \A p \in Rpcs : Busy(p)' => Busy(p) /\ cur'[p].e = cur[p].e
      BY <1>1, <1>2, <1>5, <1>7
    <3> QED BY <2>1, <3>2, <3>3 DEF PlaceInv
  <2>2. ASSUME NEW q \in Rpcs, Busy(q)'
        PROVE  /\ cur'[q].e <= taken /\ (Given => cur'[q].e < taken)
               /\ behaviour = "Random" => Fresh(cur[q].e)'
               /\ \A p \in Rpcs : p # q /\ Busy(p)' => cur'[p].e # cur'[q].e
    <3>1. \A p \in Rpcs : Busy(p)' => Busy(p) /\ cur'[p].e = cur[p].e
      BY <1>1, <1>2, <1>5, <1>7
    <3>2. behaviour = "Random" => Fresh(cur[q].e)'
      <4>1. CASE q = r
        <5>1. behaviour = "Random" => got' = got
          BY <1>2, <2>2, <4>1
        <5>2. behaviour = "Random" => Fresh(cur[q].e)
          BY <2>2, <3>1 DEF PlaceInv
        <5> QED BY <3>1, <2>2, <5>1, <5>2 DEF Fresh, Has
      <4>2. CASE q # r
        <5>1. cur[q].e # e /\ cur'[q].e = cur[q].e
          BY <1>1, <1>7, <2>2, <3>1, <4>2 DEF PlaceInv
        <5>2. behaviour = "Random" => Fresh(cur[q].e)
          BY <2>2, <3>1 DEF PlaceInv
        <5> QED BY <1>12, <5>1, <5>2 DEF Fresh
      <4> QED BY <4>1, <4>2
    <3> QED BY <2>2, <3>1, <3>2 DEF PlaceInv
  <2> QED BY <1>4, <2>1, <2>2 DEF PlaceInv, Given
<1>18. PastInv'
  <2>1. ASSUME NEW d \in Clients, NEW i \in 1 .. Len(got'[d])
        PROVE  /\ at'[d] # "none" /\ got'[d][i] <= taken /\ (Given => got'[d][i] < taken)
               /\ queue[rpc[d]] # None => got'[d][i] < queue[rpc[d]]
               /\ Busy(rpc[d])' => got'[d][i] <= cur'[rpc[d]].e
               /\ Busy(rpc[d])' /\ got'[d][i] = cur'[rpc[d]].e => d \notin Ahead(rpc[d])'
    <3>1. \A p \in Rpcs : Busy(p)' => /\ Busy(p) /\ cur'[p].e = cur[p].e
                                      /\ Ahead(p)' \subseteq Ahead(p)
      BY <1>1, <1>2, <1>5, <1>7
    <3>2. CASE i \in 1 .. Len(got[d]) /\ got'[d][i] = got[d][i]
      <4>1. at[d] # "none" /\ rpc[d] \in Rpcs
        BY <3>2 DEF PastInv, MemberInv
      <4>2. Busy(rpc[d])' => /\ Busy(rpc[d]) /\ cur'[rpc[d]].e = cur[rpc[d]].e
                             /\ Ahead(rpc[d])' \subseteq Ahead(rpc[d])
        <5>1. rpc' = rpc
          BY <1>4
        <5>2. PICK p \in Rpcs : p = rpc[d]
          BY <4>1
        <5>3. (Busy(rpc[d])' <=> Busy(p)') /\ Ahead(rpc[d])' = Ahead(p)' /\ cur'[rpc[d]] = cur'[p]
          BY <5>1, <5>2 DEF Busy, Ahead
        <5> QED BY <3>1, <5>2, <5>3
      <4> QED BY <1>4, <3>2, <4>1, <4>2 DEF PastInv
    <3>3. CASE d = c /\ got'[d][i] = e
      <4>1. e <= taken /\ (Given => e < taken) /\ (queue[r] # None => e < queue[r]) /\ e <= e
        BY <1>1, <1>7, GotTypes DEF PlaceInv
      <4>2. Busy(r)' => cur'[r].e = e /\ c \notin Ahead(r)'
        BY <1>2
      <4>3. Busy(rpc[d])' => cur'[rpc[d]].e = e /\ d \notin Ahead(rpc[d])'
        BY <1>1, <1>4, <3>3, <4>2 DEF Busy, Ahead
      <4> QED BY <1>1, <1>4, <3>3, <4>1, <4>3
    <3> QED BY <1>10, <3>2, <3>3
  <2> QED BY <1>4, <2>1 DEF PastInv, Given
<1>19. InOrder'
  <2>1. ASSUME NEW d \in Clients, NEW i \in 1 .. Len(got'[d]), NEW j \in 1 .. Len(got'[d]), i < j
        PROVE  got'[d][i] < got'[d][j]
    <3>1. Len(got[d]) \in Nat /\ \A k \in 1 .. Len(got[d]) : got[d][k] \in Nat
      BY GotTypes
    <3>2. CASE j \in 1 .. Len(got[d]) /\ got'[d][j] = got[d][j]
      <4>1. i \in 1 .. Len(got[d])
        BY <2>1, <3>1, <3>2
      <4>2. i # Len(got[d]) + 1
        BY <3>1, <4>1
      <4>3. got'[d][i] = got[d][i]
        BY <1>10, <4>2
      <4> QED BY <2>1, <3>2, <4>1, <4>3 DEF DeliveredOnce, InOrder
    <3>3. CASE d = c /\ j = Len(got[c]) + 1 /\ got'[d][j] = e
      <4>1. i # Len(got[c]) + 1
        BY <2>1, <3>1, <3>3
      <4>2. i \in 1 .. Len(got[c]) /\ got'[d][i] = got[c][i]
        BY <1>10, <3>3, <4>1
      <4>3. got[c][i] <= e /\ got[c][i] # e
        BY <1>1, <1>7, <4>2 DEF PastInv
      <4>4. got[c][i] \in Nat /\ e \in Nat
        BY <1>1, <3>1, <3>3, <4>2, GotTypes
      <4> QED BY <3>3, <4>2, <4>3, <4>4
    <3> QED BY <1>10, <3>2, <3>3
  <2> QED BY <2>1 DEF InOrder
<1>20. RandomOnce'
  <2>1. CASE behaviour = "Random"
    <3>1. Fresh(e)
      BY <1>1, <1>7, <2>1 DEF PlaceInv
    <3>2. \A n \in Numbers : \A d, f \in Clients : Has(d, n) /\ Has(f, n) => d = f
      BY <2>1 DEF DeliveredOnce, RandomOnce
    <3>3. \A n \in Numbers : \A d, f \in Clients : Has(d, n)' /\ Has(f, n)' => d = f
      BY <1>12, <3>1, <3>2 DEF Fresh
    <3> QED BY <3>3 DEF RandomOnce
  <2>2. CASE behaviour # "Random"
    BY <1>4, <2>2 DEF RandomOnce
  <2> QED BY <2>1, <2>2
<1> QED BY <1>15, <1>16, <1>17, <1>18, <1>19, <1>20 DEF DeliveredOnce
\* Any other step of the program leaves the events alone.
LEMMA QuietStep ==
  ASSUME TypeOK, MemberInv, EventInv,
         \/ CloseRouter \/ StopRouter \/ Drained \/ Return \/ InputClosed
         \/ \E r \in Rpcs : Poll(r) \/ SelectMember(r) \/ SelectStop(r) \/ SelectClosed(r)
         \/ \E c \in Clients : \/ Open(c) \/ Received(c) \/ RecvFails(c) \/ Subscribe(c)
                               \/ Subscribed(c) \/ HangUp(c) \/ Left(c) \/ Unsubscribe(c)
                               \/ Unsubscribed(c)
  PROVE  Quiet
<1> USE DEF input, router, chans, works, streams, Quiet, Busy
<1>1. CASE CloseRouter
  BY <1>1 DEF CloseRouter, Given
<1>2. CASE StopRouter
  BY <1>2 DEF StopRouter, Given
<1>3. CASE Drained
  BY <1>3 DEF Drained, Given
<1>4. CASE Return
  BY <1>4 DEF Return, Given
<1>5. CASE InputClosed
  BY <1>5 DEF InputClosed, Given
<1>6. ASSUME NEW r \in Rpcs, Poll(r) PROVE Quiet
  <2>1. pub[r] \in {"poll", "select"} /\ \E b \in {"poll", "select"} : pub' = [pub EXCEPT ![r] = b]
    BY <1>6 DEF Poll
  <2>2. \A q \in Rpcs : q # r => subs'[q] = subs[q]
    <3>1. CASE Join(r)
      BY <3>1 DEF Join, TypeOK
    <3>2. CASE Part(r)
      BY <3>2 DEF Part, TypeOK
    <3> QED BY <1>6, <3>1, <3>2 DEF Poll
  <2>3. UNCHANGED <<behaviour, taken, main, key, queue, cur, got, at, rpc>>
    BY <1>6 DEF Poll
  <2> QED BY <2>1, <2>2, <2>3 DEF Given, TypeOK
<1>7. ASSUME NEW r \in Rpcs, SelectMember(r) PROVE Quiet
  <2>1. pub[r] \in {"poll", "select"} /\ \E b \in {"poll", "select"} : pub' = [pub EXCEPT ![r] = b]
    BY <1>7 DEF SelectMember
  <2>2. \A q \in Rpcs : q # r => subs'[q] = subs[q]
    <3>1. CASE Join(r)
      BY <3>1 DEF Join, TypeOK
    <3>2. CASE Part(r)
      BY <3>2 DEF Part, TypeOK
    <3> QED BY <1>7, <3>1, <3>2 DEF SelectMember
  <2>3. UNCHANGED <<behaviour, taken, main, key, queue, cur, got, at, rpc>>
    BY <1>7 DEF SelectMember
  <2> QED BY <2>1, <2>2, <2>3 DEF Given, TypeOK
<1>8. ASSUME NEW r \in Rpcs, SelectStop(r) PROVE Quiet
  BY <1>8 DEF SelectStop, Given, TypeOK
<1>9. ASSUME NEW r \in Rpcs, SelectClosed(r) PROVE Quiet
  BY <1>9 DEF SelectClosed, Given, TypeOK
<1>10. ASSUME NEW c \in Clients, Open(c) PROVE Quiet
  BY <1>10 DEF Open, Given, TypeOK
<1>11. ASSUME NEW c \in Clients, Received(c) PROVE Quiet
  BY <1>11 DEF Received, Given, TypeOK
<1>12. ASSUME NEW c \in Clients, RecvFails(c) PROVE Quiet
  BY <1>12 DEF RecvFails, Given, TypeOK
<1>13. ASSUME NEW c \in Clients, Subscribed(c) PROVE Quiet
  BY <1>13 DEF Subscribed, Given, TypeOK
<1>14. ASSUME NEW c \in Clients, HangUp(c) PROVE Quiet
  BY <1>14 DEF HangUp, Given, TypeOK
<1>15. ASSUME NEW c \in Clients, Left(c) PROVE Quiet
  BY <1>15 DEF Left, Given, TypeOK
<1>16. ASSUME NEW c \in Clients, Unsubscribed(c) PROVE Quiet
  BY <1>16 DEF Unsubscribed, Given, TypeOK
<1>17. ASSUME NEW c \in Clients, Subscribe(c) PROVE Quiet
  <2>1. at[c] = "join" /\ UNCHANGED <<behaviour, taken, main, key, queue, subs, cur, rpc, got>>
    BY <1>17, SubscribeIs
  <2>2. at' = [at EXCEPT ![c] = "loop"] \/ at' = [at EXCEPT ![c] = "joining"]
    BY <1>17, SubscribeIs
  <2>3. pub' = pub \/ pub' = Got(rpc[c])
    BY <1>17, SubscribeIs
  <2>4. \A r \in Rpcs : pub'[r] = pub[r] \/ (pub[r] = "none" /\ pub'[r] = "poll")
    BY <2>3 DEF Got, TypeOK
  <2> QED BY <2>1, <2>2, <2>4 DEF Given, TypeOK
<1>18. ASSUME NEW c \in Clients, Unsubscribe(c) PROVE Quiet
  <2>1. UNCHANGED <<behaviour, taken, main, key, queue, subs, cur, pub, rpc, got>>
    BY <1>18 DEF Unsubscribe
  <2>2. \/ at' = at \/ at' = [at EXCEPT ![c] = "gone"] \/ at' = [at EXCEPT ![c] = "parting"]
    BY <1>18, UnsubscribeIs
  <2> QED BY <2>1, <2>2 DEF Given, TypeOK
<1> QED BY <1>1, <1>2, <1>3, <1>4, <1>5, <1>6, <1>7, <1>8, <1>9, <1>10, <1>11, <1>12, <1>13, <1>14, <1>15, <1>16, <1>17, <1>18

\* Skipping a stream, and the end of a send to it, bring the publisher through.
LEMMA AdvanceIs ==
  ASSUME TypeOK, EventInv, NEW r \in Rpcs, Busy(r), NEW F, Advance(r, F)
  PROVE  Over(r) \/ Further(r, F)
<1>1. CASE Len(cur[r].rest) = 1
  BY <1>1 DEF Advance, Report, Over
<1>2. CASE Len(cur[r].rest) # 1
  BY <1>2 DEF Advance, Further, Others, TypeOK
<1> QED BY <1>1, <1>2

LEMMA SkipThrough ==
  ASSUME TypeOK, MemberInv, EventInv, NEW r \in Rpcs, Skip(r)
  PROVE  Through(r, Head(cur[r].rest))
<1>1. /\ pub[r] = "offer" /\ Busy(r) /\ Advance(r, {Head(cur[r].rest)})
      /\ UNCHANGED <<behaviour, taken, main, key, queue, subs, rpc, at, got>>
  BY DEF Skip, Busy, input, chans, streams
<1>2. \A d \in Clients : at[d] = "sending" => rpc[d] # r
  BY <1>1 DEF EventInv, SendingInv
<1>3. Over(r) \/ Further(r, {Head(cur[r].rest)})
  BY <1>1, AdvanceIs
<1> QED BY <1>1, <1>2, <1>3 DEF Through

LEMMA SendThrough ==
  ASSUME TypeOK, MemberInv, EventInv, NEW c \in Clients, SendMsg(c)
  PROVE  rpc[c] \in Rpcs /\ Through(rpc[c], c)
<1>1. PICK r \in Rpcs : r = rpc[c]
  BY DEF SendMsg, MemberInv
<1>2. /\ at[c] = "sending" /\ Busy(r) /\ c = Head(cur[r].rest)
      /\ UNCHANGED <<behaviour, taken, main, key, queue, subs, rpc>>
  BY <1>1 DEF SendMsg, Busy, EventInv, SendingInv, input, chans
<1>3. \/ at' = [at EXCEPT ![c] = "loop"] \/ at' = [at EXCEPT ![c] = "part"]
  BY DEF SendMsg
<1>4. \A d \in Clients : at[d] = "sending" /\ rpc[d] = r => d = c
  BY <1>2 DEF EventInv, SendingInv
<1>5. \A d \in Clients : /\ at'[d] = "sending" => at[d] = "sending" /\ rpc[d] # r
                         /\ at[d] # "none" => at'[d] # "none"
  BY <1>3, <1>4 DEF TypeOK
<1>6. \/ Added(c, cur[r].e) /\ Over(r)
      \/ Added(c, cur[r].e) /\ behaviour # "Random" /\ Further(r, {})
      \/ got' = got /\ Over(r)
      \/ got' = got /\ Further(r, {c})
  <2>1. \/ Added(c, cur[r].e) /\ Enough(r) /\ Report(r, cur[r].e)
        \/ Added(c, cur[r].e) /\ ~Enough(r) /\ Advance(r, {})
        \/ got' = got /\ Advance(r, {c})
    BY <1>1, Zenon DEF SendMsg, Added
  <2>2. Report(r, cur[r].e) => Over(r)
    BY DEF Report, Over
  <2>3. Advance(r, {}) => Over(r) \/ Further(r, {})
    BY <1>2, AdvanceIs
  <2>4. Advance(r, {c}) => Over(r) \/ Further(r, {c})
    BY <1>2, AdvanceIs
  <2> QED BY <2>1, <2>2, <2>3, <2>4 DEF Enough
<1> QED BY <1>1, <1>2, <1>5, <1>6 DEF Through

LEMMA EventStep ==
  ASSUME TypeOK, MemberInv, EventInv, Next
  PROVE  EventInv'
<1>1. CASE TakeEvent
  BY <1>1, TakeEventKeeps
<1>2. CASE Push
  <2>1. Given /\ key \in Rpcs
    BY <1>2 DEF Push, Given, EventInv, PlaceInv
  <2>2. UNCHANGED <<behaviour, taken, cur, got, subs, at, rpc>>
    BY <1>2 DEF Push, streams
  <2>3. \A r \in Rpcs : pub'[r] = pub[r] \/ (pub[r] = "none" /\ pub'[r] = "poll")
    BY <1>2, <2>1 DEF Push, Got, TypeOK
  <2>4. CASE queue[key] = None
    BY <1>2, <2>1, <2>2, <2>3, <2>4, PutKeeps DEF Push
  <2>5. CASE queue[key] # None
    <3>1. queue' = queue /\ key' = key
      BY <1>2, <2>5 DEF Push
    <3>2. Quiet
      BY <2>1, <2>2, <2>3, <3>1 DEF Quiet, Busy
    <3> QED BY <3>2, QuietKeeps
  <2> QED BY <2>4, <2>5
<1>3. CASE Send
  <2>1. Given /\ UNCHANGED <<behaviour, taken, pub, cur, got, subs, at, rpc>>
    BY <1>3 DEF Send, Given, works, streams
  <2>2. queue[key] = None /\ queue' = [queue EXCEPT ![key] = taken] /\ main' = "take"
    BY <1>3 DEF Send
  <2> QED BY <2>1, <2>2, PutKeeps
<1>4. ASSUME NEW r \in Rpcs, SelectEvent(r) PROVE EventInv'
  BY <1>4, SelectKeeps
<1>5. ASSUME NEW r \in Rpcs, Offer(r) PROVE EventInv'
  BY <1>5, OfferKeeps
<1>6. ASSUME NEW r \in Rpcs, Skip(r) PROVE EventInv'
  BY <1>6, SkipThrough, ThroughKeeps
<1>7. ASSUME NEW c \in Clients, SendMsg(c) PROVE EventInv'
  BY <1>7, SendThrough, ThroughKeeps
<1>8. CASE \/ CloseRouter \/ StopRouter \/ Drained \/ Return \/ InputClosed
           \/ \E r \in Rpcs : Poll(r) \/ SelectMember(r) \/ SelectStop(r) \/ SelectClosed(r)
           \/ \E c \in Clients : \/ Open(c) \/ Received(c) \/ RecvFails(c) \/ Subscribe(c)
                                 \/ Subscribed(c) \/ HangUp(c) \/ Left(c) \/ Unsubscribe(c)
                                 \/ Unsubscribed(c)
  BY <1>8, QuietStep, QuietKeeps
<1> QED BY <1>1, <1>2, <1>3, <1>4, <1>5, <1>6, <1>7, <1>8
       DEF Next, Main, Publisher, Receive, Serve
-----------------------------------------------------------------------------
(* The theorems.                                                           *)

LEMMA InitInv == Init => Inv
<1> SUFFICES ASSUME Init PROVE Inv
  OBVIOUS
<1>1. Idle \in [e : Numbers \cup {None}, rest : Seq(Clients), missed : SUBSET Clients]
  BY DEF Idle
<1>2. TypeOK
  <2>1. cur \in [Rpcs -> [e : Numbers \cup {None}, rest : Seq(Clients), missed : SUBSET Clients]]
    BY <1>1 DEF Init
  <2>2. subs \in [Rpcs -> Seq(Clients)] /\ got \in [Clients -> Seq(Numbers)]
    BY DEF Init
  <2>3. /\ queue \in [Rpcs -> Numbers \cup {None}] /\ reports \in [Numbers -> Nat]
        /\ pub \in [Rpcs -> {"none", "poll", "select", "offer", "await", "gone"}]
        /\ at \in [Clients -> {"none", "recv", "join", "joining", "loop", "sending", "part",
                               "parting", "gone"}]
    BY DEF Init
  <2>4. /\ joins \in [Rpcs -> Clients \cup {None}] /\ parts \in [Rpcs -> Clients \cup {None}]
        /\ rpc \in [Clients -> Rpcs \cup {None}] /\ taken \in 0 .. Events
    BY DEF Init
  <2>5. /\ closed \in BOOLEAN /\ stopped \in BOOLEAN /\ drained \in BOOLEAN /\ crashed \in BOOLEAN
    BY DEF Init
  <2> QED BY <2>1, <2>2, <2>3, <2>4, <2>5 DEF Init, TypeOK
<1>3. Len(<<>>) = 0 /\ 1 .. 0 = {}
  OBVIOUS
<1>4. \A r \in Rpcs : Len(subs[r]) = 0 /\ Listed(r) = {} /\ ~Busy(r)
  BY <1>3 DEF Init, Listed, Busy
<1>5. MemberInv
  BY <1>3, <1>4 DEF Init, MemberInv
<1>6. CurInv /\ SendingInv
  BY <1>4 DEF Init, CurInv, SendingInv
<1>7. PlaceInv
  BY <1>4 DEF Init, PlaceInv, Given
<1>8. \A c \in Clients : Len(got[c]) = 0
  BY <1>3 DEF Init
<1>9. PastInv /\ DeliveredOnce
  BY <1>3, <1>8 DEF PastInv, DeliveredOnce, InOrder, RandomOnce, Has
<1> QED BY <1>2, <1>5, <1>6, <1>7, <1>9 DEF Inv, EventInv

LEMMA InvStep == Inv /\ [Next]_vars => Inv'
<1> SUFFICES ASSUME Inv, [Next]_vars PROVE Inv'
  OBVIOUS
<1>1. CASE Next
  <2>1. TypeOK' /\ MemberInv'
    BY <1>1, TypeStep, MemberStep DEF Inv, EventInv
  <2>2. EventInv'
    BY <1>1, EventStep DEF Inv
  <2> QED BY <2>1, <2>2 DEF Inv
<1>2. CASE UNCHANGED vars
  <2>1. UNCHANGED <<behaviour, main, mu, taken, key, closed, stopped, drained, pub, queue, deaf>>
    BY <1>2 DEF vars, input, router, chans, works
  <2>2. UNCHANGED <<joins, parts, subs, cur, at, rpc, told, free, late, got, reports, crashed>>
    BY <1>2 DEF vars, chans, works, streams
  <2>3. TypeOK'
    BY <2>1, <2>2 DEF Inv, TypeOK
  <2>4. Settled /\ Quiet
    BY <2>1, <2>2 DEF Settled, Quiet, Announced, Busy, Given
  <2> QED BY <2>3, <2>4, SettledKeeps, QuietKeeps DEF Inv
<1> QED BY <1>1, <1>2

\* The types.
THEOREM TypeCorrect == Spec => []TypeOK
<1>1. Inv => TypeOK
  BY DEF Inv
<1> QED BY <1>1, InitInv, InvStep, PTL DEF Spec

\* No client gets an event out of order or twice, and with Random no two get it: any number
\* of streams may come and go while the events are published (router.go:137, :210, :268).
THEOREM DeliveredOnceCorrect == Spec => []DeliveredOnce
<1>1. Inv => DeliveredOnce
  BY DEF Inv, EventInv
<1> QED BY <1>1, InitInv, InvStep, PTL DEF Spec

\* What NobodyLeftOut asks of an event that is reported.
Served(r, e) ==
  \/ \A c \in Listed(r) : Has(c, e)' \/ c \in cur[r].missed \/ c = Head(cur[r].rest)
  \/ behaviour = "Random" /\ \E c \in Listed(r) : Has(c, e)'

\* The end of publishing: nobody is left, or one has it.
LEMMA OverServes ==
  ASSUME Inv, NEW r \in Rpcs, NEW c, Through(r, c),
         \/ Len(cur[r].rest) = 1
         \/ behaviour = "Random" /\ Added(c, cur[r].e)
  PROVE  \A e : e = cur[r].e => Served(r, e)
<1> SUFFICES ASSUME NEW e, e = cur[r].e PROVE Served(r, e)
  OBVIOUS
<1> USE DEF Inv, EventInv
<1>1. /\ c \in Clients /\ c \in Ahead(r) /\ Busy(r) /\ e \in Numbers
      /\ Added(c, e) \/ got' = got
  BY ThroughIs
<1>2. c = Head(cur[r].rest) /\ cur[r].rest \in Seq(Clients) /\ cur[r].rest # <<>>
  BY <1>1 DEF Through, CurInv, TypeOK
<1>3. got[c] \in Seq(Numbers) /\ Len(got[c]) \in Nat
  BY <1>1, GotTypes
<1>4. Added(c, e) => Has(c, e)' /\ \A d \in Clients : d # c => got'[d] = got[d]
  <2>1. Added(c, e) => got'[c] = Append(got[c], e) /\ \A d \in Clients : d # c => got'[d] = got[d]
    BY <1>1 DEF Added, TypeOK
  <2>2. /\ Append(got[c], e)[Len(got[c]) + 1] = e
        /\ Len(got[c]) + 1 \in 1 .. Len(Append(got[c], e))
    BY <1>1, <1>3, AppendProperties
  <2> QED BY <2>1, <2>2 DEF Has
<1>5. \A d \in Clients : d # c /\ Has(d, e) => Has(d, e)'
  <2>1. \A d \in Clients : d # c => got'[d] = got[d]
    BY <1>1, <1>4
  <2> QED BY <2>1 DEF Has
<1>6. CASE Len(cur[r].rest) = 1
  <2>1. Ahead(r) = {c}
    <3>1. Head(cur[r].rest) = cur[r].rest[1]
      BY <1>2, TailOf
    <3> QED BY <1>2, <1>6, <3>1 DEF Ahead
  <2>2. ASSUME NEW d \in Listed(r)
        PROVE  Has(d, e)' \/ d \in cur[r].missed \/ d = Head(cur[r].rest)
    <3>1. d \in Clients
      BY GotTypes
    <3>2. d \in Ahead(r) \/ d \in cur[r].missed \/ Has(d, e)
      BY <1>1 DEF CurInv
    <3> QED BY <1>2, <1>5, <2>1, <3>1, <3>2
  <2> QED BY <2>2 DEF Served
<1>7. CASE behaviour = "Random" /\ Added(c, e)
  <2>1. c \in Listed(r)
    BY <1>1 DEF CurInv
  <2> QED BY <1>4, <1>7, <2>1 DEF Served
<1> QED BY <1>6, <1>7

\* An event that is reported by a publisher is the one that it publishes.
LEMMA ReportedIs ==
  ASSUME Inv, NEW q \in Rpcs, Busy(q), Report(q, cur[q].e), NEW r \in Rpcs, NEW e \in Numbers,
         cur[r].e = e, reports'[e] > reports[e]
  PROVE  r = q
<1>1. reports[e] \in Nat /\ ~(reports[e] > reports[e])
  BY DEF Inv, TypeOK
<1>2. cur[q].e = e
  BY <1>1 DEF Report, Inv, TypeOK
<1>3. Busy(r)
  BY DEF Inv, EventInv, CurInv, Idle, RouterAssumption, Numbers
<1> QED BY <1>2, <1>3 DEF Inv, EventInv, PlaceInv

LEMMA ServedStep ==
  ASSUME Inv, Next, NEW r \in Rpcs, NEW e \in Numbers, cur[r].e = e, reports'[e] > reports[e]
  PROVE  Served(r, e)
<1> USE DEF input, router, chans, works, streams
<1>1. reports[e] \in Nat /\ ~(reports[e] > reports[e]) /\ reports' # reports
  BY DEF Inv, TypeOK
<1>2. Busy(r)
  BY DEF Inv, EventInv, CurInv, Idle, RouterAssumption, Numbers
<1>3. CASE TakeEvent
  <2>1. e <= taken /\ e # taken + 1
    BY <1>2, GotTypes DEF Inv, EventInv, PlaceInv
  <2>2. reports'[e] = reports[e]
    <3>1. reports' = reports \/ reports' = [reports EXCEPT ![taken + 1] = @ + 1]
      BY <1>3 DEF TakeEvent
    <3> QED BY <2>1, <3>1 DEF Inv, TypeOK
  <2> QED BY <1>1, <2>2
<1>4. ASSUME NEW q \in Rpcs, SelectEvent(q) PROVE Served(r, e)
  <2>1. Report(q, queue[q])
    BY <1>1, <1>4 DEF SelectEvent
  <2>2. queue[q] # None /\ queue[q] # e
    BY <1>2, <1>4 DEF SelectEvent, Inv, EventInv, PlaceInv
  <2>3. reports'[e] = reports[e]
    BY <2>1, <2>2 DEF Report, Inv, TypeOK
  <2> QED BY <1>1, <2>3
<1>5. ASSUME NEW q \in Rpcs, Skip(q) PROVE Served(r, e)
  <2>1. Through(q, Head(cur[q].rest))
    BY <1>5, SkipThrough DEF Inv
  <2>2. Len(cur[q].rest) = 1 /\ Report(q, cur[q].e) /\ Busy(q)
    BY <1>1, <1>5 DEF Skip, Advance, Busy
  <2>3. r = q
    BY <2>2, ReportedIs
  <2> QED BY <2>1, <2>2, <2>3, OverServes
<1>6. ASSUME NEW c \in Clients, SendMsg(c) PROVE Served(r, e)
  <2>1. PICK q \in Rpcs : q = rpc[c] /\ Through(q, c)
    BY <1>6, SendThrough DEF Inv
  <2>2. \/ Added(c, cur[q].e) /\ Enough(q) /\ Report(q, cur[q].e)
        \/ Added(c, cur[q].e) /\ ~Enough(q) /\ Advance(q, {})
        \/ got' = got /\ Advance(q, {c})
    BY <1>6, <2>1, Zenon DEF SendMsg, Added
  <2>3. /\ Busy(q) /\ Report(q, cur[q].e)
        /\ \/ Len(cur[q].rest) = 1
           \/ behaviour = "Random" /\ Added(c, cur[q].e)
    BY <1>1, <2>1, <2>2 DEF Through, Advance, Enough
  <2>4. r = q
    BY <2>3, ReportedIs
  <2> QED BY <2>1, <2>3, <2>4, OverServes
<1>7. CASE Push
  BY <1>1, <1>7 DEF Push
<1>8. CASE Send
  BY <1>1, <1>8 DEF Send
<1>9. CASE CloseRouter
  BY <1>1, <1>9 DEF CloseRouter
<1>10. CASE StopRouter
  BY <1>1, <1>10 DEF StopRouter
<1>11. CASE Drained
  BY <1>1, <1>11 DEF Drained
<1>12. CASE Return
  BY <1>1, <1>12 DEF Return
<1>13. CASE InputClosed
  BY <1>1, <1>13 DEF InputClosed
<1>14. ASSUME NEW q \in Rpcs, Poll(q) PROVE Served(r, e)
  BY <1>1, <1>14 DEF Poll
<1>15. ASSUME NEW q \in Rpcs, SelectMember(q) PROVE Served(r, e)
  BY <1>1, <1>15 DEF SelectMember
<1>16. ASSUME NEW q \in Rpcs, SelectStop(q) PROVE Served(r, e)
  BY <1>1, <1>16 DEF SelectStop
<1>17. ASSUME NEW q \in Rpcs, SelectClosed(q) PROVE Served(r, e)
  BY <1>1, <1>17 DEF SelectClosed
<1>18. ASSUME NEW q \in Rpcs, Offer(q) PROVE Served(r, e)
  BY <1>1, <1>18 DEF Offer
<1>19. ASSUME NEW c \in Clients, Open(c) PROVE Served(r, e)
  BY <1>1, <1>19 DEF Open
<1>20. ASSUME NEW c \in Clients, Received(c) PROVE Served(r, e)
  BY <1>1, <1>20 DEF Received
<1>21. ASSUME NEW c \in Clients, RecvFails(c) PROVE Served(r, e)
  BY <1>1, <1>21 DEF RecvFails
<1>22. ASSUME NEW c \in Clients, Subscribe(c) PROVE Served(r, e)
  BY <1>1, <1>22 DEF Subscribe
<1>23. ASSUME NEW c \in Clients, Subscribed(c) PROVE Served(r, e)
  BY <1>1, <1>23 DEF Subscribed
<1>24. ASSUME NEW c \in Clients, HangUp(c) PROVE Served(r, e)
  BY <1>1, <1>24 DEF HangUp
<1>25. ASSUME NEW c \in Clients, Left(c) PROVE Served(r, e)
  BY <1>1, <1>25 DEF Left
<1>26. ASSUME NEW c \in Clients, Unsubscribe(c) PROVE Served(r, e)
  BY <1>1, <1>26 DEF Unsubscribe
<1>27. ASSUME NEW c \in Clients, Unsubscribed(c) PROVE Served(r, e)
  BY <1>1, <1>27 DEF Unsubscribed
<1> QED BY <1>3, <1>4, <1>5, <1>6, <1>7, <1>8, <1>9, <1>10, <1>11, <1>12, <1>13, <1>14, <1>15, <1>16, <1>17, <1>18, <1>19, <1>20, <1>21, <1>22, <1>23, <1>24, <1>25, <1>26, <1>27
       DEF Next, Main, Publisher, Receive, Serve

\* When an event is reported every subscriber of its procedure has it or could not be sent to,
\* and with Random one has it or all were tried (router.go:214, :276).
THEOREM NobodyLeftOutCorrect == Spec => NobodyLeftOut
<1>1. Inv /\ [Next]_vars =>
        [\A r \in Rpcs, e \in Numbers :
           cur[r].e = e /\ reports'[e] > reports[e] =>
             \/ \A c \in Listed(r) : Has(c, e)' \/ c \in cur[r].missed \/ c = Head(cur[r].rest)
             \/ behaviour = "Random" /\ \E c \in Listed(r) : Has(c, e)']_vars
  BY ServedStep DEF Served
<1> QED BY <1>1, InitInv, InvStep, PTL DEF Spec, NobodyLeftOut
=============================================================================
