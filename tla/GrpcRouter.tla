------------------------------ MODULE GrpcRouter ------------------------------
(***************************************************************************)
(* The gRPC output as a server: events are published to the streams that   *)
(* clients have opened.                                                    *)
(*                                                                         *)
(* A router with one mutex gives each procedure a publisher, made when the *)
(* first event or the first stream of the procedure comes.  A publisher    *)
(* gets events and (un)subscriptions from channels with room for one; the  *)
(* router sends to them with the mutex held.  A stream and its publisher   *)
(* meet on two unbuffered channels: a send and its receive are one step.   *)
(* What a deferred call or a send on a full channel waits for is a guard.  *)
(***************************************************************************)
EXTENDS Naturals, Sequences, Functions

CONSTANTS
  Rpcs,       \* the procedures that are served
  Clients,    \* streams: each is opened once, at most (a bound)
  Events,     \* how many events the output is given (a bound)
  None

ASSUME RouterAssumption ==
  Events \in Nat /\ None \notin 1 .. Events \cup Clients \cup Rpcs

VARIABLES
  behaviour,  \* Broadcast or Random: fixed
  main,       \* next step of runAsServer
  mu,         \* who holds the mutex of the router over a send
  taken,      \* events taken from the unit
  key,        \* the routing key of the event in hand
  closed,     \* router.closed
  stopped,    \* the stop channels of the publishers are closed
  drained,    \* GracefulStop has returned
  pub,        \* pub[r]: next step of the publisher
  queue,      \* queue[r]: its events channel: one event or None
  deaf,       \* publishers that know that it is closed
  joins,      \* joins[r]: its subscription channel
  parts,      \* parts[r]: its unsubscription channel
  subs,       \* subs[r]: its subscribers, in order
  cur,        \* cur[r]: the event it publishes, the subscribers still to come and those missed
  at,         \* at[c]: next step of the handler of a stream
  rpc,        \* rpc[c]: its procedure
  told,       \* streams with a closed msgs channel
  free,       \* streams with a closed result channel
  late,       \* streams that were added when the others had been told
  got,        \* got[c]: the events sent to the client of a stream
  reports,    \* reports[e]: how often an event was reported done
  crashed     \* a handler panicked: the process is gone

input   == <<main, taken, key>>
router  == <<mu, closed, stopped, drained>>
chans   == <<queue, deaf, joins, parts>>
works   == <<pub, subs, cur>>
streams == <<at, rpc, told, free, late>>
vars == <<behaviour, input, router, chans, works, streams, got, reports, crashed>>

Numbers == 1 .. Events
Idle    == [e |-> None, rest |-> <<>>, missed |-> {}]

TypeOK ==
  /\ behaviour \in {"Broadcast", "Random"}
  /\ main \in {"take", "push", "send", "close", "stop", "wait", "over"}
  /\ mu \in Clients \cup {"main", None}
  /\ taken \in 0 .. Events /\ key \in Rpcs \cup {None}
  /\ closed \in BOOLEAN /\ stopped \in BOOLEAN /\ drained \in BOOLEAN
  /\ pub \in [Rpcs -> {"none", "poll", "select", "offer", "await", "gone"}]
  /\ queue \in [Rpcs -> Numbers \cup {None}] /\ deaf \subseteq Rpcs
  /\ joins \in [Rpcs -> Clients \cup {None}] /\ parts \in [Rpcs -> Clients \cup {None}]
  /\ subs \in [Rpcs -> Seq(Clients)]
  /\ cur \in [Rpcs -> [e : Numbers \cup {None}, rest : Seq(Clients), missed : SUBSET Clients]]
  /\ at \in [Clients -> {"none", "recv", "join", "joining", "loop", "sending", "part",
                         "parting", "gone"}]
  /\ rpc \in [Clients -> Rpcs \cup {None}]
  /\ told \subseteq Clients /\ free \subseteq Clients /\ late \subseteq Clients
  /\ got \in [Clients -> Seq(Numbers)]
  /\ reports \in [Numbers -> Nat] /\ crashed \in BOOLEAN

Init ==
  /\ behaviour \in {"Broadcast", "Random"}
  /\ main = "take" /\ mu = None /\ taken = 0 /\ key = None
  /\ closed = FALSE /\ stopped = FALSE /\ drained = FALSE
  /\ pub = [r \in Rpcs |-> "none"] /\ queue = [r \in Rpcs |-> None] /\ deaf = {}
  /\ joins = [r \in Rpcs |-> None] /\ parts = [r \in Rpcs |-> None]
  /\ subs = [r \in Rpcs |-> <<>>] /\ cur = [r \in Rpcs |-> Idle]
  /\ at = [c \in Clients |-> "none"] /\ rpc = [c \in Clients |-> None]
  /\ told = {} /\ free = {} /\ late = {}
  /\ got = [c \in Clients |-> <<>>]
  /\ reports = [e \in Numbers |-> 0] /\ crashed = FALSE

-----------------------------------------------------------------------------
(* The loop over the events of the unit, and the router it calls.          *)

\* The publisher of a procedure, which is started when there is none.
Got(r) == IF pub[r] = "none" THEN [pub EXCEPT ![r] = "poll"] ELSE pub

\* The next event: one of a procedure that is not served is reported at once.
TakeEvent ==
  /\ main = "take" /\ taken < Events
  /\ taken' = taken + 1
  /\ \E r \in Rpcs \cup {None} :
       /\ key' = r
       /\ IF r = None THEN reports' = [reports EXCEPT ![taken + 1] = @ + 1] /\ UNCHANGED main
                      ELSE main' = "push" /\ UNCHANGED reports
  /\ UNCHANGED <<behaviour, router, chans, works, streams, got, crashed>>

\* push: the mutex is held until the publisher has room.
Push ==
  LET r == key
  IN /\ main = "push" /\ mu = None
     /\ pub' = Got(r)
     /\ IF queue[r] = None
        THEN /\ queue' = [queue EXCEPT ![r] = taken]
             /\ main' = "take" /\ key' = None /\ UNCHANGED mu
        ELSE mu' = "main" /\ main' = "send" /\ UNCHANGED <<queue, key>>
     /\ UNCHANGED <<behaviour, taken, closed, stopped, drained, deaf, joins, parts, subs,
                    cur, streams, got, reports, crashed>>

Send ==
  LET r == key
  IN /\ main = "send" /\ queue[r] = None
     /\ queue' = [queue EXCEPT ![r] = taken]
     /\ mu' = None /\ main' = "take" /\ key' = None
     /\ UNCHANGED <<behaviour, taken, closed, stopped, drained, deaf, joins, parts,
                    works, streams, got, reports, crashed>>

\* The unit has closed the input, whatever was sent over it.
InputClosed ==
  /\ main = "take" /\ main' = "close"
  /\ UNCHANGED <<behaviour, taken, key, router, chans, works, streams, got, reports, crashed>>

\* The events channels are closed, what they hold can still be received, and
\* GracefulStop is started.
CloseRouter ==
  /\ main = "close" /\ mu = None
  /\ closed' = TRUE /\ main' = "stop"
  /\ UNCHANGED <<behaviour, taken, key, mu, stopped, drained, chans, works, streams,
                 got, reports, crashed>>

StopRouter ==
  /\ main = "stop" /\ mu = None
  /\ stopped' = TRUE /\ main' = "wait"
  /\ UNCHANGED <<behaviour, taken, key, mu, closed, drained, chans, works, streams,
                 got, reports, crashed>>

\* GracefulStop and Serve return when the last handler has.
Drained ==
  /\ closed /\ ~drained /\ \A c \in Clients : at[c] \in {"none", "gone"}
  /\ drained' = TRUE
  /\ UNCHANGED <<behaviour, input, mu, closed, stopped, chans, works, streams, got,
                 reports, crashed>>

\* wg.Wait returns, and Run with it.
Return ==
  /\ main = "wait" /\ drained
  /\ \A r \in Rpcs : pub[r] \in {"none", "gone"}
  /\ main' = "over"
  /\ UNCHANGED <<behaviour, taken, key, router, chans, works, streams, got, reports, crashed>>

Main ==
  \/ TakeEvent \/ Push \/ Send \/ CloseRouter \/ StopRouter \/ Drained
  \/ Return

-----------------------------------------------------------------------------
(* The publisher of a procedure.                                           *)

\* A (un)subscription that waits in its channel.
Join(r) ==
  /\ joins[r] # None
  /\ subs' = [subs EXCEPT ![r] = Append(@, joins[r])]
  /\ joins' = [joins EXCEPT ![r] = None]
  /\ late' = IF r \in deaf THEN late \cup {joins[r]} ELSE late
  /\ UNCHANGED parts

\* A list without an entry that it holds once, or not at all.
Without(list, c) ==
  IF \E i \in 1 .. Len(list) : list[i] = c
  THEN LET i == CHOOSE i \in 1 .. Len(list) : list[i] = c
       IN SubSeq(list, 1, i - 1) \o SubSeq(list, i + 1, Len(list))
  ELSE list

Part(r) ==
  /\ parts[r] # None
  /\ subs' = [subs EXCEPT ![r] = Without(@, parts[r])]
  /\ parts' = [parts EXCEPT ![r] = None]
  /\ UNCHANGED <<joins, late>>

Listed(r) == {subs[r][i] : i \in 1 .. Len(subs[r])}

\* The select with a default, in front of the one that waits.
Poll(r) ==
  /\ pub[r] = "poll"
  /\ \/ Join(r) \/ Part(r)
     \/ joins[r] = None /\ parts[r] = None /\ UNCHANGED <<subs, joins, parts, late>>
  /\ pub' = [pub EXCEPT ![r] = "select"]
  /\ UNCHANGED <<behaviour, input, router, queue, deaf, cur, at, rpc, told, free, got, reports,
                 crashed>>

SelectMember(r) ==
  /\ pub[r] = "select" /\ (Join(r) \/ Part(r))
  /\ pub' = [pub EXCEPT ![r] = "poll"]
  /\ UNCHANGED <<behaviour, input, router, queue, deaf, cur, at, rpc, told, free, got, reports,
                 crashed>>

\* The stop channel is closed: the publisher returns when it has no subscriber, and
\* looks again in a second when it has.
SelectStop(r) ==
  /\ pub[r] = "select" /\ stopped
  /\ pub' = [pub EXCEPT ![r] = IF subs[r] = <<>> THEN "gone" ELSE "poll"]
  /\ UNCHANGED <<behaviour, input, router, chans, subs, cur, streams, got, reports, crashed>>

\* Mutated form of Told: nobody is.
Told_Nobody(r) == {}

Told(r) == Listed(r)

\* The events channel is closed and empty: the streams are told, once.
SelectClosed(r) ==
  /\ pub[r] = "select" /\ closed /\ queue[r] = None /\ r \notin deaf
  /\ told' = told \cup Told(r)
  /\ deaf' = deaf \cup {r}
  /\ pub' = [pub EXCEPT ![r] = "poll"]
  /\ UNCHANGED <<behaviour, input, router, queue, joins, parts, subs, cur, at, rpc, free, late,
                 got, reports, crashed>>

\* Publishing is over: the event is reported.
Report(r, e) ==
  /\ reports' = [reports EXCEPT ![e] = @ + 1]
  /\ pub' = [pub EXCEPT ![r] = "poll"] /\ cur' = [cur EXCEPT ![r] = Idle]

\* The order in which the subscribers are tried: theirs, or any.
Orders(r) ==
  IF behaviour = "Broadcast" THEN {subs[r]} ELSE Bijection(1 .. Len(subs[r]), Listed(r))

\* An event: it is reported when there is nobody to send it to, and when no message
\* can be made of it, which the first subscriber shows.
SelectEvent(r) ==
  /\ pub[r] = "select" /\ queue[r] # None
  /\ queue' = [queue EXCEPT ![r] = None]
  /\ \/ Report(r, queue[r])
     \/ /\ subs[r] # <<>>
        /\ \E order \in Orders(r) :
             cur' = [cur EXCEPT ![r] = [e |-> queue[r], rest |-> order, missed |-> {}]]
        /\ pub' = [pub EXCEPT ![r] = "offer"]
        /\ UNCHANGED reports
  /\ UNCHANGED <<behaviour, input, router, deaf, joins, parts, subs, streams, got, crashed>>

\* Mutated form of Others: the first one is tried again.
Others_All(r) == cur[r].rest

Others(r) == Tail(cur[r].rest)

\* The first one is through: the next one is tried, or the event is reported.
Advance(r, failed) ==
  IF Len(cur[r].rest) = 1
  THEN Report(r, cur[r].e)
  ELSE /\ cur' = [cur EXCEPT ![r].rest = Others(r), ![r].missed = @ \cup failed]
       /\ pub' = [pub EXCEPT ![r] = "offer"]
       /\ UNCHANGED reports

\* The message goes to the handler of the stream, which waits in its loop.
Offer(r) ==
  LET c == Head(cur[r].rest)
  IN /\ pub[r] = "offer" /\ at[c] = "loop"
     /\ at' = [at EXCEPT ![c] = "sending"]
     /\ pub' = [pub EXCEPT ![r] = "await"]
     /\ UNCHANGED <<behaviour, input, router, chans, subs, cur, rpc, told, free, late, got,
                    reports, crashed>>

\* Mutated form of Skipped: the publisher goes on waiting.
Skipped_Never(c) == FALSE

Skipped(c) == c \in free

\* The result channel is closed: the stream is skipped.
Skip(r) ==
  LET c == Head(cur[r].rest)
  IN /\ pub[r] = "offer" /\ Skipped(c)
     /\ Advance(r, {c})
     /\ UNCHANGED <<behaviour, input, router, chans, subs, streams, got, crashed>>

\* Mutated form of Enough: one subscriber of several gets the event, whatever the behaviour.
Enough_Always(r) == TRUE

\* One delivery is enough.
Enough(r) == behaviour = "Random"

Receive(r) == SelectEvent(r) \/ SelectClosed(r)

Publisher(r) ==
  \/ Poll(r) \/ SelectMember(r) \/ SelectStop(r) \/ Receive(r)
  \/ Offer(r) \/ Skip(r)

-----------------------------------------------------------------------------
(* The handler of a stream.                                                *)

\* A client opens a stream; it is served as long as the server is not gone.
Open(c) ==
  /\ at[c] = "none" /\ ~drained
  /\ \E r \in Rpcs : rpc' = [rpc EXCEPT ![c] = r]
  /\ at' = [at EXCEPT ![c] = "recv"]
  /\ UNCHANGED <<behaviour, input, router, chans, works, told, free, late, got, reports, crashed>>

\* RecvMsg returns the initial message, or an error.
Received(c) ==
  /\ at[c] = "recv" /\ at' = [at EXCEPT ![c] = "join"]
  /\ UNCHANGED <<behaviour, input, router, chans, works, rpc, told, free, late, got, reports, crashed>>

RecvFails(c) ==
  /\ at[c] = "recv" /\ at' = [at EXCEPT ![c] = "gone"]
  /\ UNCHANGED <<behaviour, input, router, chans, works, rpc, told, free, late, got, reports, crashed>>

\* subscribe: after the router was closed the stream is only told so.
Subscribe(c) ==
  /\ at[c] = "join" /\ mu = None
  /\ IF closed
     THEN /\ told' = told \cup {c} /\ at' = [at EXCEPT ![c] = "loop"]
          /\ UNCHANGED <<mu, pub, joins>>
     ELSE /\ pub' = Got(rpc[c]) /\ UNCHANGED told
          /\ IF joins[rpc[c]] = None
             THEN /\ joins' = [joins EXCEPT ![rpc[c]] = c]
                  /\ at' = [at EXCEPT ![c] = "loop"] /\ UNCHANGED mu
             ELSE mu' = c /\ at' = [at EXCEPT ![c] = "joining"] /\ UNCHANGED joins
  /\ UNCHANGED <<behaviour, input, closed, stopped, drained, queue, deaf, parts, subs, cur, rpc,
                 free, late, got, reports, crashed>>

Subscribed(c) ==
  /\ at[c] = "joining" /\ joins[rpc[c]] = None
  /\ joins' = [joins EXCEPT ![rpc[c]] = c]
  /\ mu' = None /\ at' = [at EXCEPT ![c] = "loop"]
  /\ UNCHANGED <<behaviour, input, closed, stopped, drained, queue, deaf, parts, works, rpc, told,
                 free, late, got, reports, crashed>>

\* The client goes away and the handler sees that the context is done; what comes
\* between the two is as if it came before both.
HangUp(c) ==
  /\ at[c] = "loop"
  /\ free' = free \cup {c} /\ at' = [at EXCEPT ![c] = "part"]
  /\ UNCHANGED <<behaviour, input, router, chans, works, rpc, told, late, got, reports, crashed>>

\* The msgs channel is closed.
Left(c) ==
  /\ at[c] = "loop" /\ c \in told
  /\ at' = [at EXCEPT ![c] = "part"]
  /\ UNCHANGED <<behaviour, input, router, chans, works, rpc, told, free, late, got, reports, crashed>>

\* SendMsg returns, and the publisher, which waits for it, gets the result; it fails
\* when the stream is broken or the message is too large, and the handler returns.
SendMsg(c) ==
  LET r == rpc[c]
  IN /\ at[c] = "sending"
     /\ \/ /\ at' = [at EXCEPT ![c] = "loop"]
           /\ got' = [got EXCEPT ![c] = Append(@, cur[r].e)]
           /\ IF Enough(r) THEN Report(r, cur[r].e) ELSE Advance(r, {})
        \/ /\ at' = [at EXCEPT ![c] = "part"]
           /\ Advance(r, {c}) /\ UNCHANGED got
     /\ UNCHANGED <<behaviour, input, router, chans, subs, rpc, told, free, late, crashed>>

\* unsubscribe, deferred: it panics when the procedure has no publisher.
Unsubscribe(c) ==
  LET r == rpc[c]
  IN /\ at[c] = "part" /\ mu = None
     /\ \/ pub[r] = "none" /\ crashed' = TRUE /\ UNCHANGED <<mu, at, parts>>
        \/ /\ pub[r] # "none" /\ parts[r] = None
           /\ parts' = [parts EXCEPT ![r] = c]
           /\ at' = [at EXCEPT ![c] = "gone"] /\ UNCHANGED <<mu, crashed>>
        \/ /\ parts[r] # None
           /\ mu' = c /\ at' = [at EXCEPT ![c] = "parting"] /\ UNCHANGED <<parts, crashed>>
     /\ UNCHANGED <<behaviour, input, closed, stopped, drained, queue, deaf, joins, works, rpc,
                    told, free, late, got, reports>>

Unsubscribed(c) ==
  /\ at[c] = "parting" /\ parts[rpc[c]] = None
  /\ parts' = [parts EXCEPT ![rpc[c]] = c]
  /\ mu' = None /\ at' = [at EXCEPT ![c] = "gone"]
  /\ UNCHANGED <<behaviour, input, closed, stopped, drained, queue, deaf, joins, works, rpc, told,
                 free, late, got, reports, crashed>>

Serve(c) ==
  \/ Subscribe(c) \/ Subscribed(c) \/ Left(c) \/ SendMsg(c)
  \/ Unsubscribe(c) \/ Unsubscribed(c)

-----------------------------------------------------------------------------
Next ==
  /\ ~crashed
  /\ \/ Main \/ InputClosed
     \/ \E r \in Rpcs : Publisher(r)
     \/ \E c \in Clients : Open(c) \/ Received(c) \/ RecvFails(c) \/ HangUp(c) \/ Serve(c)

Spec == Init /\ [][Next]_vars

(***************************************************************************)
(* Goroutines take the steps they can.  A select with several ready cases  *)
(* and the mutex leave nobody out for ever.  A client reads what it is     *)
(* sent, but need not send its first message, nor ever hang up.            *)
(***************************************************************************)
Fairness ==
  /\ SF_vars(Main)
  /\ \A r \in Rpcs : WF_vars(Publisher(r)) /\ SF_vars(Receive(r))
  /\ \A c \in Clients : SF_vars(Serve(c))

FairSpec == Spec /\ Fairness

-----------------------------------------------------------------------------
(* Properties.                                                             *)

\* A client gets the events of its procedure in the order in which they came to the
\* output, each of them once.
InOrder ==
  \A c \in Clients : \A i, j \in 1 .. Len(got[c]) : i < j => got[c][i] < got[c][j]

Has(c, e) == \E i \in 1 .. Len(got[c]) : got[c][i] = e

\* With Random an event goes to one client, however many are tried.
RandomOnce ==
  behaviour = "Random" =>
    \A e \in Numbers : \A c, d \in Clients : Has(c, e) /\ Has(d, e) => c = d

\* No client gets an event out of order or twice, and with Random no two get it.
DeliveredOnce == InOrder /\ RandomOnce

\* When an event is reported nobody was left out: with Broadcast every subscriber has
\* it or could not be sent to; with Random one has it, or all were tried.  The one
\* whose turn it is has just been tried.
NobodyLeftOut ==
  [][\A r \in Rpcs, e \in Numbers :
       cur[r].e = e /\ reports'[e] > reports[e] =>
         \/ \A c \in Listed(r) : Has(c, e)' \/ c \in cur[r].missed \/ c = Head(cur[r].rest)
         \/ behaviour = "Random" /\ \E c \in Listed(r) : Has(c, e)']_vars

\* The publisher waits for a stream that is not there and has not closed its result.
Jammed(r) ==
  /\ pub[r] = "offer"
  /\ LET c == Head(cur[r].rest) IN at[c] \in {"part", "parting", "gone"} /\ c \notin free

\* A publisher has returned with an event in its channel.
Abandoned(e) == \E r \in Rpcs : pub[r] = "gone" /\ queue[r] = e

\* A stream that is gone was added to the subscribers after it was taken off.
Ghost(c) == at[c] = "gone" /\ \E r \in Rpcs : c \in Listed(r) /\ parts[r] # c

\* Nobody takes the unsubscription: the mutex is held for ever.
Locked(c) == at[c] = "parting" /\ pub[rpc[c]] = "gone" /\ parts[rpc[c]] # None

\* Every event is reported done, unless the process crashes, a publisher is jammed or it
\* stops with the event in its channel.
EventsReported ==
  \A e \in Numbers :
    taken = e ~> \/ reports[e] > 0 \/ crashed
                 \/ Abandoned(e) \/ \E r \in Rpcs : Jammed(r)

\* The client has not sent its first message, or came too late to be told.
Stays(c) ==
  \/ at[c] = "recv"
  \/ at[c] = "loop" /\ (c \in late \/ (joins[rpc[c]] = c /\ pub[rpc[c]] = "gone"))

\* After the input was closed Run returns, unless a client stays for ever, a publisher is jammed
\* or one of the races about the list of subscribers was lost.
Returns ==
  <>(main = "close") =>
    \/ <>(\/ main = "over" \/ crashed
          \/ \E r \in Rpcs : Jammed(r)
          \/ \E c \in Clients : Ghost(c) \/ Locked(c))
    \/ \E c \in Clients : <>[]Stays(c)

\* "subscriber already gone and will be removed in the next iterations"
GoneIsRemoved == \A c \in Clients : ~Ghost(c)
=============================================================================
