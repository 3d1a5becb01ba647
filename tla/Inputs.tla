-------------------------------- MODULE Inputs --------------------------------
(***************************************************************************)
(* The inputs that answer whoever sends to them: the HTTP inputs (http and *)
(* httpl), the gRPC server (unary calls and client streams), beats and     *)
(* sql, and the two that nobody waits for: the gRPC subscriber and         *)
(* cronjob.                                                                *)
(*                                                                         *)
(* An attempt is one handler at work: a request, a call, a stream, a batch *)
(* or a poll.  It reads its rows (lines, messages, events of a batch, rows *)
(* of a result), makes an event of each, sends it into the pipeline and,   *)
(* if it waits for delivery, answers when the hooks of all its events have *)
(* run.  Around the attempts are Init, Run, Stop and Close of the input,   *)
(* which its unit calls: the unit closes the output channel as soon as Run *)
(* returns.  The servers of net/http, grpc-go, go-lumber and robfig/cron   *)
(* are external; how they stop is told at EndsAtOnce and StopReturns.      *)
(***************************************************************************)
EXTENDS Integers, FiniteSets

CONSTANTS
  Kinds,       \* the inputs to check
  Cuttable,    \* those whose reading may fail half-way
  Tries,       \* attempts (a bound)
  Requests,    \* what clients send, or a poll finds
  MaxRows,     \* rows of a request (a bound)
  NumWorkers,  \* workers of the beats input
  None

AllKinds ==
  {"http", "httpl", "beats", "unary", "stream", "subscriber", "sql", "cronjob"}

ASSUME InputsAssumption ==
  /\ Kinds \subseteq AllKinds /\ Cuttable \subseteq Kinds
  /\ MaxRows \in Nat \ {0} /\ NumWorkers \in Nat \ {0}
  /\ None \notin Requests

VARIABLES
  kind,    \* the input this is: fixed
  wait,    \* WaitForDelivery, AckOnDelivery: fixed
  life,    \* of the input, as its unit sees it
  held,    \* a listener, a connection or a database is open
  stop,    \* of the call of Stop: no, called, returned
  heard,   \* the stop has reached what Run waits for
  at,      \* at[a]: the next step of an attempt
  of,      \* of[a]: its request
  fate,    \* fate[a][i]: what became of its rows
  cut,     \* cut[a]: the rest of the request could not be read
  answer   \* answer[a]: what the sender was told

config  == <<kind, wait>>
outside == <<life, held, stop, heard>>
attempt == <<at, of, fate, cut, answer>>
vars    == <<config, outside, attempt>>

Rows   == 1 .. MaxRows
RowsOf == IF kind \in {"unary", "cronjob"} THEN {1} ELSE Rows

TypeOK ==
  /\ kind \in Kinds /\ wait \in BOOLEAN
  /\ life \in {"new", "failed", "ready", "forced", "serving", "returned", "closed", "crashed"}
  /\ held \in BOOLEAN
  /\ stop \in {"no", "called", "returned"} /\ heard \in BOOLEAN
  /\ at \in [Tries -> {"free", "body", "emit", "wait", "ended"}]
  /\ of \in [Tries -> Requests \cup {None}]
  /\ fate \in [Tries -> [Rows -> {"unread", "bad", "flying", "delivered"}]]
  /\ cut \in [Tries -> BOOLEAN]
  /\ answer \in [Tries -> {"none", "ok", "error", "gone"}]

Init ==
  /\ kind \in Kinds
  /\ wait \in (IF kind \in {"subscriber", "cronjob"} THEN {FALSE} ELSE BOOLEAN)
  /\ life = "new" /\ held = FALSE /\ stop = "no" /\ heard = FALSE
  /\ at = [a \in Tries |-> "free"] /\ of = [a \in Tries |-> None]
  /\ fate = [a \in Tries |-> [i \in Rows |-> "unread"]]
  /\ cut = [a \in Tries |-> FALSE] /\ answer = [a \in Tries |-> "none"]

-----------------------------------------------------------------------------
(* Init of the plugins: what is open when they fail.                       *)

Initialised(l, h) ==
  /\ life = "new" /\ life' = l /\ held' = h
  /\ UNCHANGED <<config, stop, heard, attempt>>

Ready == Initialised("ready", TRUE)
Fails == Initialised("failed", FALSE)

\* The listener, if there is one, is the last thing that can fail.
HttpInit    == kind = "http"    /\ (Ready \/ Fails)
HttplInit   == kind = "httpl"   /\ (Ready \/ Fails)
BeatsInit   == kind = "beats"   /\ (Ready \/ Fails)
CronjobInit == kind = "cronjob" /\ (Initialised("ready", FALSE) \/ Fails)

\* If OnInit fails, the database is closed again.
SqlInit == kind = "sql" /\ (Ready \/ Fails)

\* The .proto files do not compile, or there is no such mode.
GrpcInit == kind \in {"unary", "stream", "subscriber"} /\ Fails

\* The server listens first and looks at its procedures afterwards: a wrong one
\* leaves the listener open.
GrpcServerInit == kind \in {"unary", "stream"} /\ (Ready \/ Initialised("failed", TRUE))

SubscriberInit == kind = "subscriber" /\ Ready

PluginInit ==
  \/ HttpInit \/ HttplInit \/ BeatsInit \/ SqlInit \/ CronjobInit
  \/ GrpcInit \/ GrpcServerInit \/ SubscriberInit

-----------------------------------------------------------------------------
(* Attempts: the steps they are made of.                                   *)

Busy == {a \in Tries : at[a] \in {"body", "emit", "wait"}}

Unread(a) == {i \in RowsOf : fate[a][i] = "unread"}

\* The row that is read next.
Row(a) == CHOOSE i \in Unread(a) : \A j \in Unread(a) : i <= j

Goto(a, step) ==
  at' = [at EXCEPT ![a] = step] /\ UNCHANGED <<config, outside, of, fate, cut, answer>>

Answer(a, v) ==
  /\ at' = [at EXCEPT ![a] = "ended"] /\ answer' = [answer EXCEPT ![a] = v]
  /\ UNCHANGED <<config, outside, of, fate, cut>>

\* A row that no event can be made of is left out.
Skip(a) ==
  /\ fate' = [fate EXCEPT ![a][Row(a)] = "bad"]
  /\ UNCHANGED <<config, outside, at, of, cut, answer>>

\* Reading fails; the attempt goes on at step.
CutAt(a, step) ==
  /\ kind \in Cuttable /\ Unread(a) # {}
  /\ cut' = [cut EXCEPT ![a] = TRUE] /\ at' = [at EXCEPT ![a] = step]
  /\ UNCHANGED <<config, outside, of, fate, answer>>

\* i.Out <- event.
Send(a, step) ==
  /\ at[a] = "emit" /\ life \in {"forced", "serving"}
  /\ fate' = [fate EXCEPT ![a][Row(a)] = "flying"]
  /\ at' = [at EXCEPT ![a] = step]
  /\ UNCHANGED <<config, outside, of, cut, answer>>

\* The output channel is closed already, and net/http recovers the panic of the
\* handler: the connection is cut.
SendRecovered(a) == at[a] = "emit" /\ life \in {"returned", "closed"} /\ Answer(a, "gone")

\* A panic that nobody recovers ends the process.
Panic == life' = "crashed" /\ UNCHANGED <<config, held, stop, heard, attempt>>

\* Mutated form of WaitOver: the handler answers as soon as all is sent.
WaitOver_Sent(a) == TRUE

\* Mutated form of WaitOver: a row that became no event counts too.
WaitOver_Skipped(a) == wait => \A i \in RowsOf : fate[a][i] = "delivered"

\* wg.Wait: every event whose hook counts has been delivered.
WaitOver(a) == wait => \A i \in RowsOf : fate[a][i] # "flying"

Reply(a, v) == at[a] = "wait" /\ WaitOver(a) /\ Answer(a, v)

\* A client whose request failed may send it again, and so may one that succeeded.
Begin(a, r, step) ==
  /\ at[a] = "free" /\ at' = [at EXCEPT ![a] = step]
  /\ of' = [of EXCEPT ![a] = r]
  /\ UNCHANGED <<config, outside, fate, cut, answer>>

Open == life = "serving" /\ ~heard

-----------------------------------------------------------------------------
(* What the inputs do with a request.                                      *)

\* The whole body is read and parsed before the first event is made.
HttpServe(a) ==
  /\ kind = "http"
  /\ \/ \E r \in Requests : Open /\ Begin(a, r, "body")
     \/ at[a] = "body" /\ (Goto(a, "emit") \/ Answer(a, "error"))
     \/ Unread(a) # {} /\ (Send(a, "emit") \/ SendRecovered(a))
     \/ at[a] = "emit" /\ Unread(a) = {} /\ Goto(a, "wait")
     \/ Reply(a, "ok")

\* Line by line: the events of the lines before a wrong one are sent.  The error of
\* the scanner is asked for inside the loop, where there is none: a body that could
\* not be read to its end looks like one that ended.
HttplServe(a) ==
  /\ kind = "httpl"
  /\ \/ \E r \in Requests : Open /\ Begin(a, r, "body")
     \/ at[a] = "body" /\ Unread(a) # {} /\ (Goto(a, "emit") \/ Answer(a, "error"))
     \/ at[a] = "body" /\ Unread(a) = {} /\ Goto(a, "wait")
     \/ at[a] = "body" /\ CutAt(a, "wait")
     \/ Send(a, "body") \/ SendRecovered(a)
     \/ Reply(a, "ok")

UnaryServe(a) ==
  /\ kind = "unary"
  /\ \/ \E r \in Requests : Open /\ Begin(a, r, "body")
     \/ at[a] = "body" /\ (Goto(a, "emit") \/ Answer(a, "error"))
     \/ Send(a, "wait")
     \/ Reply(a, "ok")

\* A stream that broke is waited for too, but nothing is said.
StreamEnd(a) == Reply(a, IF cut[a] THEN "gone" ELSE "ok")

StreamServe(a) ==
  /\ kind = "stream"
  /\ \/ \E r \in Requests : Open /\ Begin(a, r, "body")
     \/ at[a] = "body" /\ Unread(a) # {} /\ (Goto(a, "emit") \/ Skip(a))
     \/ at[a] = "body" /\ Unread(a) = {} /\ Goto(a, "wait")
     \/ at[a] = "body" /\ CutAt(a, "wait")
     \/ Send(a, "body")
     \/ StreamEnd(a)

\* A worker takes the next batch; the ACK may come too late for the connection.  A field
\* that is no string where one is expected panics, and nobody recovers it.
BeatsServe(a) ==
  /\ kind = "beats"
  /\ \/ /\ Open /\ Cardinality(Busy) < NumWorkers
        /\ \E r \in Requests : Begin(a, r, "body")
     \/ at[a] = "body" /\ Unread(a) # {} /\ (Goto(a, "emit") \/ Skip(a))
     \/ at[a] = "body" /\ Unread(a) # {} /\ Panic
     \/ at[a] = "body" /\ Unread(a) = {} /\ Goto(a, "wait")
     \/ Send(a, "body")
     \/ Reply(a, "ok") \/ Reply(a, "gone")

\* A poll.  "ok" is on_done executed, the transaction committed and the values kept,
\* which cover the rows that were read: the rest of the result may be lost, as nobody
\* asks for rows.Err.  A query or a row that fails ends the poll without waiting for
\* the events it sent.  The ticker may win against the stop and poll once more.
SqlPoll(a) ==
  /\ kind = "sql"
  /\ \/ \E r \in Requests : life = "serving" /\ Busy = {} /\ Begin(a, r, "body")
     \/ at[a] = "body" /\ Unread(a) # {} /\ (Goto(a, "emit") \/ Answer(a, "error"))
     \/ at[a] = "body" /\ Unread(a) = {} /\ Goto(a, "wait")
     \/ at[a] = "body" /\ Unread(a) # RowsOf /\ CutAt(a, "wait")
     \/ Send(a, "body")
     \/ Reply(a, "ok") \/ Reply(a, "error")

\* The stream of the server is read until it ends, breaks or is cancelled, and then
\* invoked again.
Subscribe(a) ==
  /\ kind = "subscriber"
  /\ \/ \E r \in Requests : Open /\ Busy = {} /\ Begin(a, r, "body")
     \/ at[a] = "body" /\ Unread(a) # {} /\ ~heard /\ (Goto(a, "emit") \/ Skip(a))
     \/ at[a] = "body" /\ Answer(a, "gone")
     \/ Send(a, "body")

\* A job: forced ones run one after another before the scheduler, each of the
\* others in a goroutine of its own; nobody recovers its panic.
JobRun(a) ==
  /\ kind = "cronjob"
  /\ \/ \E r \in Requests : Open /\ Begin(a, r, "emit")
     \/ \E r \in Requests : life = "forced" /\ Busy = {} /\ Begin(a, r, "emit")
     \/ Send(a, "wait")
     \/ at[a] = "emit" /\ life = "returned" /\ Panic
     \/ at[a] = "wait" /\ Answer(a, "gone")

Serve(a) ==
  /\ life # "crashed"
  /\ \/ HttpServe(a) \/ HttplServe(a) \/ UnaryServe(a) \/ StreamServe(a)
     \/ BeatsServe(a) \/ SqlPoll(a) \/ Subscribe(a) \/ JobRun(a)

\* The pipeline delivers or drops an event: its hook runs.
Deliver(a, i) ==
  /\ fate[a][i] = "flying" /\ life # "crashed"
  /\ fate' = [fate EXCEPT ![a][i] = "delivered"]
  /\ UNCHANGED <<config, outside, at, of, cut, answer>>

-----------------------------------------------------------------------------
(* Run and Stop, which the unit calls in two goroutines.                   *)

Becomes(l) == life' = l /\ UNCHANGED <<config, held, stop, heard, attempt>>

\* Run is reached: the server serves, the scheduler follows the forced jobs.
RunStarts ==
  \/ life = "ready" /\ kind # "cronjob" /\ Becomes("serving")
  \/ life = "ready" /\ kind = "cronjob" /\ Becomes("forced")
  \/ life = "forced" /\ Busy = {} /\ Becomes("serving")

\* http.Server.Serve and cron.Run return when they are told to stop, the others
\* when their last handler has returned.
EndsAtOnce == kind \in {"http", "httpl", "cronjob"}

RunEnds == EndsAtOnce \/ Busy = {}

RunReturns == life = "serving" /\ heard /\ RunEnds /\ Becomes("returned")

\* The unit stops the input.  cron.Stop and the Stop of beats do nothing before Run
\* has started the scheduler or the server, and the subscriber has no cancelFunc.
StopCalled ==
  /\ life \in {"ready", "forced", "serving"} /\ stop = "no"
  /\ IF kind = "subscriber" /\ life = "ready"
     THEN Becomes("crashed")
     ELSE /\ stop' = "called"
          /\ heard' = (kind \in {"cronjob", "beats"} => life = "serving")
          /\ UNCHANGED <<config, life, held, attempt>>

\* Shutdown of the HTTP servers gives up after ten seconds and the server of beats
\* owes its workers nothing; cron.Stop waits for the jobs it started, the other
\* inputs for Run.
HttpStop    == kind = "http"
HttplStop   == kind = "httpl"
BeatsStop   == kind = "beats"
CronjobStop == kind = "cronjob" /\ (life = "forced" \/ Busy = {})
GrpcStop    == kind \in {"unary", "stream", "subscriber"} /\ life = "returned"

\* Mutated form of SqlStop: Run returns without closing doneCh.
SqlStop_Never == FALSE

SqlStop == kind = "sql" /\ life = "returned"

StopReturns ==
  /\ stop = "called" /\ life # "crashed"
  /\ HttpStop \/ HttplStop \/ BeatsStop \/ CronjobStop \/ GrpcStop \/ SqlStop
  /\ stop' = "returned"
  /\ UNCHANGED <<config, life, held, heard, attempt>>

\* The unit is done: the pipeline closes the input.
Close ==
  /\ life = "returned" /\ stop = "returned"
  /\ life' = "closed" /\ held' = FALSE
  /\ UNCHANGED <<config, stop, heard, attempt>>

Next ==
  \/ PluginInit \/ RunStarts \/ RunReturns \/ StopCalled \/ StopReturns \/ Close
  \/ \E a \in Tries : Serve(a)
  \/ \E a \in Tries, i \in Rows : Deliver(a, i)

Spec == Init /\ [][Next]_vars

(***************************************************************************)
(* Goroutines take the steps they can and the pipeline delivers every      *)
(* event (EventFlow: EventsAcknowledged).  A handler that has begun goes   *)
(* on: clients end their requests, or their connection does.               *)
(***************************************************************************)
ServerFairness ==
  /\ WF_vars(RunStarts) /\ WF_vars(RunReturns) /\ WF_vars(StopReturns) /\ WF_vars(Close)
  /\ \A a \in Tries : WF_vars(a \in Busy /\ Serve(a))

Fairness == ServerFairness /\ \A a \in Tries, i \in Rows : WF_vars(Deliver(a, i))

FairSpec == Spec /\ Fairness

-----------------------------------------------------------------------------
(* Properties.                                                             *)

\* The rows a positive answer speaks for: those of the request, and of a poll
\* those that were read.
Covered(a) == {of[a]} \X (IF kind = "sql" THEN RowsOf \ Unread(a) ELSE RowsOf)

\* What became of a row that the sender may forget.
Settled == IF wait THEN {"bad", "delivered"} ELSE {"bad", "flying", "delivered"}

Handled ==
  {m \in Requests \X Rows : \E a \in Tries : of[a] = m[1] /\ fate[a][m[2]] \in Settled}
Confirmed == UNION {Covered(a) : a \in {t \in Tries : answer[t] = "ok"}}

Contract == INSTANCE SourceContract
              WITH Messages <- Requests \X Rows, handled <- Handled, confirmed <- Confirmed

\* A sender is told success only when an event was made of everything it sent, as far
\* as that is possible, and was delivered if the input waits for delivery.
SourceSpec == Contract!Spec

\* Whoever sent something is answered or cut off: no handler waits for ever, not for
\* rows that became no event, and not when the input stops meanwhile.
Answered == \A a \in Tries : a \in Busy ~> (a \notin Busy \/ life = "crashed")

\* A stop that is heard ends the input: Run and Stop return and it is closed.
Ends == heard ~> life \in {"closed", "crashed"}

\* "wait for stop signal", "then stop the input" (src/core/unit/soft.go:229): a
\* stop always ends the input.
StopEnds == stop = "called" ~> life \in {"closed", "crashed"}

\* "If a read error occurs, the plugin returns 500" (httpl): success means that the
\* whole body was read.
ReadErrorIsAnError == kind = "httpl" => \A a \in Tries : answer[a] = "ok" => ~cut[a]

\* An input that failed or was closed holds no listener, connection or database.
NothingHeld == life \in {"failed", "closed"} => ~held
=============================================================================
