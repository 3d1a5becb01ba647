----------------------------- MODULE Processors ------------------------------
(***************************************************************************)
(* The processors that handle one event at a time, and what they owe to    *)
(* the pipeline: an event is handed on or dropped once, so is every copy   *)
(* made of it, and an event that could not be processed says so.           *)
(*                                                                         *)
(* Run of a processor is a loop over its events.  One pass of the loop is  *)
(* a sequence of steps: copies that are made, an error that is added, what *)
(* is sent to Out or Drop, and the metric at the end.  For each processor  *)
(* an operator tells the sequences its code can go through; which one it   *)
(* is depends on data (fields, labels, answers of services, scripts) and   *)
(* is left open.  Retries are in Outputs, clients that lines share in      *)
(* SharedPlugins, channels and filters in EventFlow.                       *)
(***************************************************************************)
EXTENDS Integers, FiniteSets, Sequences, SequencesExt

CONSTANTS
  Items,      \* events that reach the processor
  MaxCopies,  \* copies a processor makes of an event (a bound)
  Careless,   \* scripts may lose events that share the tracker, or return one twice
  None

VARIABLES
  proc,   \* the processor this is: fixed
  cur,    \* the event in its hands
  plan,   \* the steps that are left of the pass
  hand,   \* the event and the copies of it that are not handed over yet
  duty,   \* duty[e]: the counter of the tracker of e
  away,   \* away[e]: copies of e that were handed over and are not done
  wrong,  \* events with an error
  told    \* told[e]: none, accepted or failed, as the metrics have it

vars == <<proc, cur, plan, hand, duty, away, wrong, told>>

\* The event itself, and the copies of it.
Event  == 0
Copies == 1 .. MaxCopies
Tokens == {Event} \cup Copies

-----------------------------------------------------------------------------
(* Steps of a pass, and passes that several processors share.              *)

Copy(t)  == [op |-> "copy",  of |-> t]
Out(t)   == [op |-> "out",   of |-> t]
Drop(t)  == [op |-> "drop",  of |-> t]
StackError  == [op |-> "error", of |-> Event]
Accepted == [op |-> "accepted", of |-> Event]
Failed   == [op |-> "failed",   of |-> Event]

Steps == [op : {"copy", "out", "drop", "error", "accepted", "failed"}, of : Tokens]

Pass == <<Out(Event), Accepted>>
Fail == <<StackError, Out(Event), Failed>>
Gone == <<Drop(Event), Accepted>>

Made(n)     == [i \in 1 .. n |-> Copy(i)]
Sent(n)     == [i \in 1 .. n |-> Out(i)]
MadeSent(n) == [i \in 1 .. 2 * n |-> IF i % 2 = 1 THEN Copy((i + 1) \div 2) ELSE Out(i \div 2)]

-----------------------------------------------------------------------------
(* The processors.                                                         *)

\* The value under a label or a field is changed, whatever becomes of it.
DeleteRun     == {Pass}
LineRun       == {Pass}
RegexRun      == {Pass}
RkRun         == {Pass}
SwitchCaseRun == {Pass}
ThroughRun    == {Pass}

DropRun == {Gone}

\* What fails is noted and the rest of the work is done all the same.
ConverterRun == {Pass, Fail}
DefaultsRun  == {Pass, Fail}
LookupRun    == {Pass, Fail}
TemplateRun  == {Pass, Fail}

\* The first thing that fails ends the pass.
DeduplicateRun == {Pass, Fail}
ExecRun        == {Pass, Fail}
RedisRun       == {Pass, Fail}
SqlRun         == {Pass, Fail}

\* A prompt that is no string fails with an error that is nil.
OllamaRun == {Pass, Fail, <<Out(Event), Failed>>}

\* A field that cannot be set fails without an error in the event.
RenameRun == {Pass, <<Out(Event), Failed>>}

\* With drop_origin the event ends here, once it could be written.
LogRun == {Pass, Fail, Gone}

\* At least one copy, and the event after them.
CloneRun == {MadeSent(n) \o Pass : n \in Copies}

\* Mutated form of HttpBody: the copy is forgotten when it was serialized.
HttpBody_Kept == <<Copy(1)>>

\* The request body is serialized from a copy that holds the field.
HttpBody == <<Copy(1), Drop(1)>>

\* The host answers, or a fallback after it, and the answer fits into the event.
HttpCall == {Pass, Fail}

HttpRun ==
  HttpCall \cup {HttpBody \o pass : pass \in HttpCall}
    \cup {<<Copy(1), StackError, Out(Event), Drop(1), Failed>>}

\* A copy of the event for each parsed one, then the event itself unless drop_origin.
Produce == {MadeSent(n) \o last : n \in 0 .. MaxCopies, last \in {Pass, Gone}}

\* The event is replaced by its copies; if one of them cannot be made, the event goes
\* on with an error behind the copies that were sent.
Merge ==
  {MadeSent(n) \o Gone : n \in 0 .. MaxCopies}
    \cup {MadeSent(n) \o <<Copy(n + 1), Drop(n + 1)>> \o Fail : n \in 0 .. MaxCopies - 1}

ParserRun == {Pass, Fail} \cup Produce \cup Merge

\* Lists of events that a script returns: those that share the tracker, and the event
\* itself or not.
Returned(n) == {Sent(n)} \cup {Sent(k) \o <<Out(Event)>> \o SubSeq(Sent(n), k + 1, n) : k \in 0 .. n}

\* The event is dropped before the others are sent, if the script does not return it.
NotReturned(list) == Out(Event) \notin Range(list)
Marked(list) == (IF NotReturned(list) THEN <<Drop(Event)>> ELSE <<>>) \o list \o <<Accepted>>

\* A script shares the tracker with the events it makes, or not.  Nobody hands on what it
\* does not return, and what it returns twice is sent twice.
Carelessly ==
  {Made(n) \o pass : n \in Copies, pass \in {Fail, Gone}} \cup {<<Out(Event)>> \o Pass}

StarlarkRun ==
  {Fail}
    \cup UNION {{Made(n) \o Marked(list) : list \in Returned(n)} : n \in 0 .. MaxCopies}
    \cup (IF Careless THEN Carelessly ELSE {})

Runs(p) ==
  CASE p = "clone"       -> CloneRun
    [] p = "converter"   -> ConverterRun
    [] p = "deduplicate" -> DeduplicateRun
    [] p = "defaults"    -> DefaultsRun
    [] p = "delete"      -> DeleteRun
    [] p = "drop"        -> DropRun
    [] p = "exec"        -> ExecRun
    [] p = "http"        -> HttpRun
    [] p = "line"        -> LineRun
    [] p = "log"         -> LogRun
    [] p = "lookup"      -> LookupRun
    [] p = "ollama"      -> OllamaRun
    [] p = "parser"      -> ParserRun
    [] p = "redis"       -> RedisRun
    [] p = "regex"       -> RegexRun
    [] p = "rename"      -> RenameRun
    [] p = "rk"          -> RkRun
    [] p = "sql"         -> SqlRun
    [] p = "starlark"    -> StarlarkRun
    [] p = "switchcase"  -> SwitchCaseRun
    [] p = "template"    -> TemplateRun
    [] p = "through"     -> ThroughRun

AllProcessors ==
  {"clone", "converter", "deduplicate", "defaults", "delete", "drop", "exec", "http", "line",
   "log", "lookup", "ollama", "parser", "redis", "regex", "rename", "rk", "sql", "starlark",
   "switchcase", "template", "through"}

-----------------------------------------------------------------------------
TypeOK ==
  /\ cur \in Items \cup {None} /\ plan \in Seq(Steps) /\ hand \subseteq Tokens
  /\ duty \in [Items -> Nat] /\ away \in [Items -> Nat]
  /\ wrong \subseteq Items /\ told \in [Items -> {"none", "accepted", "failed"}]

\* An event comes with one reference to its tracker.
Init ==
  /\ cur = None /\ plan = <<>> /\ hand = {}
  /\ duty = [e \in Items |-> 1] /\ away = [e \in Items |-> 0]
  /\ wrong = {} /\ told = [e \in Items |-> "none"]

\* for e := range p.In: the next event, and what will become of it.
Take(e) ==
  /\ cur = None /\ told[e] = "none"
  /\ cur' = e /\ plan' \in Runs(proc) /\ hand' = {Event}
  /\ UNCHANGED <<proc, duty, away, wrong, told>>

Now == Head(plan)
Due(op) == cur # None /\ Now.op \in op /\ plan' = Tail(plan) /\ UNCHANGED <<proc, cur>>

\* Clone and ShareTracker count the copy.
MakeCopy ==
  /\ Due({"copy"})
  /\ hand' = hand \cup {Now.of} /\ duty' = [duty EXCEPT ![cur] = @ + 1]
  /\ UNCHANGED <<away, wrong, told>>

\* p.Out <- e and p.Drop <- e: somebody else has it from now on.
HandOver ==
  /\ Due({"out", "drop"})
  /\ hand' = hand \ {Now.of} /\ away' = [away EXCEPT ![cur] = @ + 1]
  /\ UNCHANGED <<duty, wrong, told>>

AddError ==
  /\ Due({"error"})
  /\ wrong' = wrong \cup {cur}
  /\ UNCHANGED <<hand, duty, away, told>>

\* The metric; what is still in the hands of the processor is forgotten.
Observe ==
  /\ cur # None /\ Now.op \in {"accepted", "failed"}
  /\ told' = [told EXCEPT ![cur] = Now.op]
  /\ cur' = None /\ plan' = <<>> /\ hand' = {}
  /\ UNCHANGED <<proc, duty, away, wrong>>

Work == MakeCopy \/ HandOver \/ AddError \/ Observe

\* Done of a copy that was dropped here, or at the end of the pipeline.
Done(e) ==
  /\ away[e] > 0
  /\ away' = [away EXCEPT ![e] = @ - 1] /\ duty' = [duty EXCEPT ![e] = @ - 1]
  /\ UNCHANGED <<proc, cur, plan, hand, wrong, told>>

\* It was the last one: the hooks run.
LastCopy(e) == duty[e] = 1

-----------------------------------------------------------------------------
(* Properties.                                                             *)

InHand(e) == IF cur = e THEN Cardinality(hand) ELSE IF told[e] = "none" THEN 1 ELSE 0

\* The tracker of an event counts the copies that somebody has: none is forgotten by the
\* processor, and none is handed over twice ("duty counter less than zero" is a panic).
Counted == \A e \in Items : duty[e] = InHand(e) + away[e]

\* An event that counts as failed carries an error, by which filters and outputs know it,
\* and one that counts as accepted has none.
FailedIsMarked ==
  \A e \in Items : /\ told[e] = "accepted" => e \notin wrong
                   /\ told[e] = "failed" /\ proc \notin {"rename", "ollama"} => e \in wrong

\* Nothing is done to an event that is with somebody else already.
OwnOnly == cur # None /\ Now.op \in {"copy", "error"} => Event \in hand

HandedOn == Counted /\ FailedIsMarked /\ OwnOnly
=============================================================================
