---------------------------- MODULE InputsProofs ----------------------------
(***************************************************************************)
(* The inputs that answer tell success only of what was delivered, for any *)
(* number of attempts, requests, rows and workers.  The processor behind an input hands on     *)
(* each event and each copy of it once: for each of the processors, any    *)
(* number of copies and any number of events.                              *)
(***************************************************************************)
EXTENDS Ingest, SequenceTheorems, FiniteSetTheorems, TLAPS

USE InputsAssumption

\* An attempt: a free one knows nothing; who emits has a row to send; who waits has
\* read everything, unless the reading was cut; an answer ends it.
AttemptInv(a) ==
  /\ at[a] = "free" => \A i \in Rows : fate[a][i] = "unread"
  /\ at[a] # "free" => of[a] \in Requests
  /\ answer[a] # "none" => at[a] = "ended"
  /\ at[a] = "emit" => kind = "http" \/ Unread(a) # {}
  /\ at[a] \in {"body", "emit"} /\ kind \in {"unary", "cronjob"} => Unread(a) # {}
  /\ at[a] = "wait" => cut[a] \/ Unread(a) = {}
  /\ cut[a] => kind \in {"httpl", "stream", "sql"} \cap Cuttable

Inv == TypeOK /\ \A a \in Tries : AttemptInv(a)

-----------------------------------------------------------------------------
(* The rows of an attempt.                                                 *)

\* The least element of a set of natural numbers.
LEMMA Least ==
  ASSUME NEW S \in SUBSET Nat, S # {}
  PROVE  \E k \in S : \A i \in S : k <= i
<1>1. IsWellFoundedOn(OpToRel(<, Nat), Nat)
  BY NatLessThanWellFounded
<1>2. PICK k \in S : \A i \in S : <<i, k>> \notin OpToRel(<, Nat)
  BY <1>1, WFMin
<1>3. \A i \in S : ~(i < k)
  BY <1>2 DEF OpToRel
<1> QED
  BY <1>3

LEMMA RowsAre == RowsOf \subseteq Rows /\ RowsOf # {} /\ Rows \subseteq Nat
BY DEF RowsOf, Rows

LEMMA RowIs ==
  ASSUME NEW a \in Tries, Unread(a) # {}
  PROVE  Row(a) \in RowsOf /\ Row(a) \in Rows /\ fate[a][Row(a)] = "unread"
<1>1. Unread(a) \in SUBSET Nat
  BY RowsAre DEF Unread
<1>2. PICK k \in Unread(a) : \A i \in Unread(a) : k <= i
  BY <1>1, Least
<1>3. Row(a) \in Unread(a)
  BY <1>2 DEF Row
<1> QED BY <1>3, RowsAre DEF Unread

-----------------------------------------------------------------------------
(* What the steps of the attempts have in common.                          *)

Begins(a) ==
  /\ life \in {"forced", "serving"}
  /\ \E r \in Requests, s \in {"body", "emit"} : Begin(a, r, s)

Emits(a) ==
  at[a] = "body" /\ (kind \in {"http", "unary"} \/ Unread(a) # {}) /\ Goto(a, "emit")

Waits(a) == at[a] \in {"body", "emit"} /\ Unread(a) = {} /\ Goto(a, "wait")

Skips(a) ==
  at[a] = "body" /\ Unread(a) # {} /\ kind \in {"stream", "beats", "subscriber"} /\ Skip(a)

Cuts(a) == at[a] = "body" /\ kind \in {"httpl", "stream", "sql"} /\ CutAt(a, "wait")

Sends(a) ==
  \E s \in {"body", "emit", "wait"} :
    /\ Send(a, s)
    /\ kind = "http" => s = "emit" /\ Unread(a) # {}
    /\ kind # "http" => s # "emit"
    /\ kind \in {"unary", "cronjob"} <=> s = "wait"

Answers(a) ==
  \E v \in {"ok", "error", "gone"} :
    /\ at[a] \in {"body", "emit", "wait"} /\ Answer(a, v)
    /\ v = "ok" => /\ at[a] = "wait" /\ WaitOver(a)
                   /\ ~(kind = "stream" /\ cut[a])

Panics(a) == kind \in {"beats", "cronjob"} /\ Panic

Served(a) ==
  \/ Begins(a) \/ Emits(a) \/ Waits(a) \/ Skips(a) \/ Cuts(a) \/ Sends(a) \/ Answers(a)
  \/ Panics(a)

LEMMA ServeIs ==
  ASSUME NEW a \in Tries, Serve(a)
  PROVE  Served(a)
<1> USE DEF Served
<1>1. CASE HttpServe(a)
  BY <1>1 DEF HttpServe, Open, Begins, Emits, Waits, Sends, Answers, SendRecovered, Reply
<1>2. CASE HttplServe(a)
  BY <1>2 DEF HttplServe, Open, Begins, Emits, Waits, Cuts, Sends, Answers, SendRecovered, Reply
<1>3. CASE UnaryServe(a)
  BY <1>3 DEF UnaryServe, Open, Begins, Emits, Sends, Answers, Reply
<1>4. CASE StreamServe(a)
  BY <1>4 DEF StreamServe, StreamEnd, Open, Begins, Emits, Waits, Skips, Cuts, Sends, Answers, Reply
<1>5. CASE BeatsServe(a)
  BY <1>5 DEF BeatsServe, Open, Begins, Emits, Waits, Skips, Sends, Answers, Panics, Reply
<1>6. CASE SqlPoll(a)
  BY <1>6 DEF SqlPoll, Begins, Emits, Waits, Cuts, Sends, Answers, Reply
<1>7. CASE Subscribe(a)
  BY <1>7 DEF Subscribe, Open, Begins, Emits, Skips, Sends, Answers
<1>8. CASE JobRun(a)
  BY <1>8 DEF JobRun, Open, Begins, Sends, Answers, Panics
<1> QED BY <1>1, <1>2, <1>3, <1>4, <1>5, <1>6, <1>7, <1>8 DEF Serve

-----------------------------------------------------------------------------
(* The invariant.                                                          *)

\* A step of the input that is none of an attempt.
Outer ==
  PluginInit \/ RunStarts \/ RunReturns \/ StopCalled \/ StopReturns \/ Close

LEMMA OuterIs ==
  ASSUME Outer
  PROVE  UNCHANGED <<config, attempt>>
BY DEF Outer, PluginInit, HttpInit, HttplInit, BeatsInit, SqlInit, CronjobInit, GrpcInit,
       GrpcServerInit, SubscriberInit, Ready, Fails, Initialised, RunStarts, RunReturns,
       StopCalled, StopReturns, Close, Becomes

LEMMA NextIs ==
  ASSUME [Next]_vars
  PROVE  \/ UNCHANGED vars
         \/ Outer
         \/ \E a \in Tries : Served(a)
         \/ \E a \in Tries, i \in Rows : Deliver(a, i)
BY ServeIs DEF Next, Outer

LEMMA OuterTypes ==
  ASSUME TypeOK, Outer
  PROVE  TypeOK'
<1>1. UNCHANGED <<config, attempt>>
  BY OuterIs
<1>2. CASE PluginInit
  BY <1>1, <1>2 DEF TypeOK, config, attempt, PluginInit, HttpInit, HttplInit, BeatsInit,
       SqlInit, CronjobInit, GrpcInit, GrpcServerInit, SubscriberInit, Ready, Fails, Initialised
<1>3. CASE StopCalled
  BY <1>1, <1>3 DEF TypeOK, config, attempt, StopCalled, Becomes
<1>4. CASE RunStarts \/ RunReturns \/ StopReturns \/ Close
  BY <1>1, <1>4 DEF TypeOK, config, attempt, RunStarts, RunReturns, StopReturns, Close, Becomes
<1> QED BY <1>2, <1>3, <1>4 DEF Outer

LEMMA ServedTypes ==
  ASSUME TypeOK, NEW a \in Tries, Served(a)
  PROVE  TypeOK'
<1> USE DEF TypeOK, config, outside, attempt
<1>1. CASE Begins(a)
  BY <1>1 DEF Begins, Begin
<1>2. CASE Emits(a) \/ Waits(a)
  BY <1>2 DEF Emits, Waits, Goto
<1>3. CASE Skips(a)
  BY <1>3 DEF Skips, Skip
<1>4. CASE Cuts(a)
  BY <1>4 DEF Cuts, CutAt
<1>5. CASE Sends(a)
  <2>1. PICK s \in {"body", "emit", "wait"} : Send(a, s)
    BY <1>5 DEF Sends
  <2>2. at' \in [Tries -> {"free", "body", "emit", "wait", "ended"}]
    BY <2>1 DEF Send
  <2>3. [fate[a] EXCEPT ![Row(a)] = "flying"] \in [Rows -> {"unread", "bad", "flying", "delivered"}]
    OBVIOUS
  <2>4. fate' = [fate EXCEPT ![a] = [fate[a] EXCEPT ![Row(a)] = "flying"]]
    BY <2>1 DEF Send
  <2>5. fate' \in [Tries -> [Rows -> {"unread", "bad", "flying", "delivered"}]]
    BY <2>3, <2>4
  <2>6. UNCHANGED <<kind, wait, life, held, stop, heard, of, cut, answer>>
    BY <2>1 DEF Send
  <2> QED BY <2>2, <2>5, <2>6
<1>6. CASE Answers(a)
  BY <1>6 DEF Answers, Answer
<1>7. CASE Panics(a)
  BY <1>7 DEF Panics, Panic
<1> QED BY <1>1, <1>2, <1>3, <1>4, <1>5, <1>6, <1>7 DEF Served

LEMMA DeliverTypes ==
  ASSUME TypeOK, NEW a \in Tries, NEW i \in Rows, Deliver(a, i)
  PROVE  TypeOK'
BY DEF TypeOK, Deliver, config, outside, attempt

LEMMA StepTypes ==
  ASSUME TypeOK, [Next]_vars
  PROVE  TypeOK'
<1>1. CASE UNCHANGED vars
  BY <1>1 DEF TypeOK, vars, config, outside, attempt
<1> QED BY <1>1, NextIs, OuterTypes, ServedTypes, DeliverTypes

\* The steps of one attempt leave the others alone.
LEMMA OthersKeep ==
  ASSUME TypeOK, NEW a \in Tries, NEW d \in Tries, kind' = kind,
         at'[d] = at[d], of'[d] = of[d], fate'[d] = fate[d], cut'[d] = cut[d],
         answer'[d] = answer[d], AttemptInv(d)
  PROVE  AttemptInv(d)'
BY DEF AttemptInv, Unread, RowsOf

LEMMA ServedInv ==
  ASSUME Inv, NEW a \in Tries, Served(a), NEW d \in Tries
  PROVE  AttemptInv(d)'
<1> USE DEF Inv
<1>1. kind' = kind
  BY DEF Served, Begins, Begin, Emits, Waits, Goto, Skips, Skip, Cuts, CutAt, Sends, Send,
         Answers, Answer, Panics, Panic, config
<1>2. RowsOf' = RowsOf
  BY <1>1 DEF RowsOf
<1>3. AttemptInv(d) /\ AttemptInv(a)
  OBVIOUS
<1>4. CASE d # a
  <2>1. /\ at'[d] = at[d] /\ of'[d] = of[d] /\ fate'[d] = fate[d] /\ cut'[d] = cut[d]
        /\ answer'[d] = answer[d]
    BY <1>4 DEF Served, Begins, Begin, Emits, Waits, Goto, Skips, Skip, Cuts, CutAt, Sends,
         Send, Answers, Answer, Panics, Panic, config, attempt, TypeOK
  <2> QED BY <1>1, <1>3, <2>1, OthersKeep
<1>5. CASE Begins(a) /\ d = a
  <2>1. /\ at[a] = "free" /\ at'[a] \in {"body", "emit"} /\ of'[a] \in Requests
        /\ fate' = fate /\ cut' = cut /\ answer' = answer
    BY <1>5 DEF Begins, Begin, TypeOK
  <2>2. \A i \in Rows : fate'[a][i] = "unread"
    BY <1>3, <2>1 DEF AttemptInv
  <2>3. Unread(a)' = RowsOf
    BY <1>2, <2>2, RowsAre DEF Unread
  <2>4. Unread(a)' # {}
    BY <2>3, RowsAre
  <2> QED BY <1>1, <1>3, <1>5, <2>1, <2>4 DEF AttemptInv
<1>6. CASE (Emits(a) \/ Waits(a)) /\ d = a
  <2>1. /\ at[a] \in {"body", "emit"} /\ of' = of /\ fate' = fate /\ cut' = cut
        /\ answer' = answer
    BY <1>6 DEF Emits, Waits, Goto
  <2>2. Unread(a)' = Unread(a)
    BY <1>2, <2>1 DEF Unread
  <2>3. \/ at'[a] = "emit" /\ at[a] = "body" /\ (kind \in {"http", "unary"} \/ Unread(a) # {})
        \/ at'[a] = "wait" /\ Unread(a) = {}
    BY <1>6 DEF Emits, Waits, Goto, TypeOK
  <2> QED BY <1>1, <1>3, <1>6, <2>1, <2>2, <2>3 DEF AttemptInv
<1>7. CASE Skips(a) /\ d = a
  <2>1. /\ at[a] = "body" /\ UNCHANGED <<at, of, cut, answer>>
        /\ kind \in {"stream", "beats", "subscriber"}
    BY <1>7 DEF Skips, Skip
  <2> QED BY <1>1, <1>3, <1>7, <2>1 DEF AttemptInv
<1>8. CASE Cuts(a) /\ d = a
  <2>1. /\ at[a] = "body" /\ UNCHANGED <<of, fate, answer>> /\ at'[a] = "wait" /\ cut'[a] = TRUE
        /\ kind \in {"httpl", "stream", "sql"} \cap Cuttable
    BY <1>8 DEF Cuts, CutAt, TypeOK
  <2> QED BY <1>1, <1>3, <1>8, <2>1 DEF AttemptInv
<1>9. CASE Sends(a) /\ d = a
  <2>1. /\ at[a] = "emit" /\ UNCHANGED <<of, cut, answer>>
        /\ fate' = [fate EXCEPT ![a][Row(a)] = "flying"]
    BY <1>9 DEF Sends, Send
  <2>2. /\ at'[a] \in {"body", "emit", "wait"}
        /\ kind = "http" => at'[a] = "emit"
        /\ kind # "http" => at'[a] # "emit"
        /\ kind \in {"unary", "cronjob"} <=> at'[a] = "wait"
    BY <1>9 DEF Sends, Send, TypeOK
  <2>3. kind \in {"unary", "cronjob"} => Unread(a)' = {}
    <3>1. SUFFICES ASSUME kind \in {"unary", "cronjob"}
                   PROVE  Unread(a)' = {}
      OBVIOUS
    <3>2. RowsOf = {1} /\ Unread(a) # {}
      BY <1>3, <2>1, <3>1 DEF AttemptInv, RowsOf
    <3>3. Row(a) = 1 /\ 1 \in Rows
      BY <3>2, RowIs
    <3>4. fate'[a][1] = "flying"
      BY <2>1, <3>3 DEF TypeOK
    <3> QED BY <1>2, <3>2, <3>4 DEF Unread
  <2> QED BY <1>1, <1>3, <1>9, <2>1, <2>2, <2>3 DEF AttemptInv
<1>10. CASE Answers(a) /\ d = a
  <2>1. /\ at[a] \in {"body", "emit", "wait"} /\ UNCHANGED <<of, fate, cut>>
        /\ at'[a] = "ended"
    BY <1>10 DEF Answers, Answer, TypeOK
  <2> QED BY <1>1, <1>3, <1>10, <2>1 DEF AttemptInv
<1>11. CASE Panics(a) /\ d = a
  <2>1. UNCHANGED <<at, of, fate, cut, answer>>
    BY <1>11 DEF Panics, Panic, attempt
  <2> QED BY <1>1, <1>3, <2>1, OthersKeep
<1> QED BY <1>4, <1>5, <1>6, <1>7, <1>8, <1>9, <1>10, <1>11 DEF Served

LEMMA DeliverInv ==
  ASSUME Inv, NEW a \in Tries, NEW i \in Rows, Deliver(a, i), NEW d \in Tries
  PROVE  AttemptInv(d)'
<1>1. /\ UNCHANGED <<kind, at, of, cut, answer>> /\ fate[a][i] = "flying"
      /\ fate' = [fate EXCEPT ![a][i] = "delivered"]
  BY DEF Deliver, config
<1>2. \A j \in Rows : fate'[d][j] = "unread" <=> fate[d][j] = "unread"
  BY <1>1 DEF Inv, TypeOK
<1>3. Unread(d)' = Unread(d)
  BY <1>1, <1>2, RowsAre DEF Unread, RowsOf
<1>4. AttemptInv(d)
  BY DEF Inv
<1> QED BY <1>1, <1>2, <1>3, <1>4 DEF AttemptInv

LEMMA StepInv ==
  ASSUME Inv, [Next]_vars
  PROVE  Inv'
<1>1. TypeOK'
  BY StepTypes DEF Inv
<1>2. ASSUME NEW d \in Tries PROVE AttemptInv(d)'
  <2>1. CASE UNCHANGED vars \/ Outer
    <3>1. UNCHANGED <<config, attempt>>
      BY <2>1, OuterIs DEF vars
    <3> QED BY <3>1, OthersKeep DEF Inv, config, attempt
  <2>2. CASE \E a \in Tries : Served(a)
    BY <2>2, ServedInv
  <2>3. CASE \E a \in Tries, i \in Rows : Deliver(a, i)
    BY <2>3, DeliverInv
  <2> QED BY <2>1, <2>2, <2>3, NextIs
<1> QED BY <1>1, <1>2 DEF Inv

LEMMA InitInv ==
  ASSUME Init
  PROVE  Inv
<1>1. TypeOK
  BY DEF Init, TypeOK
<1> QED BY <1>1 DEF Init, Inv, AttemptInv

LEMMA InvAlways == Spec => []Inv
BY InitInv, StepInv, PTL DEF Spec

\* Types of the inputs and their attempts.
THEOREM TypeCorrect == Spec => []TypeOK
BY InvAlways, PTL DEF Inv

-----------------------------------------------------------------------------
(* Success means delivery.                                                 *)

\* What the sender of d may forget is settled by steps that do not change its rows,
\* or only change rows that were not read before an answer.
LEMMA ConfirmedSame ==
  ASSUME kind' = kind, answer' = answer,
         \A d \in Tries : answer[d] = "ok" => of'[d] = of[d] /\ Unread(d)' = Unread(d)
  PROVE  Confirmed' = Confirmed
<1>1. RowsOf' = RowsOf
  BY DEF RowsOf
<1>2. \A d \in Tries : answer[d] = "ok" => Covered(d)' = Covered(d)
  BY <1>1 DEF Covered
<1>3. {t \in Tries : answer[t] = "ok"}' = {t \in Tries : answer[t] = "ok"}
  OBVIOUS
<1>4. \A m : m \in Confirmed' <=> m \in Confirmed
  BY <1>2, <1>3 DEF Confirmed
<1> QED BY <1>4 DEF Confirmed

\* One row of one attempt gets another fate.
LEMMA FateRefines ==
  ASSUME Inv, NEW a \in Tries, NEW i \in Rows, NEW v \in {"bad", "flying", "delivered"},
         fate' = [fate EXCEPT ![a][i] = v], UNCHANGED <<kind, wait, of, answer>>,
         \/ fate[a][i] = "unread" /\ at[a] # "ended" /\ at[a] # "free"
         \/ fate[a][i] = "flying" /\ v = "delivered"
  PROVE  [Contract!Next]_(Contract!vars)
<1> USE DEF Inv
<1>1. Settled' = Settled /\ Settled \subseteq {"bad", "flying", "delivered"}
  BY DEF Settled
<1>2. \A d \in Tries, j \in Rows : fate'[d][j] = IF d = a /\ j = i THEN v ELSE fate[d][j]
  BY DEF TypeOK
<1>3. of[a] \in Requests
  BY DEF AttemptInv
<1>4. Confirmed' = Confirmed
  <2>1. ASSUME NEW d \in Tries, answer[d] = "ok"
        PROVE  Unread(d)' = Unread(d)
    <3>1. \A j \in Rows : fate'[d][j] = "unread" <=> fate[d][j] = "unread"
      BY <1>2, <2>1 DEF AttemptInv
    <3> QED BY <3>1, RowsAre DEF Unread, RowsOf
  <2> QED BY <2>1, ConfirmedSame
<1>5. CASE v \in Settled
  <2>1. Handled' = Handled \cup {<<of[a], i>>}
    <3>1. ASSUME NEW m \in Requests \X Rows
          PROVE  m \in Handled' <=> m \in Handled \cup {<<of[a], i>>}
      <4>1. m[1] \in Requests /\ m[2] \in Rows /\ m = <<m[1], m[2]>>
        OBVIOUS
      <4>2. fate[a][i] \in Settled => fate[a][i] = "flying"
        BY <1>1
      <4>3. CASE m = <<of[a], i>>
        BY <1>1, <1>2, <1>5, <4>1, <4>3 DEF Handled
      <4>4. CASE m # <<of[a], i>>
        <5>1. \A d \in Tries : of[d] = m[1] => fate'[d][m[2]] = fate[d][m[2]]
          BY <1>2, <4>1, <4>4
        <5> QED BY <1>1, <4>4, <5>1 DEF Handled
      <4> QED BY <4>3, <4>4
    <3> QED BY <1>3, <3>1 DEF Handled
  <2>2. <<of[a], i>> \in Requests \X Rows
    BY <1>3
  <2>3. Contract!Handle(<<of[a], i>>)
    BY <1>4, <2>1, <2>2 DEF Contract!Handle
  <2> QED BY <2>2, <2>3 DEF Contract!Next
<1>6. CASE v \notin Settled
  <2>1. fate[a][i] \notin Settled
    BY <1>6 DEF Settled
  <2>2. Handled' = Handled
    BY <1>1, <1>2, <1>6, <2>1 DEF Handled
  <2> QED BY <1>4, <2>2 DEF Contract!vars
<1> QED BY <1>5, <1>6

\* An attempt is answered, with success only if it may be.
LEMMA AnswerRefines ==
  ASSUME "httpl" \notin Cuttable, Inv, NEW a \in Tries, Answers(a)
  PROVE  [Contract!Next]_(Contract!vars)
<1> USE DEF Inv
<1>1. PICK v \in {"ok", "error", "gone"} :
        /\ at[a] \in {"body", "emit", "wait"} /\ Answer(a, v)
        /\ v = "ok" => at[a] = "wait" /\ WaitOver(a) /\ ~(kind = "stream" /\ cut[a])
  BY DEF Answers
<1>2. /\ UNCHANGED <<kind, wait, of, fate, cut>> /\ answer' = [answer EXCEPT ![a] = v]
      /\ answer[a] = "none"
  BY <1>1 DEF Answer, config, AttemptInv, TypeOK
<1>3. Handled' = Handled
  BY <1>2 DEF Handled, Settled
<1>4. \A d \in Tries : Covered(d)' = Covered(d)
  BY <1>2 DEF Covered, RowsOf, Unread
<1>5. CASE v # "ok"
  <2>1. \A d \in Tries : answer'[d] = "ok" <=> answer[d] = "ok"
    BY <1>2, <1>5 DEF TypeOK
  <2>2. \A m : m \in Confirmed' <=> m \in Confirmed
    BY <1>4, <2>1 DEF Confirmed
  <2>3. Confirmed' = Confirmed
    BY <2>2 DEF Confirmed
  <2> QED BY <1>3, <2>3 DEF Contract!vars
<1>6. CASE v = "ok"
  <2>1. at[a] = "wait" /\ WaitOver(a) /\ of[a] \in Requests
    BY <1>1, <1>6 DEF AttemptInv
  <2>2. kind = "sql" \/ Unread(a) = {}
    BY <1>1, <1>6, <2>1 DEF AttemptInv
  <2>3. Covered(a) \subseteq {of[a]} \X (RowsOf \ Unread(a))
    BY <2>2 DEF Covered
  <2>4. ASSUME NEW i \in RowsOf \ Unread(a)
        PROVE  fate[a][i] \in Settled
    <3>1. fate[a][i] \in {"bad", "flying", "delivered"}
      BY <2>4, RowsAre DEF Unread, TypeOK
    <3>2. wait => fate[a][i] # "flying"
      BY <2>1, <2>4 DEF WaitOver
    <3> QED BY <3>1, <3>2 DEF Settled
  <2>5. Covered(a) \subseteq Handled
    <3>1. ASSUME NEW m \in Covered(a)
          PROVE  m \in Handled
      <4>1. m[1] = of[a] /\ m[2] \in RowsOf \ Unread(a) /\ m = <<m[1], m[2]>>
        BY <2>3
      <4>2. m \in Requests \X Rows
        BY <2>1, <4>1, RowsAre
      <4> QED BY <2>4, <4>1, <4>2 DEF Handled
    <3> QED BY <3>1
  <2>6. Confirmed' = Confirmed \cup Covered(a)
    <3>1. \A d \in Tries : answer'[d] = "ok" <=> answer[d] = "ok" \/ d = a
      BY <1>2, <1>6 DEF TypeOK
    <3>2. \A m : m \in Confirmed' <=> m \in Confirmed \/ m \in Covered(a)
      BY <1>4, <3>1 DEF Confirmed
    <3> QED BY <3>2 DEF Confirmed
  <2>7. Covered(a) \in SUBSET (Requests \X Rows)
    BY <2>5 DEF Handled
  <2> QED BY <1>3, <2>5, <2>6, <2>7 DEF Contract!Next, Contract!Confirm
<1> QED BY <1>5, <1>6

LEMMA BeginRefines ==
  ASSUME Inv, NEW a \in Tries, Begins(a)
  PROVE  [Contract!Next]_(Contract!vars)
<1> USE DEF Inv
<1>1. /\ UNCHANGED <<kind, wait, fate, cut, answer>> /\ at[a] = "free"
      /\ \A d \in Tries \ {a} : of'[d] = of[d]
  BY DEF Begins, Begin, config, TypeOK
<1>2. \A i \in Rows : fate[a][i] \notin Settled
  BY <1>1 DEF AttemptInv, Settled
<1>3. Handled' = Handled
  BY <1>1, <1>2 DEF Handled, Settled
<1>4. answer[a] # "ok"
  BY <1>1 DEF AttemptInv
<1>5. \A d \in Tries : answer[d] = "ok" => of'[d] = of[d] /\ Unread(d)' = Unread(d)
  BY <1>1, <1>4 DEF Unread, RowsOf
<1>6. Confirmed' = Confirmed
  BY <1>1, <1>5, ConfirmedSame
<1> QED BY <1>3, <1>6 DEF Contract!vars

LEMMA QuietRefines ==
  ASSUME UNCHANGED <<kind, wait, of, fate, answer>>
  PROVE  [Contract!Next]_(Contract!vars)
<1>1. Handled' = Handled
  BY DEF Handled, Settled
<1>2. Confirmed' = Confirmed
  BY DEF Confirmed, Covered, Unread, RowsOf
<1> QED BY <1>1, <1>2 DEF Contract!vars

LEMMA StepRefines ==
  ASSUME "httpl" \notin Cuttable, Inv, [Next]_vars
  PROVE  [Contract!Next]_(Contract!vars)
<1>1. CASE UNCHANGED vars \/ Outer
  BY <1>1, OuterIs, QuietRefines DEF vars, config, attempt
<1>2. ASSUME NEW a \in Tries, Served(a)
      PROVE  [Contract!Next]_(Contract!vars)
  <2>1. CASE Begins(a)
    BY <2>1, BeginRefines
  <2>2. CASE Emits(a) \/ Waits(a) \/ Cuts(a) \/ Panics(a)
    BY <2>2, QuietRefines DEF Emits, Waits, Goto, Cuts, CutAt, Panics, Panic, config, attempt
  <2>3. CASE Skips(a)
    <3>1. /\ at[a] = "body" /\ Row(a) \in Rows /\ fate[a][Row(a)] = "unread"
          /\ fate' = [fate EXCEPT ![a][Row(a)] = "bad"]
          /\ UNCHANGED <<kind, wait, of, answer>>
      BY <2>3, RowIs DEF Skips, Skip, config
    <3> QED BY <3>1, FateRefines
  <2>4. CASE Sends(a)
    <3>1. /\ at[a] = "emit" /\ fate' = [fate EXCEPT ![a][Row(a)] = "flying"]
          /\ UNCHANGED <<kind, wait, of, answer>>
      BY <2>4 DEF Sends, Send, config
    <3>2. Unread(a) # {}
      BY <2>4, <3>1 DEF Sends, Inv, AttemptInv
    <3>3. Row(a) \in Rows /\ fate[a][Row(a)] = "unread"
      BY <3>2, RowIs
    <3> QED BY <3>1, <3>3, FateRefines
  <2>5. CASE Answers(a)
    BY <2>5, AnswerRefines
  <2> QED BY <1>2, <2>1, <2>2, <2>3, <2>4, <2>5 DEF Served
<1>3. ASSUME NEW a \in Tries, NEW i \in Rows, Deliver(a, i)
      PROVE  [Contract!Next]_(Contract!vars)
  BY <1>3, FateRefines DEF Deliver, config
<1> QED BY <1>1, <1>2, <1>3, NextIs

\* The inputs implement the contract of a source, for any number of attempts, requests
\* and rows, as long as no body of httpl breaks off (httpl.go:155): success is told only
\* of what became an event and, if the input waits for it, was delivered.
THEOREM SourceCorrect ==
  ASSUME "httpl" \notin Cuttable
  PROVE  Spec => SourceSpec
<1>1. Init => Contract!Init
  BY DEF Init, Contract!Init, Handled, Confirmed, Settled
<1>2. Inv /\ [Next]_vars => [Contract!Next]_(Contract!vars)
  BY StepRefines
<1> QED BY <1>1, <1>2, InvAlways, PTL DEF Spec, SourceSpec, Contract!Spec

-----------------------------------------------------------------------------
(* An input with a processor behind it behaves like the input alone: what  *)
(* Inputs promises for every pipeline holds for this one.                  *)

LEMMA StepIsInputStep ==
  ASSUME [IngestNext]_ingest
  PROVE  [Next]_vars
<1>1. CASE UNCHANGED ingest
  BY <1>1 DEF ingest
<1>2. CASE InputStep
  BY <1>2 DEF InputStep, Next
<1>3. CASE Worked
  BY <1>3 DEF Worked
<1>4. ASSUME NEW a \in Tries, NEW i \in Rows, Taken(a, i) \/ Done(a, i) \/ Delivered(a, i)
      PROVE  [Next]_vars
  <2>1. Deliver(a, i) \/ UNCHANGED vars
    BY <1>4 DEF Taken, Done, Delivered
  <2> QED BY <2>1 DEF Next
<1> QED BY <1>1, <1>2, <1>3, <1>4 DEF IngestNext

\* Whatever a processor does with an event, its input sees no more than a delivery, at
\* the last copy, or nothing (tracker.go:37).
THEOREM IngestImplements == IngestSpec => Spec
<1>1. IngestInit => Init
  BY DEF IngestInit
<1> QED BY <1>1, StepIsInputStep, PTL DEF IngestSpec, Spec

\* So the promises of the inputs hold for every processor behind them, careless or not.
THEOREM IngestSourceCorrect ==
  ASSUME "httpl" \notin Cuttable
  PROVE  IngestSpec => SourceSpec
BY IngestImplements, SourceCorrect, PTL

-----------------------------------------------------------------------------
(* Passes of the processors: every one hands over all that it has, once,   *)
(* whoever wrote it and however many copies it makes.                      *)

Gives(s, j, t) == j \in 1 .. Len(s) /\ s[j].op \in {"out", "drop"} /\ s[j].of = t
Makes(s, j, t) == j \in 1 .. Len(s) /\ s[j].op = "copy" /\ s[j].of = t
Errs(s, j)     == j \in 1 .. Len(s) /\ s[j].op = "error"

\* The metric is the last step, and no other.
EndsLast(s) ==
  Len(s) > 0 /\ \A j \in 1 .. Len(s) : s[j].op \in {"accepted", "failed"} <=> j = Len(s)

\* What is in hand is given away, what is made later is given away after that, and
\* nothing else is.
AllGiven(s, h) ==
  /\ \A t \in h : \E j \in Nat : Gives(s, j, t)
  /\ \A t \in P!Tokens, j \in Nat :
       Makes(s, j, t) => t \notin h /\ \E k \in Nat : j < k /\ Gives(s, k, t)
  /\ \A t \in P!Tokens, j \in Nat :
       Gives(s, j, t) => t \in h \/ \E k \in Nat : k < j /\ Makes(s, k, t)

\* A token is made once and given away once.
Once(s) ==
  \A t \in P!Tokens, j, k \in Nat :
    (Gives(s, j, t) /\ Gives(s, k, t)) \/ (Makes(s, j, t) /\ Makes(s, k, t)) => j = k

\* The event is copied and marked only before it is given away.
Owned(s, h) ==
  \A t \in P!Tokens, j \in Nat :
    Makes(s, j, t) \/ Errs(s, j) =>
      P!Event \in h /\ \A k \in Nat : k < j => ~Gives(s, k, P!Event)

Sound(s, h) ==
  s \in Seq(P!Steps) /\ EndsLast(s) /\ AllGiven(s, h) /\ Once(s) /\ Owned(s, h)

\* An event is accepted without an error (errors is what it has already), and failed with
\* one, except for two processors.
Marks(s, p, errors) ==
  /\ s[Len(s)].op = "accepted" => errors = {} /\ \A j \in Nat : ~Errs(s, j)
  /\ s[Len(s)].op = "failed" /\ p \notin {"rename", "ollama"} =>
       errors # {} \/ \E j \in Nat : Errs(s, j)

\* A whole pass, which begins with the event in hand and no error.
Fresh(s, p) == Sound(s, {P!Event}) /\ Marks(s, p, {})

\* The copies 1 to n are made and given away, and nothing else is done; used where
\* the pass goes on behind them.
Spent(u, n) ==
  /\ u \in Seq(P!Steps) /\ \A j \in 1 .. Len(u) : u[j].op \in {"copy", "out", "drop"}
  /\ \A t \in P!Tokens, j \in Nat :
       Makes(u, j, t) \/ Gives(u, j, t) => t \in 1 .. n
  /\ \A t \in P!Tokens, j \in Nat : Makes(u, j, t) => \E k \in Nat : j < k /\ Gives(u, k, t)
  /\ \A t \in P!Tokens, j \in Nat : Gives(u, j, t) => \E k \in Nat : k < j /\ Makes(u, k, t)
  /\ Once(u)

LEMMA TokensAre == P!Tokens = 0 .. MaxCopies /\ P!Event \in P!Tokens
BY IngestAssumption DEF P!Tokens, P!Event, P!Copies

LEMMA StepsAre ==
  \A t \in P!Tokens : /\ P!Copy(t) \in P!Steps /\ P!Out(t) \in P!Steps /\ P!Drop(t) \in P!Steps
                      /\ P!StackError \in P!Steps /\ P!Accepted \in P!Steps /\ P!Failed \in P!Steps
BY TokensAre DEF P!Copy, P!Out, P!Drop, P!StackError, P!Accepted, P!Failed, P!Steps

\* The passes in which nothing is copied.
Short(p) ==
  {P!Pass, P!Fail, P!Gone}
    \cup (IF p \in {"rename", "ollama"} THEN {<<P!Out(P!Event), P!Failed>>} ELSE {})

LEMMA ShortPasses ==
  ASSUME NEW p, NEW s \in Short(p)
  PROVE  Fresh(s, p) /\ \A t \in P!Copies, j \in Nat : ~Makes(s, j, t) /\ ~Gives(s, j, t)
<1> DEFINE Fits(g) ==
      /\ s \in Seq(P!Steps) /\ EndsLast(s) /\ Marks(s, p, {})
      /\ \A t, j : Gives(s, j, t) <=> j = g /\ t = P!Event
      /\ \A t, j : ~Makes(s, j, t)
      /\ \A j : Errs(s, j) => j < g
<1>1. ASSUME NEW x \in {P!Out(P!Event), P!Drop(P!Event)}, s = <<x, P!Accepted>>
      PROVE  Fits(1)
  <2>1. s \in Seq(P!Steps) /\ Len(s) = 2
    BY <1>1, TokensAre, StepsAre
  <2>2. s[2].op = "accepted" /\ s[1].op \in {"out", "drop"} /\ s[1].of = P!Event
    BY <1>1 DEF P!Out, P!Drop, P!Accepted
  <2> QED
    BY <2>1, <2>2 DEF EndsLast, Marks, Gives, Makes, Errs
<1>2. ASSUME s = P!Fail
      PROVE  Fits(2)
  <2>1. s \in Seq(P!Steps) /\ Len(s) = 3
    BY <1>2, TokensAre, StepsAre DEF P!Fail
  <2>2. /\ s[1].op = "error"
        /\ s[2].op = "out" /\ s[2].of = P!Event /\ s[3].op = "failed"
    BY <1>2 DEF P!Fail, P!Out, P!StackError, P!Failed
  <2> QED
    BY <2>1, <2>2 DEF EndsLast, Marks, Gives, Makes, Errs
<1>3. ASSUME s = <<P!Out(P!Event), P!Failed>>, p \in {"rename", "ollama"}
      PROVE  Fits(1)
  <2>1. s \in Seq(P!Steps) /\ Len(s) = 2
    BY <1>3, TokensAre, StepsAre
  <2>2. s[2].op = "failed" /\ s[1].op = "out" /\ s[1].of = P!Event
    BY <1>3 DEF P!Out, P!Failed
  <2> QED
    BY <1>3, <2>1, <2>2 DEF EndsLast, Marks, Gives, Makes, Errs
<1>4. PICK g \in Nat : Fits(g)
  <2> HIDE DEF Fits
  <2> QED BY <1>1, <1>2, <1>3 DEF Short, P!Pass, P!Gone
<1>5. AllGiven(s, {P!Event}) /\ Once(s) /\ Owned(s, {P!Event})
  BY <1>4 DEF AllGiven, Once, Owned
<1>6. P!Event \notin P!Copies
  BY DEF P!Event, P!Copies
<1> QED BY <1>4, <1>5, <1>6 DEF Fresh, Sound

\* The http processor copies the event for the body, fails, and drops the copy last.
LEMMA BodyNotSerialized ==
  ASSUME NEW p, NEW s, s = <<P!Copy(1), P!StackError, P!Out(P!Event), P!Drop(1), P!Failed>>
  PROVE  Fresh(s, p)
<1>1. 1 \in P!Tokens /\ P!Event # 1
  BY TokensAre, IngestAssumption DEF P!Event
<1>2. s \in Seq(P!Steps) /\ Len(s) = 5
  BY <1>1, TokensAre, StepsAre
<1>3. /\ s[1].op = "copy" /\ s[1].of = 1 /\ s[2].op = "error"
      /\ s[3].op = "out" /\ s[3].of = P!Event /\ s[4].op = "drop" /\ s[4].of = 1
      /\ s[5].op = "failed"
  BY DEF P!Copy, P!Out, P!Drop, P!StackError, P!Failed
<1>4. \A j \in 1 .. Len(s) : j = 1 \/ j = 2 \/ j = 3 \/ j = 4 \/ j = 5
  BY <1>2
<1>5. \A t, j : Gives(s, j, t) <=> (j = 3 /\ t = P!Event) \/ (j = 4 /\ t = 1)
  BY <1>2, <1>3, <1>4 DEF Gives
<1>6. \A t, j : Makes(s, j, t) <=> j = 1 /\ t = 1
  BY <1>2, <1>3, <1>4 DEF Makes
<1>7. \A j : Errs(s, j) <=> j = 2
  BY <1>2, <1>3, <1>4 DEF Errs
<1>8. EndsLast(s) /\ Marks(s, p, {})
  BY <1>2, <1>3, <1>4, <1>7 DEF EndsLast, Marks
<1>9. AllGiven(s, {P!Event}) /\ Once(s) /\ Owned(s, {P!Event})
  BY <1>1, <1>5, <1>6, <1>7 DEF AllGiven, Once, Owned
<1> QED BY <1>2, <1>8, <1>9 DEF Fresh, Sound

\* A natural number is even or odd.
LEMMA Halves ==
  ASSUME NEW j \in Nat
  PROVE  \E i \in Nat : (j = 2 * i \/ j = 2 * i - 1) /\ (j > 0 => i > 0)
<1>1. CASE j % 2 = 0
  <2>1. j \div 2 \in Nat /\ j = 2 * (j \div 2)
    BY <1>1
  <2> QED BY <2>1
<1>2. CASE j % 2 # 0
  <2>1. (j + 1) \div 2 \in Nat /\ j = 2 * ((j + 1) \div 2) - 1
    BY <1>2
  <2> QED BY <2>1
<1> QED BY <1>1, <1>2

\* Each copy is given away as soon as it is made.
Pairs(u, n) ==
  /\ u \in Seq(P!Steps) /\ Len(u) = 2 * n
  /\ \A i \in 1 .. n : u[2 * i - 1] = P!Copy(i) /\ u[2 * i] \in {P!Out(i), P!Drop(i)}

LEMMA PairsAreSpent ==
  ASSUME NEW n \in 0 .. MaxCopies, NEW u, Pairs(u, n)
  PROVE  Spent(u, n)
<1>0. n \in Nat
  BY IngestAssumption
<1>1. \A j \in 1 .. Len(u) : \E i \in 1 .. n : j = 2 * i \/ j = 2 * i - 1
  <2> SUFFICES ASSUME NEW j \in 1 .. Len(u)
               PROVE  \E i \in 1 .. n : j = 2 * i \/ j = 2 * i - 1
    OBVIOUS
  <2>1. j \in Nat /\ j > 0 /\ j <= 2 * n
    BY <1>0 DEF Pairs
  <2>2. PICK i \in Nat : (j = 2 * i \/ j = 2 * i - 1) /\ i > 0
    BY <2>1, Halves
  <2>3. i \in 1 .. n
    BY <1>0, <2>1, <2>2
  <2> QED BY <2>2, <2>3
<1> DEFINE At(i) == /\ u[2 * i - 1].op = "copy" /\ u[2 * i - 1].of = i
                    /\ u[2 * i].op \in {"out", "drop"} /\ u[2 * i].of = i
                    /\ 2 * i - 1 \in 1 .. Len(u) /\ 2 * i \in 1 .. Len(u)
<1>2. ASSUME NEW i \in 1 .. n
      PROVE  At(i)
  <2>1. u[2 * i - 1] = P!Copy(i) /\ u[2 * i] \in {P!Out(i), P!Drop(i)} /\ Len(u) = 2 * n
    BY DEF Pairs
  <2>2. 2 * i - 1 \in 1 .. 2 * n /\ 2 * i \in 1 .. 2 * n
    BY <1>0
  <2> QED BY <2>1, <2>2 DEF P!Copy, P!Out, P!Drop
<1>3. ASSUME NEW t, NEW j
      PROVE  Makes(u, j, t) <=> t \in 1 .. n /\ j = 2 * t - 1
  <2>1. ASSUME Makes(u, j, t)
        PROVE  t \in 1 .. n /\ j = 2 * t - 1
    <3>1. PICK i \in 1 .. n : j = 2 * i \/ j = 2 * i - 1
      BY <1>1, <2>1 DEF Makes
    <3>2. At(i)
      BY <1>2
    <3> QED BY <2>1, <3>1, <3>2 DEF Makes
  <2>2. ASSUME t \in 1 .. n, j = 2 * t - 1
        PROVE  Makes(u, j, t)
    <3>1. At(t)
      BY <1>2, <2>2
    <3> QED BY <2>2, <3>1 DEF Makes
  <2> QED BY <2>1, <2>2
<1>4. ASSUME NEW t, NEW j
      PROVE  Gives(u, j, t) <=> t \in 1 .. n /\ j = 2 * t
  <2>1. ASSUME Gives(u, j, t)
        PROVE  t \in 1 .. n /\ j = 2 * t
    <3>1. PICK i \in 1 .. n : j = 2 * i \/ j = 2 * i - 1
      BY <1>1, <2>1 DEF Gives
    <3>2. At(i)
      BY <1>2
    <3> QED BY <2>1, <3>1, <3>2 DEF Gives
  <2>2. ASSUME t \in 1 .. n, j = 2 * t
        PROVE  Gives(u, j, t)
    <3>1. At(t)
      BY <1>2, <2>2
    <3> QED BY <2>2, <3>1 DEF Gives
  <2> QED BY <2>1, <2>2
<1>5. ASSUME NEW j \in 1 .. Len(u)
      PROVE  u[j].op \in {"copy", "out", "drop"}
  <2>1. PICK i \in 1 .. n : j = 2 * i \/ j = 2 * i - 1
    BY <1>1
  <2>2. At(i)
    BY <1>2
  <2> QED BY <2>1, <2>2
<1>6. \A t \in 1 .. n : 2 * t \in Nat /\ 2 * t - 1 \in Nat /\ 2 * t - 1 < 2 * t
  BY <1>0
<1>7. Once(u)
  BY <1>3, <1>4 DEF Once
<1> QED BY <1>3, <1>4, <1>5, <1>6, <1>7 DEF Spent, Pairs

LEMMA MadeSentIs ==
  ASSUME NEW n \in 0 .. MaxCopies
  PROVE  Pairs(P!MadeSent(n), n)
<1>0. n \in Nat /\ \A i \in 1 .. n : i \in P!Tokens
  BY IngestAssumption, TokensAre
<1>1. \A j \in 1 .. 2 * n : P!MadeSent(n)[j] \in P!Steps
  <2> SUFFICES ASSUME NEW j \in 1 .. 2 * n
               PROVE  P!MadeSent(n)[j] \in P!Steps
    OBVIOUS
  <2>1. CASE j % 2 = 1
    <3>1. (j + 1) \div 2 \in 1 .. n
      BY <1>0, <2>1
    <3> QED BY <1>0, <2>1, <3>1, StepsAre DEF P!MadeSent
  <2>2. CASE j % 2 # 1
    <3>1. j \div 2 \in 1 .. n
      BY <1>0, <2>2
    <3> QED BY <1>0, <2>2, <3>1, StepsAre DEF P!MadeSent
  <2> QED BY <2>1, <2>2
<1>2. P!MadeSent(n) \in [1 .. 2 * n -> P!Steps]
  BY <1>1 DEF P!MadeSent
<1>3. P!MadeSent(n) \in Seq(P!Steps) /\ Len(P!MadeSent(n)) = 2 * n
  <2>1. 2 * n \in Nat
    BY <1>0
  <2>2. P!MadeSent(n) \in Seq(P!Steps)
    BY <1>2, <2>1, SeqDef
  <2>3. DOMAIN P!MadeSent(n) = 1 .. 2 * n
    BY <1>2
  <2> QED BY <2>1, <2>2, <2>3, LenProperties
<1>4. ASSUME NEW i \in 1 .. n
      PROVE  P!MadeSent(n)[2 * i - 1] = P!Copy(i) /\ P!MadeSent(n)[2 * i] = P!Out(i)
  <2>1. /\ 2 * i - 1 \in 1 .. 2 * n /\ (2 * i - 1) % 2 = 1 /\ ((2 * i - 1) + 1) \div 2 = i
        /\ 2 * i \in 1 .. 2 * n /\ (2 * i) % 2 # 1 /\ (2 * i) \div 2 = i
    BY <1>0
  <2> QED BY <2>1 DEF P!MadeSent
<1> QED BY <1>3, <1>4 DEF Pairs

\* One more copy.
LEMMA PairAfter ==
  ASSUME NEW n \in Nat, n + 1 \in P!Tokens, NEW u, Pairs(u, n)
  PROVE  Pairs(u \o <<P!Copy(n + 1), P!Drop(n + 1)>>, n + 1)
<1> DEFINE v == <<P!Copy(n + 1), P!Drop(n + 1)>>
<1>1. v \in Seq(P!Steps) /\ Len(v) = 2 /\ v[1] = P!Copy(n + 1) /\ v[2] = P!Drop(n + 1)
  BY StepsAre
<1>2. u \in Seq(P!Steps) /\ Len(u) = 2 * n
  BY DEF Pairs
<1> HIDE DEF v
<1>3. /\ u \o v \in Seq(P!Steps) /\ Len(u \o v) = Len(u) + Len(v)
      /\ \A j \in 1 .. Len(u) + Len(v) :
           (u \o v)[j] = IF j <= Len(u) THEN u[j] ELSE v[j - Len(u)]
  BY <1>1, <1>2, ConcatProperties
<1>4. Len(u \o v) = 2 * (n + 1)
  BY <1>1, <1>2, <1>3
<1>5. ASSUME NEW i \in 1 .. n
      PROVE  (u \o v)[2 * i - 1] = u[2 * i - 1] /\ (u \o v)[2 * i] = u[2 * i]
  <2>1. /\ 2 * i - 1 \in 1 .. Len(u) + Len(v) /\ 2 * i - 1 <= Len(u)
        /\ 2 * i \in 1 .. Len(u) + Len(v) /\ 2 * i <= Len(u)
    BY <1>1, <1>2
  <2> QED BY <1>3, <2>1
<1>6. (u \o v)[2 * (n + 1) - 1] = v[1] /\ (u \o v)[2 * (n + 1)] = v[2]
  <2>1. /\ 2 * (n + 1) - 1 \in 1 .. Len(u) + Len(v) /\ ~(2 * (n + 1) - 1 <= Len(u))
        /\ 2 * (n + 1) - 1 - Len(u) = 1
    BY <1>1, <1>2
  <2>2. /\ 2 * (n + 1) \in 1 .. Len(u) + Len(v) /\ ~(2 * (n + 1) <= Len(u))
        /\ 2 * (n + 1) - Len(u) = 2
    BY <1>1, <1>2
  <2>3. (u \o v)[2 * (n + 1) - 1] = v[2 * (n + 1) - 1 - Len(u)]
    BY <1>3, <2>1
  <2>4. (u \o v)[2 * (n + 1)] = v[2 * (n + 1) - Len(u)]
    BY <1>3, <2>2
  <2> QED BY <2>1, <2>2, <2>3, <2>4
<1>7. ASSUME NEW i \in 1 .. n + 1
      PROVE  /\ (u \o v)[2 * i - 1] = P!Copy(i)
             /\ (u \o v)[2 * i] \in {P!Out(i), P!Drop(i)}
  <2>1. CASE i \in 1 .. n
    <3>1. u[2 * i - 1] = P!Copy(i) /\ u[2 * i] \in {P!Out(i), P!Drop(i)}
      BY <2>1 DEF Pairs
    <3> QED BY <1>5, <2>1, <3>1
  <2>2. CASE i = n + 1
    BY <1>1, <1>6, <2>2
  <2>3. i \in 1 .. n \/ i = n + 1
    OBVIOUS
  <2> QED BY <2>1, <2>2, <2>3
<1>8. Pairs(u \o v, n + 1)
  BY <1>3, <1>4, <1>7 DEF Pairs
<1> QED BY <1>8 DEF v

\* The pass goes on behind copies that were made and given away.
LEMMA BehindSpent ==
  ASSUME NEW p, NEW n \in 0 .. MaxCopies, NEW u, Spent(u, n),
         NEW s, Fresh(s, p),
         \A t \in P!Copies, j \in Nat : ~Makes(s, j, t) /\ ~Gives(s, j, t)
  PROVE  Fresh(u \o s, p)
<1> DEFINE v == u \o s
<1> DEFINE m == Len(u)
<1>1. u \in Seq(P!Steps) /\ s \in Seq(P!Steps) /\ m \in Nat /\ Len(s) \in Nat
  BY LenProperties DEF Spent, Fresh, Sound
<1>2. /\ v \in Seq(P!Steps) /\ Len(v) = m + Len(s)
      /\ \A j \in 1 .. m + Len(s) : v[j] = IF j <= m THEN u[j] ELSE s[j - m]
  BY <1>1, ConcatProperties
<1> HIDE DEF v, m
<1>3. \A j \in 1 .. m : j \in 1 .. Len(v) /\ v[j] = u[j]
  BY <1>1, <1>2
<1>4. ASSUME NEW j \in 1 .. Len(s), NEW k \in Nat, k = m + j
      PROVE  k \in 1 .. Len(v) /\ v[k] = s[j] /\ k \notin 1 .. m
  <2>1. k \in 1 .. m + Len(s) /\ ~(k <= m) /\ k - m = j
    BY <1>1, <1>4
  <2> QED BY <1>2, <2>1
<1>5. ASSUME NEW j \in 1 .. Len(v)
      PROVE  j \in 1 .. m \/ \E i \in 1 .. Len(s) : j = m + i
  <2>1. j > m => j - m \in 1 .. Len(s) /\ j = m + (j - m)
    BY <1>1, <1>2
  <2> QED BY <1>1, <1>2, <2>1
<1> DEFINE Is(j, t) ==
      /\ Makes(v, j, t) <=> Makes(u, j, t) \/ \E i \in Nat : j = m + i /\ Makes(s, i, t)
      /\ Gives(v, j, t) <=> Gives(u, j, t) \/ \E i \in Nat : j = m + i /\ Gives(s, i, t)
      /\ Errs(v, j) <=> \E i \in Nat : j = m + i /\ Errs(s, i)
<1>6. ASSUME NEW j, NEW t
      PROVE  Is(j, t)
  <2>1. CASE j \in 1 .. m
    <3>1. \A i \in 1 .. Len(s) : j # m + i
      BY <1>1, <2>1
    <3>2. v[j] = u[j] /\ j \in 1 .. Len(v) /\ u[j].op # "error"
      BY <1>3, <2>1 DEF Spent, m
    <3> QED BY <2>1, <3>1, <3>2 DEF Makes, Gives, Errs, m
  <2>2. ASSUME NEW i \in 1 .. Len(s), j = m + i
        PROVE  Is(j, t)
    <3>1. j \in Nat /\ i \in Nat /\ \A l \in Nat : j = m + l => l = i
      BY <1>1, <2>2
    <3>2. j \in 1 .. Len(v) /\ v[j] = s[i] /\ j \notin 1 .. m
      BY <1>4, <2>2, <3>1
    <3> QED BY <2>2, <3>1, <3>2 DEF Makes, Gives, Errs, m
  <2>3. CASE j \notin 1 .. Len(v)
    <3>1. j \notin 1 .. m
      BY <1>3, <2>3
    <3>2. \A i \in 1 .. Len(s) : j # m + i
      BY <1>1, <1>2, <2>3
    <3> QED BY <2>3, <3>1, <3>2 DEF Makes, Gives, Errs, m
  <2> QED BY <1>5, <2>1, <2>2, <2>3
<1>7. \A j, t : Gives(v, j, t) <=> Gives(u, j, t) \/ \E i \in Nat : j = m + i /\ Gives(s, i, t)
  BY <1>6
<1>8. \A j : Errs(v, j) <=> \E i \in Nat : j = m + i /\ Errs(s, i)
  BY <1>6
<1>9. \A j, t : Makes(u, j, t) \/ Gives(u, j, t) => j \in Nat /\ j <= m
  BY <1>1 DEF Makes, Gives, m
<1>10. 1 .. n \subseteq P!Copies /\ P!Event \notin 1 .. n
  BY IngestAssumption DEF P!Copies, P!Event
<1>11. \A t \in 1 .. n : \A j \in Nat : ~Makes(s, j, t) /\ ~Gives(s, j, t)
  BY <1>10
<1>12. EndsLast(v)
  <2>1. Len(s) > 0 /\ \A j \in 1 .. Len(s) : s[j].op \in {"accepted", "failed"} <=> j = Len(s)
    BY DEF Fresh, Sound, EndsLast
  <2>2. \A j \in 1 .. m : u[j].op \notin {"accepted", "failed"}
    BY DEF Spent, m
  <2>3. ASSUME NEW j \in 1 .. Len(v)
        PROVE  v[j].op \in {"accepted", "failed"} <=> j = Len(v)
    <3>1. CASE j \in 1 .. m
      BY <1>1, <1>2, <1>3, <2>1, <2>2, <3>1
    <3>2. ASSUME NEW i \in 1 .. Len(s), j = m + i
          PROVE  v[j].op \in {"accepted", "failed"} <=> j = Len(v)
      <4>a. \A a, b, c \in Nat : a + b = a + c <=> b = c
        OBVIOUS
      <4>b. m \in Nat /\ Len(s) \in Nat /\ i \in Nat /\ j \in Nat
        BY <1>1, <1>2, <3>2
      <4>c. j = m + i /\ Len(v) = m + Len(s)
        BY <1>2, <3>2
      <4>1. j \in Nat /\ (j = Len(v) <=> i = Len(s))
        BY <4>a, <4>b, <4>c
      <4>2. v[j] = s[i]
        BY <1>4, <3>2, <4>1
      <4> QED BY <2>1, <4>1, <4>2
    <3> QED BY <1>5, <3>1, <3>2
  <2> QED BY <1>1, <1>2, <2>1, <2>3 DEF EndsLast
<1>13. Marks(v, p, {})
  <2>1. Len(s) \in 1 .. Len(s) /\ v[Len(v)] = s[Len(s)]
    <3>1. Len(s) \in 1 .. Len(s) /\ Len(v) = m + Len(s)
      BY <1>1, <1>2 DEF Fresh, Sound, EndsLast
    <3>2. Len(v) \in Nat
      BY <1>1, <3>1
    <3> QED BY <1>4, <3>1, <3>2
  <2>2. Marks(s, p, {})
    BY DEF Fresh
  <2>3. ASSUME s[Len(s)].op = "failed", p \notin {"rename", "ollama"}
        PROVE  \E j \in Nat : Errs(v, j)
    <3>1. PICK i \in Nat : Errs(s, i)
      BY <2>2, <2>3 DEF Marks
    <3>2. m + i \in Nat
      BY <1>1
    <3> QED BY <1>8, <3>1, <3>2
  <2>4. ASSUME s[Len(s)].op = "accepted"
        PROVE  \A j \in Nat : ~Errs(v, j)
    BY <1>8, <2>2, <2>4 DEF Marks
  <2> QED BY <2>1, <2>3, <2>4 DEF Marks
<1>14. AllGiven(s, {P!Event}) /\ Once(s) /\ Owned(s, {P!Event})
  BY DEF Fresh, Sound
<1> HIDE DEF Makes, Gives, Errs
<1>15. AllGiven(v, {P!Event})
  <2>1. \E j \in Nat : Gives(v, j, P!Event)
    BY <1>1, <1>7, <1>14 DEF AllGiven
  <2>2. ASSUME NEW t \in P!Tokens, NEW j \in Nat, Makes(v, j, t)
        PROVE  t \notin {P!Event} /\ \E k \in Nat : j < k /\ Gives(v, k, t)
    <3>1. CASE Makes(u, j, t)
      BY <1>7, <1>10, <3>1 DEF Spent
    <3>2. ASSUME NEW i \in Nat, j = m + i, Makes(s, i, t)
          PROVE  t \notin {P!Event} /\ \E k \in Nat : j < k /\ Gives(v, k, t)
      <4>1. PICK k \in Nat : i < k /\ Gives(s, k, t) /\ t \notin {P!Event}
        BY <1>14, <3>2 DEF AllGiven
      <4>2. m + k \in Nat /\ j < m + k /\ Gives(v, m + k, t)
        BY <1>1, <1>7, <3>2, <4>1
      <4> QED BY <4>1, <4>2
    <3> QED BY <1>6, <2>2, <3>1, <3>2
  <2>3. ASSUME NEW t \in P!Tokens, NEW j \in Nat, Gives(v, j, t)
        PROVE  t \in {P!Event} \/ \E k \in Nat : k < j /\ Makes(v, k, t)
    <3>1. CASE Gives(u, j, t)
      BY <1>6, <3>1 DEF Spent
    <3>2. ASSUME NEW i \in Nat, j = m + i, Gives(s, i, t), t \notin {P!Event}
          PROVE  \E k \in Nat : k < j /\ Makes(v, k, t)
      <4>1. PICK k \in Nat : k < i /\ Makes(s, k, t)
        BY <1>14, <3>2 DEF AllGiven
      <4>2. m + k \in Nat /\ m + k < j /\ Makes(v, m + k, t)
        BY <1>1, <1>6, <3>2, <4>1
      <4> QED BY <4>2
    <3> QED BY <1>7, <2>3, <3>1, <3>2
  <2> QED BY <2>1, <2>2, <2>3 DEF AllGiven
<1>16. Once(v)
  <2> SUFFICES ASSUME NEW t \in P!Tokens, NEW j \in Nat, NEW k \in Nat,
                      \/ Gives(v, j, t) /\ Gives(v, k, t)
                      \/ Makes(v, j, t) /\ Makes(v, k, t)
               PROVE  j = k
    BY DEF Once
  <2>1. CASE t \in 1 .. n
    BY <1>6, <1>7, <1>11, <2>1 DEF Spent, Once
  <2>2. CASE t \notin 1 .. n
    <3>1. ~Makes(u, j, t) /\ ~Makes(u, k, t) /\ ~Gives(u, j, t) /\ ~Gives(u, k, t)
      BY <2>2 DEF Spent
    <3>2. PICK i \in Nat, l \in Nat : /\ j = m + i /\ k = m + l
                                     /\ \/ Gives(s, i, t) /\ Gives(s, l, t)
                                        \/ Makes(s, i, t) /\ Makes(s, l, t)
      BY <1>6, <1>7, <3>1
    <3>3. i = l
      BY <1>14, <3>2 DEF Once
    <3> QED BY <3>2, <3>3
  <2> QED BY <2>1, <2>2
<1>17. Owned(v, {P!Event})
  <2> SUFFICES ASSUME NEW t \in P!Tokens, NEW j \in Nat, Makes(v, j, t) \/ Errs(v, j),
                      NEW k \in Nat, k < j, Gives(v, k, P!Event)
               PROVE  FALSE
    BY DEF Owned
  <2>1. ~Gives(u, k, P!Event)
    BY <1>10, TokensAre DEF Spent
  <2>2. PICK l \in Nat : k = m + l /\ Gives(s, l, P!Event)
    BY <1>7, <2>1
  <2>3. ~Makes(u, j, t)
    <3>1. l > 0
      BY <2>2 DEF Gives
    <3> QED BY <1>1, <1>9, <2>2, <3>1
  <2>4. PICK i \in Nat : j = m + i /\ (Makes(s, i, t) \/ Errs(s, i))
    BY <1>6, <1>8, <2>3
  <2>5. l < i
    BY <1>1, <2>2, <2>4
  <2> QED BY <1>14, <2>2, <2>4, <2>5 DEF Owned
<1>18. Fresh(v, p)
  BY <1>2, <1>12, <1>13, <1>15, <1>16, <1>17 DEF Fresh, Sound
<1> QED BY <1>18 DEF v

\* What a script hands on, in the order of its list: x (the event, sent or dropped) comes
\* behind the copies 1 to k and before the others.
Listed(l, n, k, x) ==
  /\ l \in Seq(P!Steps) /\ Len(l) = n + 1
  /\ \A i \in 1 .. k : l[i] = P!Out(i)
  /\ l[k + 1] = x
  /\ \A i \in k + 1 .. n : l[i + 1] = P!Out(i)

LEMMA SentIs ==
  ASSUME NEW n \in 0 .. MaxCopies
  PROVE  /\ P!Sent(n) \in Seq(P!Steps) /\ Len(P!Sent(n)) = n /\ n \in Nat
         /\ \A i \in 1 .. n : P!Sent(n)[i] = P!Out(i)
         /\ P!Made(n) \in Seq(P!Steps) /\ Len(P!Made(n)) = n
         /\ \A i \in 1 .. n : P!Made(n)[i] = P!Copy(i)
<1>1. n \in Nat /\ \A i \in 1 .. n : i \in P!Tokens
  BY IngestAssumption, TokensAre
<1>2. P!Sent(n) \in [1 .. n -> P!Steps] /\ \A i \in 1 .. n : P!Sent(n)[i] = P!Out(i)
  BY <1>1, StepsAre DEF P!Sent
<1>3. P!Made(n) \in [1 .. n -> P!Steps] /\ \A i \in 1 .. n : P!Made(n)[i] = P!Copy(i)
  BY <1>1, StepsAre DEF P!Made
<1>4. P!Sent(n) \in Seq(P!Steps) /\ P!Made(n) \in Seq(P!Steps)
  BY <1>1, <1>2, <1>3, SeqDef
<1>5. DOMAIN P!Sent(n) = 1 .. n /\ DOMAIN P!Made(n) = 1 .. n
  BY <1>2, <1>3
<1>6. Len(P!Sent(n)) = n /\ Len(P!Made(n)) = n
  BY <1>1, <1>4, <1>5, LenProperties
<1> QED BY <1>1, <1>2, <1>3, <1>4, <1>6

\* The event first, dropped, and then the list.
LEMMA DroppedList ==
  ASSUME NEW n \in 0 .. MaxCopies
  PROVE  Listed(<<P!Drop(P!Event)>> \o P!Sent(n), n, 0, P!Drop(P!Event))
<1> DEFINE d == <<P!Drop(P!Event)>>
<1> DEFINE l == d \o P!Sent(n)
<1>1. d \in Seq(P!Steps) /\ Len(d) = 1 /\ d[1] = P!Drop(P!Event)
  BY TokensAre, StepsAre
<1>2. /\ P!Sent(n) \in Seq(P!Steps) /\ Len(P!Sent(n)) = n /\ n \in Nat
      /\ \A i \in 1 .. n : P!Sent(n)[i] = P!Out(i)
  BY SentIs
<1> HIDE DEF d
<1>3. /\ l \in Seq(P!Steps) /\ Len(l) = Len(d) + Len(P!Sent(n))
      /\ \A j \in 1 .. Len(d) + Len(P!Sent(n)) :
           l[j] = IF j <= Len(d) THEN d[j] ELSE P!Sent(n)[j - Len(d)]
  BY <1>1, <1>2, ConcatProperties
<1> HIDE DEF l
<1>4. l[0 + 1] = P!Drop(P!Event)
  BY <1>1, <1>2, <1>3
<1>5. ASSUME NEW i \in 0 + 1 .. n
      PROVE  l[i + 1] = P!Out(i)
  <2>1. /\ i + 1 \in 1 .. Len(d) + Len(P!Sent(n)) /\ ~(i + 1 <= Len(d))
        /\ i + 1 - Len(d) = i /\ i \in 1 .. n
    BY <1>1, <1>2
  <2>2. l[i + 1] = P!Sent(n)[i + 1 - Len(d)]
    BY <1>3, <2>1
  <2> QED BY <1>2, <2>1, <2>2
<1>6. Listed(l, n, 0, P!Drop(P!Event))
  BY <1>1, <1>2, <1>3, <1>4, <1>5 DEF Listed
<1> QED BY <1>6 DEF l, d

\* The event among its copies.
LEMMA ReturnedList ==
  ASSUME NEW n \in 0 .. MaxCopies, NEW k \in 0 .. n
  PROVE  Listed(P!Sent(k) \o <<P!Out(P!Event)>> \o SubSeq(P!Sent(n), k + 1, n),
                n, k, P!Out(P!Event))
<1> DEFINE e == <<P!Out(P!Event)>>
<1> DEFINE a == P!Sent(k) \o e
<1> DEFINE b == SubSeq(P!Sent(n), k + 1, n)
<1> DEFINE l == a \o b
<1>1. e \in Seq(P!Steps) /\ Len(e) = 1 /\ e[1] = P!Out(P!Event)
  BY TokensAre, StepsAre
<1>2. /\ P!Sent(n) \in Seq(P!Steps) /\ Len(P!Sent(n)) = n /\ n \in Nat
      /\ \A i \in 1 .. n : P!Sent(n)[i] = P!Out(i)
  BY SentIs
<1>3. k \in 0 .. MaxCopies
  BY IngestAssumption
<1>4. /\ P!Sent(k) \in Seq(P!Steps) /\ Len(P!Sent(k)) = k /\ k \in Nat
      /\ \A i \in 1 .. k : P!Sent(k)[i] = P!Out(i)
  BY <1>3, SentIs
<1> HIDE DEF e
<1>5. /\ a \in Seq(P!Steps) /\ Len(a) = k + 1
      /\ \A j \in 1 .. k + 1 : a[j] = IF j <= k THEN P!Sent(k)[j] ELSE e[j - k]
  <2>1. /\ a \in Seq(P!Steps) /\ Len(a) = Len(P!Sent(k)) + Len(e)
        /\ \A j \in 1 .. Len(P!Sent(k)) + Len(e) :
             a[j] = IF j <= Len(P!Sent(k)) THEN P!Sent(k)[j] ELSE e[j - Len(P!Sent(k))]
    BY <1>1, <1>4, ConcatProperties
  <2>2. Len(P!Sent(k)) = k /\ Len(e) = 1
    BY <1>1, <1>4
  <2> QED BY <2>1, <2>2
<1>6. /\ b \in Seq(P!Steps) /\ Len(b) = n - k
      /\ \A j \in 1 .. n - k : b[j] = P!Out(k + j)
  <2>1. \A i \in k + 1 .. n : P!Sent(n)[i] \in P!Steps
    BY <1>2, <1>4, ElementOfSeq
  <2>2. k + 1 \in Int /\ n \in Int
    BY <1>2, <1>4
  <2>3. /\ b \in Seq(P!Steps)
        /\ Len(b) = IF k + 1 <= n THEN n - (k + 1) + 1 ELSE 0
        /\ \A j \in 1 .. n - (k + 1) + 1 : b[j] = P!Sent(n)[k + 1 + j - 1]
    BY <2>1, <2>2, SubSeqProperties
  <2>4. Len(b) = n - k
    BY <1>2, <1>4, <2>3
  <2>5. ASSUME NEW j \in 1 .. n - k
        PROVE  b[j] = P!Out(k + j)
    <3>1. j \in 1 .. n - (k + 1) + 1 /\ k + 1 + j - 1 = k + j /\ k + j \in 1 .. n
      BY <1>2, <1>4
    <3>2. b[j] = P!Sent(n)[k + 1 + j - 1]
      BY <2>3, <3>1
    <3>3. P!Sent(n)[k + j] = P!Out(k + j)
      BY <1>2, <3>1
    <3> QED BY <3>1, <3>2, <3>3
  <2> QED BY <2>3, <2>4, <2>5
<1> HIDE DEF a, b
<1>7. /\ l \in Seq(P!Steps) /\ Len(l) = Len(a) + Len(b)
      /\ \A j \in 1 .. Len(a) + Len(b) : l[j] = IF j <= Len(a) THEN a[j] ELSE b[j - Len(a)]
  BY <1>5, <1>6, ConcatProperties
<1> HIDE DEF l
<1>8. Len(l) = n + 1
  BY <1>2, <1>4, <1>5, <1>6, <1>7
<1>9. ASSUME NEW i \in 1 .. k
      PROVE  l[i] = P!Out(i)
  <2>1. i \in 1 .. Len(a) + Len(b) /\ i <= Len(a) /\ i \in 1 .. k + 1 /\ i <= k
    BY <1>2, <1>4, <1>5, <1>6
  <2>2. l[i] = a[i] /\ a[i] = P!Sent(k)[i]
    BY <1>5, <1>7, <2>1
  <2> QED BY <1>4, <2>2
<1>10. l[k + 1] = P!Out(P!Event)
  <2>1. /\ k + 1 \in 1 .. Len(a) + Len(b) /\ k + 1 <= Len(a) /\ k + 1 \in 1 .. k + 1
        /\ ~(k + 1 <= k) /\ k + 1 - k = 1
    BY <1>2, <1>4, <1>5, <1>6
  <2>2. l[k + 1] = a[k + 1] /\ a[k + 1] = e[k + 1 - k]
    BY <1>5, <1>7, <2>1
  <2> QED BY <1>1, <2>1, <2>2
<1>11. ASSUME NEW i \in k + 1 .. n
       PROVE  l[i + 1] = P!Out(i)
  <2>1. /\ i + 1 \in 1 .. Len(a) + Len(b) /\ ~(i + 1 <= Len(a)) /\ i + 1 - Len(a) = i - k
        /\ i - k \in 1 .. n - k /\ k + (i - k) = i
    BY <1>2, <1>4, <1>5, <1>6
  <2>2. l[i + 1] = b[i + 1 - Len(a)]
    BY <1>7, <2>1
  <2>3. b[i - k] = P!Out(k + (i - k))
    BY <1>6, <2>1
  <2> QED BY <2>1, <2>2, <2>3
<1>12. Listed(l, n, k, P!Out(P!Event))
  BY <1>7, <1>8, <1>9, <1>10, <1>11 DEF Listed
<1> QED BY <1>12 DEF l, a, b, e

\* A script that makes n copies, and hands on the event and all of them.
LEMMA ScriptPass ==
  ASSUME NEW p, NEW n \in 0 .. MaxCopies, NEW k \in 0 .. n,
         NEW x \in {P!Out(P!Event), P!Drop(P!Event)}, NEW l, Listed(l, n, k, x)
  PROVE  Fresh(P!Made(n) \o (l \o <<P!Accepted>>), p)
<1> DEFINE z == <<P!Accepted>>
<1> DEFINE r == l \o z
<1> DEFINE s == P!Made(n) \o r
<1>1. /\ P!Made(n) \in Seq(P!Steps) /\ Len(P!Made(n)) = n /\ n \in Nat /\ k \in Nat /\ k <= n
      /\ \A i \in 1 .. n : P!Made(n)[i] = P!Copy(i)
  BY SentIs
<1>2. z \in Seq(P!Steps) /\ Len(z) = 1 /\ z[1] = P!Accepted
  BY TokensAre, StepsAre
<1>3. l \in Seq(P!Steps) /\ Len(l) = n + 1
  BY DEF Listed
<1> HIDE DEF z
<1>4. /\ r \in Seq(P!Steps) /\ Len(r) = n + 2
      /\ \A j \in 1 .. n + 2 : r[j] = IF j <= n + 1 THEN l[j] ELSE z[j - (n + 1)]
  <2>1. /\ r \in Seq(P!Steps) /\ Len(r) = Len(l) + Len(z)
        /\ \A j \in 1 .. Len(l) + Len(z) :
             r[j] = IF j <= Len(l) THEN l[j] ELSE z[j - Len(l)]
    BY <1>2, <1>3, ConcatProperties
  <2>2. Len(l) = n + 1 /\ Len(l) + Len(z) = n + 2
    BY <1>1, <1>2, <1>3
  <2> QED BY <2>1, <2>2
<1> HIDE DEF r
<1>5. /\ s \in Seq(P!Steps) /\ Len(s) = 2 * n + 2
      /\ \A j \in 1 .. 2 * n + 2 : s[j] = IF j <= n THEN P!Made(n)[j] ELSE r[j - n]
  <2>1. /\ s \in Seq(P!Steps) /\ Len(s) = Len(P!Made(n)) + Len(r)
        /\ \A j \in 1 .. Len(P!Made(n)) + Len(r) :
             s[j] = IF j <= Len(P!Made(n)) THEN P!Made(n)[j] ELSE r[j - Len(P!Made(n))]
    BY <1>1, <1>4, ConcatProperties
  <2>2. Len(P!Made(n)) = n /\ Len(P!Made(n)) + Len(r) = 2 * n + 2
    BY <1>1, <1>4
  <2> QED BY <2>1, <2>2
<1> HIDE DEF s
<1>6. ASSUME NEW j \in 1 .. n
      PROVE  s[j] = P!Copy(j)
  <2>1. j \in 1 .. 2 * n + 2 /\ j <= n
    BY <1>1
  <2> QED BY <1>1, <1>5, <2>1
<1>7. ASSUME NEW i \in 1 .. n + 1, NEW j \in Nat, j = n + i
      PROVE  s[j] = l[i]
  <2>1. j \in 1 .. 2 * n + 2 /\ ~(j <= n) /\ j - n = i /\ i \in 1 .. n + 2 /\ i <= n + 1
    BY <1>1, <1>7
  <2>2. s[j] = r[i]
    BY <1>5, <2>1
  <2> QED BY <1>4, <2>1, <2>2
<1>8. ASSUME NEW j \in Nat, j = 2 * n + 2
      PROVE  s[j] = P!Accepted
  <2>1. j \in 1 .. 2 * n + 2 /\ ~(j <= n) /\ j - n = n + 2
    BY <1>1, <1>8
  <2>2. n + 2 \in 1 .. n + 2 /\ ~(n + 2 <= n + 1) /\ (n + 2) - (n + 1) = 1
    BY <1>1
  <2>3. s[j] = r[n + 2] /\ r[n + 2] = z[(n + 2) - (n + 1)]
    BY <1>4, <1>5, <2>1, <2>2
  <2> QED BY <1>2, <2>2, <2>3
\* Where each token is made and given away.
<1> DEFINE Copied(j, t) == t \in 1 .. n /\ j = t
<1> DEFINE Given(j, t) == \/ t = P!Event /\ j = n + k + 1
                          \/ t \in 1 .. k /\ j = n + t
                          \/ t \in k + 1 .. n /\ j = n + t + 1
<1>9. ASSUME NEW j \in 1 .. Len(s)
      PROVE  \/ \E t \in 1 .. n : s[j] = P!Copy(t) /\ Copied(j, t)
             \/ \E t \in P!Tokens : s[j] \in {P!Out(t), P!Drop(t)} /\ Given(j, t)
             \/ j = 2 * n + 2 /\ s[j] = P!Accepted
  <2>1. j \in Nat /\ j > 0 /\ j <= 2 * n + 2
    BY <1>1, <1>5
  <2>2. CASE j <= n
    BY <1>6, <2>1, <2>2
  <2>3. CASE j > n /\ j <= n + k
    <3> DEFINE t == j - n
    <3>1. t \in 1 .. k /\ t \in 1 .. n + 1 /\ j = n + t /\ t \in P!Tokens
      BY <1>1, <2>1, <2>3, TokensAre, IngestAssumption
    <3>2. s[j] = l[t] /\ l[t] = P!Out(t)
      BY <1>7, <2>1, <3>1 DEF Listed
    <3> QED BY <3>1, <3>2
  <2>4. CASE j = n + k + 1
    <3>1. k + 1 \in 1 .. n + 1 /\ j = n + (k + 1)
      BY <1>1, <2>4
    <3>2. s[j] = l[k + 1] /\ l[k + 1] = x
      BY <1>7, <2>1, <3>1 DEF Listed
    <3> QED BY <2>4, <3>2, TokensAre
  <2>5. CASE j > n + k + 1 /\ j <= 2 * n + 1
    <3> DEFINE t == j - n - 1
    <3>1. /\ t \in k + 1 .. n /\ t + 1 \in 1 .. n + 1 /\ j = n + (t + 1) /\ j = n + t + 1
          /\ t \in P!Tokens
      BY <1>1, <2>1, <2>5, TokensAre, IngestAssumption
    <3>2. s[j] = l[t + 1] /\ l[t + 1] = P!Out(t)
      BY <1>7, <2>1, <3>1 DEF Listed
    <3> QED BY <3>1, <3>2
  <2>6. CASE j = 2 * n + 2
    BY <1>8, <2>1, <2>6
  <2> QED BY <1>1, <2>1, <2>2, <2>3, <2>4, <2>5, <2>6
<1>10. 0 \notin 1 .. n /\ P!Event = 0 /\ n \in Nat /\ k \in Nat /\ k <= n
  BY <1>1 DEF P!Event
<1>11. \A j, t : Given(j, t) => j \in Nat /\ n < j /\ j < 2 * n + 2 /\ j \in 1 .. Len(s)
  BY <1>5, <1>10
<1>12. \A j, t, d : Given(j, t) /\ Given(j, d) => t = d
  BY <1>10
<1>13. \A i, j, t : Given(i, t) /\ Given(j, t) => i = j
  BY <1>10
<1>14. \A j, t : Copied(j, t) => j \in Nat /\ j <= n /\ j \in 1 .. Len(s) /\ t # P!Event
  BY <1>5, <1>10
<1>15. \A t \in 1 .. n : \E j \in Nat : Given(j, t)
  <2> SUFFICES ASSUME NEW t \in 1 .. n
               PROVE  \E j \in Nat : Given(j, t)
    OBVIOUS
  <2>1. n + t \in Nat /\ n + t + 1 \in Nat /\ (t \in 1 .. k \/ t \in k + 1 .. n)
    BY <1>10
  <2>2. Given(n + t, t) \/ Given(n + t + 1, t)
    BY <2>1
  <2> QED BY <2>1, <2>2
<1>16. \E j \in Nat : Given(j, P!Event)
  <2>1. n + k + 1 \in Nat
    BY <1>10
  <2> QED BY <2>1
<1>17. \A t, j : Given(j, t) => t = P!Event \/ t \in 1 .. n
  BY <1>10
<1> HIDE DEF Given, Copied
<1> DEFINE Tells(j) ==
      \/ s[j].op = "copy" /\ Copied(j, s[j].of)
      \/ s[j].op \in {"out", "drop"} /\ Given(j, s[j].of)
      \/ s[j].op = "accepted" /\ j = 2 * n + 2
<1>18. ASSUME NEW j \in 1 .. Len(s)
       PROVE  Tells(j)
  <2>1. ASSUME NEW t \in 1 .. n, s[j] = P!Copy(t), Copied(j, t)
        PROVE  Tells(j)
    <3>1. s[j].op = "copy" /\ s[j].of = t
      BY <2>1 DEF P!Copy
    <3> QED BY <2>1, <3>1
  <2>2. ASSUME NEW t \in P!Tokens, s[j] \in {P!Out(t), P!Drop(t)}, Given(j, t)
        PROVE  Tells(j)
    <3>1. s[j].op \in {"out", "drop"} /\ s[j].of = t
      BY <2>2 DEF P!Out, P!Drop
    <3> QED BY <2>2, <3>1
  <2>3. ASSUME j = 2 * n + 2, s[j] = P!Accepted
        PROVE  Tells(j)
    BY <2>3 DEF P!Accepted
  <2> QED BY <1>9, <2>1, <2>2, <2>3
<1>19. ASSUME NEW j, NEW t
       PROVE  Makes(s, j, t) <=> Copied(j, t)
  <2>1. ASSUME Makes(s, j, t)
        PROVE  Copied(j, t)
    BY <1>18, <2>1 DEF Makes
  <2>2. ASSUME Copied(j, t)
        PROVE  Makes(s, j, t)
    <3>1. j \in 1 .. n /\ j = t
      BY <2>2 DEF Copied
    <3>2. s[j].op = "copy" /\ s[j].of = t
      <4>1. s[j] = P!Copy(j)
        BY <1>6, <3>1
      <4> QED BY <3>1, <4>1 DEF P!Copy
    <3> QED BY <1>14, <2>2, <3>2 DEF Makes
  <2> QED BY <2>1, <2>2
<1>20. ASSUME NEW j, NEW t
       PROVE  Gives(s, j, t) <=> Given(j, t)
  <2>1. ASSUME Gives(s, j, t)
        PROVE  Given(j, t)
    BY <1>18, <2>1 DEF Gives
  <2>2. ASSUME Given(j, t)
        PROVE  Gives(s, j, t)
    <3>1. j \in 1 .. Len(s) /\ ~(j <= n) /\ j # 2 * n + 2
      BY <1>10, <1>11, <2>2
    <3>2. PICK d \in P!Tokens : s[j] \in {P!Out(d), P!Drop(d)} /\ Given(j, d)
      BY <1>9, <1>14, <3>1
    <3>3. d = t
      BY <1>12, <2>2, <3>2
    <3> QED BY <3>1, <3>2, <3>3 DEF Gives, P!Out, P!Drop
  <2> QED BY <2>1, <2>2
<1>21. \A j : ~Errs(s, j)
  BY <1>18 DEF Errs
<1>22. EndsLast(s) /\ Marks(s, p, {})
  <2>1. Len(s) = 2 * n + 2 /\ Len(s) \in 1 .. Len(s) /\ Len(s) > 0 /\ Len(s) \in Nat
    BY <1>5, <1>10
  <2>2. s[Len(s)].op = "accepted"
    BY <1>8, <2>1 DEF P!Accepted
  <2>3. ASSUME NEW j \in 1 .. Len(s)
        PROVE  s[j].op \in {"accepted", "failed"} <=> j = Len(s)
    <3>1. CASE j = 2 * n + 2
      BY <2>1, <2>2, <3>1
    <3>2. CASE j # 2 * n + 2
      BY <1>18, <2>1, <3>2
    <3> QED BY <3>1, <3>2
  <2> QED BY <1>21, <2>1, <2>2, <2>3 DEF EndsLast, Marks
<1>23. AllGiven(s, {P!Event})
  <2>1. \E j \in Nat : Gives(s, j, P!Event)
    BY <1>16, <1>20
  <2>2. ASSUME NEW t, NEW j \in Nat, Makes(s, j, t)
        PROVE  t \notin {P!Event} /\ \E i \in Nat : j < i /\ Gives(s, i, t)
    <3>1. t \in 1 .. n /\ j <= n /\ t # P!Event
      BY <1>14, <1>19, <2>2 DEF Copied
    <3>2. PICK i \in Nat : Given(i, t)
      BY <1>15, <3>1
    <3>3. j < i
      BY <1>10, <1>11, <3>1, <3>2
    <3> QED BY <1>20, <3>1, <3>2, <3>3
  <2>3. ASSUME NEW t, NEW j \in Nat, Gives(s, j, t), t # P!Event
        PROVE  \E i \in Nat : i < j /\ Makes(s, i, t)
    <3>1. Given(j, t) /\ t \in 1 .. n
      BY <1>17, <1>20, <2>3
    <3>2. t \in Nat /\ t < j /\ Copied(t, t)
      BY <1>10, <1>11, <3>1 DEF Copied
    <3> QED BY <1>19, <3>2
  <2> QED BY <2>1, <2>2, <2>3 DEF AllGiven
<1>24. Once(s)
  <2>1. \A i, j, t : Copied(i, t) /\ Copied(j, t) => i = j
    BY DEF Copied
  <2> QED BY <1>13, <1>19, <1>20, <2>1 DEF Once
<1>25. Owned(s, {P!Event})
  <2> SUFFICES ASSUME NEW t, NEW j \in Nat, Makes(s, j, t),
                      NEW i \in Nat, i < j, Gives(s, i, P!Event)
               PROVE  FALSE
    BY <1>21 DEF Owned
  <2>1. Copied(j, t) /\ Given(i, P!Event)
    BY <1>19, <1>20
  <2> QED BY <1>10, <1>11, <1>14, <2>1
<1>26. Fresh(s, p)
  BY <1>5, <1>22, <1>23, <1>24, <1>25 DEF Fresh, Sound
<1> QED BY <1>26 DEF s, r, z

\* Every pass that a processor can go through is whole, if no script is careless.
LEMMA RunsAreFresh ==
  ASSUME ~Careless, NEW p \in P!AllProcessors, NEW s \in P!Runs(p)
  PROVE  Fresh(s, p)
<1>1. ASSUME NEW r \in Short(p)
      PROVE  Fresh(r, p)
  BY <1>1, ShortPasses
<1>2. ASSUME NEW n \in 0 .. MaxCopies, NEW u, Pairs(u, n), NEW r \in Short(p)
      PROVE  Fresh(u \o r, p)
  BY <1>2, ShortPasses, PairsAreSpent, BehindSpent
<1>3. ASSUME NEW n \in 0 .. MaxCopies, NEW r \in Short(p)
      PROVE  Fresh(P!MadeSent(n) \o r, p)
  BY <1>2, <1>3, MadeSentIs
<1>4. {P!Pass, P!Fail, P!Gone} \subseteq Short(p)
  BY DEF Short
<1>5. CASE s \in {P!Pass, P!Fail, P!Gone}
  BY <1>1, <1>4, <1>5
<1>6. CASE s = <<P!Out(P!Event), P!Failed>> /\ p \in {"rename", "ollama"}
  BY <1>1, <1>6 DEF Short
<1>7. CASE s \in P!CloneRun
  <2>1. PICK n \in P!Copies : s = P!MadeSent(n) \o P!Pass
    BY <1>7 DEF P!CloneRun
  <2>2. n \in 0 .. MaxCopies
    BY IngestAssumption DEF P!Copies
  <2> QED BY <1>3, <1>4, <2>1, <2>2
<1>8. CASE s \in P!HttpRun
  <2>1. Pairs(P!HttpBody, 1) /\ 1 \in 0 .. MaxCopies
    <3>1. 1 \in P!Tokens /\ 1 \in 0 .. MaxCopies
      BY TokensAre, IngestAssumption
    <3>2. P!HttpBody \in Seq(P!Steps) /\ Len(P!HttpBody) = 2
          /\ P!HttpBody[1] = P!Copy(1) /\ P!HttpBody[2] = P!Drop(1)
      BY <3>1, StepsAre DEF P!HttpBody
    <3>3. \A i \in 1 .. 1 : i = 1 /\ 2 * i - 1 = 1 /\ 2 * i = 2
      OBVIOUS
    <3> QED BY <3>1, <3>2, <3>3 DEF Pairs
  <2>2. CASE s \in {P!HttpBody \o pass : pass \in {P!Pass, P!Fail}}
    BY <1>2, <1>4, <2>1, <2>2
  <2> QED BY <1>5, <1>8, <2>2, BodyNotSerialized DEF P!HttpRun, P!HttpCall
<1>9. CASE s \in P!ParserRun
  <2>1. CASE s \in P!Produce
    <3>1. PICK n \in 0 .. MaxCopies, last \in {P!Pass, P!Gone} : s = P!MadeSent(n) \o last
      BY <2>1 DEF P!Produce
    <3> QED BY <1>3, <1>4, <3>1
  <2>2. CASE s \in {P!MadeSent(n) \o P!Gone : n \in 0 .. MaxCopies}
    BY <1>3, <1>4, <2>2
  <2>3. ASSUME NEW n \in 0 .. MaxCopies - 1,
               s = P!MadeSent(n) \o <<P!Copy(n + 1), P!Drop(n + 1)>> \o P!Fail
        PROVE  Fresh(s, p)
    <3>1. /\ n \in Nat /\ n \in 0 .. MaxCopies
          /\ n + 1 \in 0 .. MaxCopies /\ n + 1 \in P!Tokens
      BY IngestAssumption, TokensAre
    <3>2. Pairs(P!MadeSent(n) \o <<P!Copy(n + 1), P!Drop(n + 1)>>, n + 1)
      BY <3>1, MadeSentIs, PairAfter
    <3> QED BY <1>2, <1>4, <2>3, <3>1, <3>2
  <2> QED BY <1>5, <1>9, <2>1, <2>2, <2>3 DEF P!ParserRun, P!Merge
<1>10. CASE s \in P!StarlarkRun
  <2>1. ASSUME NEW n \in 0 .. MaxCopies, NEW list \in P!Returned(n),
               s = P!Made(n) \o P!Marked(list)
        PROVE  Fresh(s, p)
    <3>1. CASE list = P!Sent(n)
      <4>1. Len(list) = n /\ DOMAIN list = 1 .. n /\ \A i \in 1 .. n : list[i] = P!Out(i)
        BY <3>1, SentIs, LenProperties
      <4>2. P!NotReturned(list)
        <5>1. \A i \in 1 .. n : i # P!Event /\ list[i].of = i
          BY <4>1 DEF P!Out, P!Event
        <5>2. P!Out(P!Event).of = P!Event
          BY DEF P!Out
        <5> QED BY <4>1, <5>1, <5>2 DEF P!NotReturned, P!Range
      <4>3. P!Marked(list) = (<<P!Drop(P!Event)>> \o P!Sent(n)) \o <<P!Accepted>>
        BY <3>1, <4>2 DEF P!Marked
      <4>4. 0 \in 0 .. n
        BY SentIs
      <4> DEFINE l == <<P!Drop(P!Event)>> \o P!Sent(n)
      <4>5. Listed(l, n, 0, P!Drop(P!Event))
        BY DroppedList
      <4>6. s = P!Made(n) \o (l \o <<P!Accepted>>)
        BY <2>1, <4>3
      <4> HIDE DEF l
      <4> QED BY <4>4, <4>5, <4>6, ScriptPass
    <3>2. ASSUME NEW k \in 0 .. n,
                 list = P!Sent(k) \o <<P!Out(P!Event)>> \o SubSeq(P!Sent(n), k + 1, n)
          PROVE  Fresh(s, p)
      <4>1. Listed(list, n, k, P!Out(P!Event))
        BY <3>2, ReturnedList
      <4>2. list \in Seq(P!Steps) /\ Len(list) = n + 1 /\ list[k + 1] = P!Out(P!Event)
        BY <4>1 DEF Listed
      <4>3. DOMAIN list = 1 .. Len(list) /\ k + 1 \in 1 .. Len(list)
        BY <4>2, SentIs, LenProperties
      <4>4. ~P!NotReturned(list)
        BY <4>2, <4>3 DEF P!NotReturned, P!Range
      <4>5. P!Marked(list) = list \o <<P!Accepted>>
        BY <4>2, <4>4, ConcatEmptySeq DEF P!Marked
      <4>6. s = P!Made(n) \o (list \o <<P!Accepted>>)
        BY <2>1, <4>5
      <4> QED BY <4>1, <4>6, ScriptPass
    <3>3. \/ list = P!Sent(n)
          \/ \E k \in 0 .. n :
               list = P!Sent(k) \o <<P!Out(P!Event)>> \o SubSeq(P!Sent(n), k + 1, n)
      BY DEF P!Returned
    <3> QED BY <3>1, <3>2, <3>3
  <2>2. \/ s = P!Fail
        \/ \E n \in 0 .. MaxCopies : \E list \in P!Returned(n) : s = P!Made(n) \o P!Marked(list)
    BY <1>10 DEF P!StarlarkRun
  <2> QED BY <1>5, <2>1, <2>2
<1> QED
  BY <1>5, <1>6, <1>7, <1>8, <1>9, <1>10
  DEF P!AllProcessors, P!Runs, P!DeleteRun, P!LineRun, P!RegexRun, P!RkRun, P!SwitchCaseRun,
      P!ThroughRun, P!DropRun, P!ConverterRun, P!DefaultsRun, P!LookupRun, P!TemplateRun,
      P!DeduplicateRun, P!ExecRun, P!RedisRun, P!SqlRun, P!OllamaRun, P!RenameRun, P!LogRun

-----------------------------------------------------------------------------
(* One step of a pass: what is left of it is sound for what is left in     *)
(* hand.                                                                   *)

\* The steps that are left are those behind the first one.
LEMMA TailIs ==
  ASSUME NEW s, s \in Seq(P!Steps), Len(s) > 1
  PROVE  /\ Tail(s) \in Seq(P!Steps) /\ Len(Tail(s)) \in Nat /\ Len(s) = Len(Tail(s)) + 1
         /\ \A j \in 1 .. Len(Tail(s)) : Tail(s)[j] = s[j + 1]
         /\ \A j \in Nat : \A t :
              /\ Gives(Tail(s), j, t) <=> j > 0 /\ Gives(s, j + 1, t)
              /\ Makes(Tail(s), j, t) <=> j > 0 /\ Makes(s, j + 1, t)
              /\ Errs(Tail(s), j) <=> j > 0 /\ Errs(s, j + 1)
         /\ \A j, t : Gives(s, j, t) \/ Makes(s, j, t) \/ Errs(s, j) => j \in Nat /\ j > 0
<1>1. s # <<>> /\ Len(s) \in Nat
  BY EmptySeq, LenProperties
<1>2. /\ Tail(s) \in Seq(P!Steps) /\ Len(Tail(s)) = Len(s) - 1
      /\ \A j \in 1 .. Len(Tail(s)) : Tail(s)[j] = s[j + 1]
  BY <1>1, HeadTailProperties
<1> DEFINE r == Tail(s)
<1> HIDE DEF r
<1>3. r \in Seq(P!Steps) /\ Len(r) \in Nat /\ Len(s) = Len(r) + 1
  BY <1>1, <1>2 DEF r
<1>4. \A j \in 1 .. Len(r) : r[j] = s[j + 1]
  BY <1>2 DEF r
<1>5. ASSUME NEW j \in Nat, NEW t
      PROVE  /\ Gives(r, j, t) <=> j > 0 /\ Gives(s, j + 1, t)
             /\ Makes(r, j, t) <=> j > 0 /\ Makes(s, j + 1, t)
             /\ Errs(r, j) <=> j > 0 /\ Errs(s, j + 1)
  <2>1. j \in 1 .. Len(r) <=> j > 0 /\ j + 1 \in 1 .. Len(s)
    BY <1>3
  <2> QED BY <1>4, <2>1 DEF Gives, Makes, Errs
<1>6. \A j, t : Gives(s, j, t) \/ Makes(s, j, t) \/ Errs(s, j) => j \in Nat /\ j > 0
  BY <1>1 DEF Gives, Makes, Errs
<1> QED BY <1>3, <1>4, <1>5, <1>6 DEF r

\* A pass goes on until the metric, which tells how it ended.
LEMMA GoesOn ==
  ASSUME NEW s, NEW p, NEW w, s \in Seq(P!Steps), EndsLast(s),
         s[1].op \notin {"accepted", "failed"}, Marks(s, p, w)
  PROVE  /\ Len(s) > 1 /\ EndsLast(Tail(s))
         /\ \A v : (v = {} <=> w = {} /\ s[1].op # "error") => Marks(Tail(s), p, v)
<1>1. Len(s) \in Nat /\ Len(s) > 1 /\ Len(s) \in 1 .. Len(s) /\ 1 \in 1 .. Len(s)
  <2>1. Len(s) \in Nat /\ Len(s) > 0
    BY LenProperties DEF EndsLast
  <2> QED BY <2>1 DEF EndsLast
<1> DEFINE r == Tail(s)
<1>2. /\ r \in Seq(P!Steps) /\ Len(r) \in Nat /\ Len(s) = Len(r) + 1
      /\ \A j \in 1 .. Len(r) : r[j] = s[j + 1]
      /\ \A j \in Nat : Errs(r, j) <=> j > 0 /\ Errs(s, j + 1)
      /\ \A j : Errs(s, j) => j \in Nat /\ j > 0
  BY <1>1, TailIs
<1> HIDE DEF r
<1>3. Len(r) \in 1 .. Len(r) /\ Len(r) > 0 /\ r[Len(r)] = s[Len(s)]
  BY <1>1, <1>2
<1>4. EndsLast(r)
  <2>1. ASSUME NEW j \in 1 .. Len(r)
        PROVE  r[j].op \in {"accepted", "failed"} <=> j = Len(r)
    <3>1. j + 1 \in 1 .. Len(s) /\ (j = Len(r) <=> j + 1 = Len(s))
      BY <1>2
    <3> QED BY <1>2, <3>1 DEF EndsLast
  <2> QED BY <1>3, <2>1 DEF EndsLast
<1>5. Errs(s, 1) <=> s[1].op = "error"
  BY <1>1 DEF Errs
<1>6. ASSUME s[Len(s)].op = "accepted"
      PROVE  w = {} /\ s[1].op # "error" /\ \A j \in Nat : ~Errs(r, j)
  BY <1>2, <1>5, <1>6 DEF Marks
<1>7. ASSUME s[Len(s)].op = "failed", p \notin {"rename", "ollama"}
      PROVE  w # {} \/ s[1].op = "error" \/ \E j \in Nat : Errs(r, j)
  <2>1. ASSUME NEW j \in Nat, Errs(s, j), j # 1
        PROVE  \E i \in Nat : Errs(r, i)
    <3>1. j - 1 \in Nat /\ j - 1 > 0 /\ (j - 1) + 1 = j
      BY <1>2, <2>1
    <3>2. Errs(r, j - 1)
      BY <1>2, <2>1, <3>1
    <3> QED BY <3>1, <3>2
  <2> QED BY <1>5, <1>7, <2>1 DEF Marks
<1>8. ASSUME NEW v, v = {} <=> w = {} /\ s[1].op # "error"
      PROVE  Marks(r, p, v)
  BY <1>3, <1>6, <1>7, <1>8 DEF Marks
<1> QED BY <1>1, <1>4, <1>8 DEF r

\* A copy is made: it is in hand from now on.
LEMMA CopyStep ==
  ASSUME NEW s, NEW h, Sound(s, h), s[1].op = "copy", Len(s) > 1, EndsLast(Tail(s))
  PROVE  s[1].of \in P!Tokens \ h /\ P!Event \in h /\ Sound(Tail(s), h \cup {s[1].of})
<1> DEFINE r == Tail(s)
<1> DEFINE d == s[1].of
<1>1. s \in Seq(P!Steps) /\ AllGiven(s, h) /\ Once(s) /\ Owned(s, h) /\ Len(s) \in Nat
  BY LenProperties DEF Sound
<1>2. d \in P!Tokens /\ Makes(s, 1, d)
  <2>1. 1 \in 1 .. Len(s)
    BY <1>1
  <2>2. s[1] \in P!Steps
    BY <1>1, <2>1, ElementOfSeq
  <2> QED BY <2>1, <2>2 DEF P!Steps, Makes
<1>3. /\ r \in Seq(P!Steps)
      /\ \A j \in Nat : \A t : /\ Gives(r, j, t) <=> j > 0 /\ Gives(s, j + 1, t)
                               /\ Makes(r, j, t) <=> j > 0 /\ Makes(s, j + 1, t)
                               /\ Errs(r, j) <=> j > 0 /\ Errs(s, j + 1)
      /\ \A j, t : Gives(s, j, t) \/ Makes(s, j, t) \/ Errs(s, j) => j \in Nat /\ j > 0
  BY <1>1, TailIs
<1> HIDE DEF r, d
<1>4. \A t : ~Gives(s, 1, t) /\ (Makes(s, 1, t) => t = d)
  BY DEF Gives, Makes, d
<1>5. d \notin h /\ P!Event \in h
  BY <1>1, <1>2 DEF AllGiven, Owned
<1>6. ASSUME NEW j, NEW t, Gives(s, j, t)
      PROVE  \E i \in Nat : j = i + 1 /\ Gives(r, i, t)
  <2>1. j \in Nat /\ j > 1
    BY <1>3, <1>4, <1>6
  <2>2. j - 1 \in Nat /\ j = (j - 1) + 1 /\ j - 1 > 0
    BY <2>1
  <2> QED BY <1>3, <1>6, <2>2
<1>7. ASSUME NEW j, NEW t, Makes(s, j, t), t # d
      PROVE  \E i \in Nat : j = i + 1 /\ Makes(r, i, t)
  <2>1. j \in Nat /\ j > 1
    BY <1>3, <1>4, <1>7
  <2>2. j - 1 \in Nat /\ j = (j - 1) + 1 /\ j - 1 > 0
    BY <2>1
  <2> QED BY <1>3, <1>7, <2>2
<1>8. AllGiven(r, h \cup {d})
  <2>1. ASSUME NEW t \in h \cup {d}
        PROVE  \E i \in Nat : Gives(r, i, t)
    <3>1. \E j \in Nat : Gives(s, j, t)
      BY <1>1, <1>2 DEF AllGiven
    <3> QED BY <1>6, <3>1
  <2>2. ASSUME NEW t \in P!Tokens, NEW i \in Nat, Makes(r, i, t)
        PROVE  t \notin h \cup {d} /\ \E k \in Nat : i < k /\ Gives(r, k, t)
    <3>1. i + 1 \in Nat /\ i > 0 /\ Makes(s, i + 1, t)
      BY <1>3, <2>2
    <3>2. t # d
      BY <1>1, <1>2, <3>1 DEF Once
    <3>3. t \notin h /\ \E k \in Nat : i + 1 < k /\ Gives(s, k, t)
      BY <1>1, <3>1 DEF AllGiven
    <3> QED BY <1>6, <3>2, <3>3
  <2>3. ASSUME NEW t \in P!Tokens, NEW i \in Nat, Gives(r, i, t), t \notin h \cup {d}
        PROVE  \E k \in Nat : k < i /\ Makes(r, k, t)
    <3>1. i + 1 \in Nat /\ Gives(s, i + 1, t)
      BY <1>3, <2>3
    <3>2. PICK k \in Nat : k < i + 1 /\ Makes(s, k, t)
      BY <1>1, <2>3, <3>1 DEF AllGiven
    <3> QED BY <1>7, <2>3, <3>2
  <2> QED BY <2>1, <2>2, <2>3 DEF AllGiven
<1>9. Once(r)
  <2> SUFFICES ASSUME NEW t \in P!Tokens, NEW j \in Nat, NEW k \in Nat,
                      (Gives(r, j, t) /\ Gives(r, k, t)) \/ (Makes(r, j, t) /\ Makes(r, k, t))
               PROVE  j = k
    BY DEF Once
  <2>1. j + 1 \in Nat /\ k + 1 \in Nat
    OBVIOUS
  <2>2. j + 1 = k + 1
    BY <1>1, <1>3, <2>1 DEF Once
  <2> QED BY <2>2
<1>10. Owned(r, h \cup {d})
  <2> SUFFICES ASSUME NEW t \in P!Tokens, NEW j \in Nat, Makes(r, j, t) \/ Errs(r, j),
                      NEW k \in Nat, k < j, Gives(r, k, P!Event)
               PROVE  FALSE
    BY <1>5 DEF Owned
  <2>1. j + 1 \in Nat /\ k + 1 \in Nat /\ k + 1 < j + 1
    OBVIOUS
  <2> QED BY <1>1, <1>3, <2>1 DEF Owned
<1>11. Sound(r, h \cup {d})
  BY <1>3, <1>8, <1>9, <1>10 DEF Sound, r
<1> QED BY <1>2, <1>5, <1>11 DEF r, d

\* A token is given away: it was in hand, and is not any longer.
LEMMA GiveStep ==
  ASSUME NEW s, NEW h, Sound(s, h), s[1].op \in {"out", "drop"}, Len(s) > 1, EndsLast(Tail(s))
  PROVE  s[1].of \in h /\ Sound(Tail(s), h \ {s[1].of})
<1> DEFINE r == Tail(s)
<1> DEFINE d == s[1].of
<1>1. s \in Seq(P!Steps) /\ AllGiven(s, h) /\ Once(s) /\ Owned(s, h) /\ Len(s) \in Nat
  BY LenProperties DEF Sound
<1>2. d \in P!Tokens /\ Gives(s, 1, d)
  <2>1. 1 \in 1 .. Len(s)
    BY <1>1
  <2>2. s[1] \in P!Steps
    BY <1>1, <2>1, ElementOfSeq
  <2> QED BY <2>1, <2>2 DEF P!Steps, Gives
<1>3. /\ r \in Seq(P!Steps)
      /\ \A j \in Nat : \A t : /\ Gives(r, j, t) <=> j > 0 /\ Gives(s, j + 1, t)
                               /\ Makes(r, j, t) <=> j > 0 /\ Makes(s, j + 1, t)
                               /\ Errs(r, j) <=> j > 0 /\ Errs(s, j + 1)
      /\ \A j, t : Gives(s, j, t) \/ Makes(s, j, t) \/ Errs(s, j) => j \in Nat /\ j > 0
  BY <1>1, TailIs
<1> HIDE DEF r, d
<1>4. \A t : ~Makes(s, 1, t) /\ (Gives(s, 1, t) => t = d)
  BY DEF Gives, Makes, d
<1>5. d \in h
  <2>1. ASSUME NEW k \in Nat, k < 1, Makes(s, k, d)
        PROVE  FALSE
    BY <1>3, <2>1
  <2> QED BY <1>1, <1>2, <2>1 DEF AllGiven
<1>6. ASSUME NEW j, NEW t, Gives(s, j, t), t # d
      PROVE  \E i \in Nat : j = i + 1 /\ Gives(r, i, t)
  <2>1. j \in Nat /\ j > 1
    BY <1>3, <1>4, <1>6
  <2>2. j - 1 \in Nat /\ j = (j - 1) + 1 /\ j - 1 > 0
    BY <2>1
  <2> QED BY <1>3, <1>6, <2>2
<1>7. ASSUME NEW j, NEW t, Makes(s, j, t)
      PROVE  \E i \in Nat : j = i + 1 /\ Makes(r, i, t)
  <2>1. j \in Nat /\ j > 1
    BY <1>3, <1>4, <1>7
  <2>2. j - 1 \in Nat /\ j = (j - 1) + 1 /\ j - 1 > 0
    BY <2>1
  <2> QED BY <1>3, <1>7, <2>2
<1>8. ASSUME NEW i \in Nat, Gives(r, i, d)
      PROVE  FALSE
  <2>1. i + 1 \in Nat /\ i + 1 # 1 /\ Gives(s, i + 1, d)
    BY <1>3, <1>8
  <2> QED BY <1>1, <1>2, <2>1 DEF Once
<1>9. AllGiven(r, h \ {d})
  <2>1. ASSUME NEW t \in h \ {d}
        PROVE  \E i \in Nat : Gives(r, i, t)
    <3>1. \E j \in Nat : Gives(s, j, t)
      BY <1>1 DEF AllGiven
    <3> QED BY <1>6, <3>1
  <2>2. ASSUME NEW t \in P!Tokens, NEW i \in Nat, Makes(r, i, t)
        PROVE  t \notin h \ {d} /\ \E k \in Nat : i < k /\ Gives(r, k, t)
    <3>1. i + 1 \in Nat /\ Makes(s, i + 1, t)
      BY <1>3, <2>2
    <3>2. t \notin h /\ \E k \in Nat : i + 1 < k /\ Gives(s, k, t)
      BY <1>1, <3>1 DEF AllGiven
    <3> QED BY <1>5, <1>6, <3>2
  <2>3. ASSUME NEW t \in P!Tokens, NEW i \in Nat, Gives(r, i, t), t \notin h \ {d}
        PROVE  \E k \in Nat : k < i /\ Makes(r, k, t)
    <3>0. t # d
      BY <1>8, <2>3
    <3>1. i + 1 \in Nat /\ Gives(s, i + 1, t) /\ t \notin h
      BY <1>3, <2>3, <3>0
    <3>2. PICK k \in Nat : k < i + 1 /\ Makes(s, k, t)
      BY <1>1, <3>1 DEF AllGiven
    <3>3. PICK l \in Nat : k = l + 1 /\ Makes(r, l, t)
      BY <1>7, <3>2
    <3>4. l < i
      BY <3>2, <3>3
    <3> QED BY <3>3, <3>4
  <2> QED BY <2>1, <2>2, <2>3 DEF AllGiven
<1>10. Once(r)
  <2> SUFFICES ASSUME NEW t \in P!Tokens, NEW j \in Nat, NEW k \in Nat,
                      (Gives(r, j, t) /\ Gives(r, k, t)) \/ (Makes(r, j, t) /\ Makes(r, k, t))
               PROVE  j = k
    BY DEF Once
  <2>1. j + 1 \in Nat /\ k + 1 \in Nat
    OBVIOUS
  <2>2. j + 1 = k + 1
    BY <1>1, <1>3, <2>1 DEF Once
  <2> QED BY <2>2
<1>11. Owned(r, h \ {d})
  <2> SUFFICES ASSUME NEW t \in P!Tokens, NEW j \in Nat, Makes(r, j, t) \/ Errs(r, j)
               PROVE  /\ P!Event \in h \ {d}
                      /\ \A k \in Nat : k < j => ~Gives(r, k, P!Event)
    BY DEF Owned
  <2>1. j + 1 \in Nat /\ 1 < j + 1 /\ (Makes(s, j + 1, t) \/ Errs(s, j + 1))
    BY <1>3
  <2>2. P!Event \in h /\ \A k \in Nat : k < j + 1 => ~Gives(s, k, P!Event)
    BY <1>1, <2>1 DEF Owned
  <2>3. P!Event # d
    BY <1>2, <2>1, <2>2
  <2>4. ASSUME NEW k \in Nat, k < j, Gives(r, k, P!Event)
        PROVE  FALSE
    <3>1. k + 1 \in Nat /\ k + 1 < j + 1 /\ Gives(s, k + 1, P!Event)
      BY <1>3, <2>4
    <3> QED BY <2>2, <3>1
  <2> QED BY <2>2, <2>3, <2>4
<1>12. Sound(r, h \ {d})
  BY <1>3, <1>9, <1>10, <1>11 DEF Sound, r
<1> QED BY <1>5, <1>12 DEF r, d

\* An error is added to an event that is in hand.
LEMMA ErrorStep ==
  ASSUME NEW s, NEW h, Sound(s, h), s[1].op = "error", Len(s) > 1, EndsLast(Tail(s))
  PROVE  P!Event \in h /\ Sound(Tail(s), h)
<1> DEFINE r == Tail(s)
<1>1. s \in Seq(P!Steps) /\ AllGiven(s, h) /\ Once(s) /\ Owned(s, h) /\ Len(s) \in Nat
  BY LenProperties DEF Sound
<1>2. Errs(s, 1)
  BY <1>1 DEF Errs
<1>3. /\ r \in Seq(P!Steps)
      /\ \A j \in Nat : \A t : /\ Gives(r, j, t) <=> j > 0 /\ Gives(s, j + 1, t)
                               /\ Makes(r, j, t) <=> j > 0 /\ Makes(s, j + 1, t)
                               /\ Errs(r, j) <=> j > 0 /\ Errs(s, j + 1)
      /\ \A j, t : Gives(s, j, t) \/ Makes(s, j, t) \/ Errs(s, j) => j \in Nat /\ j > 0
  BY <1>1, TailIs
<1> HIDE DEF r
<1>4. \A t : ~Makes(s, 1, t) /\ ~Gives(s, 1, t)
  BY DEF Gives, Makes
<1>5. P!Event \in h
  BY <1>1, <1>2, TokensAre DEF Owned
<1>6. ASSUME NEW j, NEW t, Gives(s, j, t)
      PROVE  \E i \in Nat : j = i + 1 /\ Gives(r, i, t)
  <2>1. j \in Nat /\ j > 1
    BY <1>3, <1>4, <1>6
  <2>2. j - 1 \in Nat /\ j = (j - 1) + 1 /\ j - 1 > 0
    BY <2>1
  <2> QED BY <1>3, <1>6, <2>2
<1>7. ASSUME NEW j, NEW t, Makes(s, j, t)
      PROVE  \E i \in Nat : j = i + 1 /\ Makes(r, i, t)
  <2>1. j \in Nat /\ j > 1
    BY <1>3, <1>4, <1>7
  <2>2. j - 1 \in Nat /\ j = (j - 1) + 1 /\ j - 1 > 0
    BY <2>1
  <2> QED BY <1>3, <1>7, <2>2
<1>8. AllGiven(r, h)
  <2>1. ASSUME NEW t \in h
        PROVE  \E i \in Nat : Gives(r, i, t)
    <3>1. \E j \in Nat : Gives(s, j, t)
      BY <1>1 DEF AllGiven
    <3> QED BY <1>6, <3>1
  <2>2. ASSUME NEW t \in P!Tokens, NEW i \in Nat, Makes(r, i, t)
        PROVE  t \notin h /\ \E k \in Nat : i < k /\ Gives(r, k, t)
    <3>1. i + 1 \in Nat /\ Makes(s, i + 1, t)
      BY <1>3, <2>2
    <3>2. t \notin h /\ \E k \in Nat : i + 1 < k /\ Gives(s, k, t)
      BY <1>1, <3>1 DEF AllGiven
    <3> QED BY <1>6, <3>2
  <2>3. ASSUME NEW t \in P!Tokens, NEW i \in Nat, Gives(r, i, t), t \notin h
        PROVE  \E k \in Nat : k < i /\ Makes(r, k, t)
    <3>1. i + 1 \in Nat /\ Gives(s, i + 1, t)
      BY <1>3, <2>3
    <3>2. PICK k \in Nat : k < i + 1 /\ Makes(s, k, t)
      BY <1>1, <2>3, <3>1 DEF AllGiven
    <3>3. PICK l \in Nat : k = l + 1 /\ Makes(r, l, t)
      BY <1>7, <3>2
    <3>4. l < i
      BY <3>2, <3>3
    <3> QED BY <3>3, <3>4
  <2> QED BY <2>1, <2>2, <2>3 DEF AllGiven
<1>9. Once(r)
  <2> SUFFICES ASSUME NEW t \in P!Tokens, NEW j \in Nat, NEW k \in Nat,
                      (Gives(r, j, t) /\ Gives(r, k, t)) \/ (Makes(r, j, t) /\ Makes(r, k, t))
               PROVE  j = k
    BY DEF Once
  <2>1. j + 1 \in Nat /\ k + 1 \in Nat
    OBVIOUS
  <2>2. j + 1 = k + 1
    BY <1>1, <1>3, <2>1 DEF Once
  <2> QED BY <2>2
<1>10. Owned(r, h)
  <2> SUFFICES ASSUME NEW t \in P!Tokens, NEW j \in Nat, Makes(r, j, t) \/ Errs(r, j),
                      NEW k \in Nat, k < j, Gives(r, k, P!Event)
               PROVE  FALSE
    BY <1>5 DEF Owned
  <2>1. j + 1 \in Nat /\ k + 1 \in Nat /\ k + 1 < j + 1
    OBVIOUS
  <2> QED BY <1>1, <1>3, <2>1 DEF Owned
<1>11. Sound(r, h)
  BY <1>3, <1>8, <1>9, <1>10 DEF Sound, r
<1> QED BY <1>5, <1>11 DEF r

\* At the metric nothing is in hand, and an error is there or not as it says.
LEMMA LastStep ==
  ASSUME NEW s, NEW h \in SUBSET P!Tokens, NEW p, NEW w, Sound(s, h), Marks(s, p, w),
         s[1].op \in {"accepted", "failed"}
  PROVE  /\ h = {}
         /\ s[1].op = "accepted" => w = {}
         /\ s[1].op = "failed" /\ p \notin {"rename", "ollama"} => w # {}
<1>1. Len(s) \in Nat /\ Len(s) > 0 /\ s \in Seq(P!Steps)
  BY LenProperties DEF Sound, EndsLast
<1>2. Len(s) = 1
  <2>1. 1 \in 1 .. Len(s)
    BY <1>1
  <2> QED BY <2>1 DEF Sound, EndsLast
<1>3. \A j \in Nat : ~Errs(s, j)
  BY <1>2 DEF Errs
<1>4. \A t, j : ~Gives(s, j, t)
  BY <1>2 DEF Gives
<1>5. h = {}
  BY <1>4 DEF Sound, AllGiven
<1> QED BY <1>2, <1>3, <1>5 DEF Marks

-----------------------------------------------------------------------------
(* What the processor hands on.                                            *)

\* Half-way through a pass, what is left of it is sound for what is in hand; an error
\* is there before the metric only of the event of the pass.
HandInv ==
  /\ P!TypeOK /\ proc \in P!AllProcessors \cup {None}
  /\ cur # None => /\ Sound(plan, hand) /\ Marks(plan, proc, wrong \cap {cur})
                   /\ told[cur] = "none"
  /\ \A e \in wrong : told[e] # "none" \/ e = cur
  /\ P!Counted /\ P!FailedIsMarked

LEMMA CardinalityIs == \A S : P!Cardinality(S) = Cardinality(S)
BY DEF P!Cardinality, Cardinality

LEMMA HandsAre ==
  ASSUME P!TypeOK
  PROVE  /\ hand \in SUBSET P!Tokens /\ IsFiniteSet(hand) /\ Cardinality(hand) \in Nat
         /\ \A t : /\ t \notin hand => Cardinality(hand \cup {t}) = Cardinality(hand) + 1
                   /\ t \in hand => Cardinality(hand \ {t}) = Cardinality(hand) - 1
<1>1. MaxCopies \in Int /\ 0 \in Int
  BY IngestAssumption
<1>2. IsFiniteSet(P!Tokens)
  BY <1>1, FS_Interval, TokensAre
<1>3. hand \in SUBSET P!Tokens
  BY DEF P!TypeOK
<1>4. IsFiniteSet(hand)
  BY <1>2, <1>3, FS_Subset
<1> QED BY <1>3, <1>4, FS_CardinalityType, FS_AddElement, FS_RemoveElement

LEMMA CurIs ==
  ASSUME HandInv, cur # None
  PROVE  /\ cur \in Tries \X Rows /\ plan \in Seq(P!Steps) /\ EndsLast(plan)
         /\ P!Now = plan[1] /\ plan[1] \in P!Steps
         /\ Sound(plan, hand) /\ Marks(plan, proc, wrong \cap {cur}) /\ told[cur] = "none"
<1>1. cur \in Tries \X Rows /\ Sound(plan, hand) /\ Marks(plan, proc, wrong \cap {cur})
      /\ told[cur] = "none"
  BY DEF HandInv, P!TypeOK
<1>2. plan \in Seq(P!Steps) /\ EndsLast(plan)
  BY <1>1 DEF Sound
<1>3. 1 \in 1 .. Len(plan)
  BY <1>2, LenProperties DEF EndsLast
<1>4. plan[1] \in P!Steps
  BY <1>2, <1>3, ElementOfSeq
<1>5. P!Now = plan[1]
  BY <1>2, <1>3 DEF P!Now
<1> QED BY <1>1, <1>2, <1>4, <1>5

\* Nothing is done to an event that is not in hand.
LEMMA OwnOnlyIs ==
  ASSUME HandInv
  PROVE  P!OwnOnly
<1> SUFFICES ASSUME cur # None, P!Now.op \in {"copy", "error"}
             PROVE  P!Event \in hand
  BY DEF P!OwnOnly
<1>1. /\ plan \in Seq(P!Steps) /\ EndsLast(plan) /\ Sound(plan, hand)
      /\ plan[1].op \in {"copy", "error"} /\ Marks(plan, proc, wrong \cap {cur})
  BY CurIs
<1>2. Len(plan) > 1 /\ EndsLast(Tail(plan))
  BY <1>1, GoesOn
<1> QED BY <1>1, <1>2, CopyStep, ErrorStep

\* The next event: it has one reference, and no error yet.
LEMMA TakeKeeps ==
  ASSUME ~Careless, HandInv, proc # None, NEW e \in Tries \X Rows, P!Take(e)
  PROVE  HandInv'
<1>1. /\ cur = None /\ told[e] = "none" /\ cur' = e /\ plan' \in P!Runs(proc)
      /\ hand' = {P!Event} /\ UNCHANGED <<proc, duty, away, wrong, told>>
  BY DEF P!Take
<1>2. Fresh(plan', proc)
  BY <1>1, RunsAreFresh DEF HandInv
<1>3. e # None /\ e \notin wrong
  BY <1>1, LinesAssumption DEF HandInv
<1>4. P!TypeOK'
  BY <1>1, <1>2, TokensAre DEF HandInv, P!TypeOK, Fresh, Sound
<1>5. Cardinality(hand') = 1
  BY <1>1, FS_Singleton
<1>6. P!Counted'
  <2>1. ASSUME NEW d \in Tries \X Rows
        PROVE  P!InHand(d)' = P!InHand(d)
    <3>1. CASE d = e
      BY <1>1, <1>3, <1>5, <3>1, CardinalityIs DEF P!InHand
    <3>2. CASE d # e
      BY <1>1, <3>2, LinesAssumption DEF P!InHand
    <3> QED BY <3>1, <3>2
  <2> QED BY <1>1, <2>1 DEF HandInv, P!Counted
<1>7. P!FailedIsMarked'
  BY <1>1 DEF HandInv, P!FailedIsMarked
<1>8. Marks(plan', proc', wrong' \cap {cur'}) /\ Sound(plan', hand')
  BY <1>1, <1>2, <1>3 DEF Fresh, Marks
<1>9. \A d \in wrong : told[d] # "none"
  BY <1>1, LinesAssumption DEF HandInv, P!TypeOK
<1> QED BY <1>1, <1>4, <1>6, <1>7, <1>8, <1>9 DEF HandInv

\* A copy is made and counted.
LEMMA MakeCopyKeeps ==
  ASSUME HandInv, P!MakeCopy
  PROVE  HandInv'
<1>1. /\ cur # None /\ P!Now.op = "copy" /\ plan' = Tail(plan)
      /\ hand' = hand \cup {P!Now.of} /\ duty' = [duty EXCEPT ![cur] = @ + 1]
      /\ UNCHANGED <<proc, cur, away, wrong, told>>
  BY DEF P!MakeCopy, P!Due
<1>2. /\ cur \in Tries \X Rows /\ plan \in Seq(P!Steps) /\ EndsLast(plan)
      /\ P!Now = plan[1] /\ plan[1] \in P!Steps
      /\ Sound(plan, hand) /\ Marks(plan, proc, wrong \cap {cur}) /\ told[cur] = "none"
  BY <1>1, CurIs
<1> DEFINE d == plan[1].of
<1>3. Len(plan) > 1 /\ EndsLast(Tail(plan)) /\ Marks(Tail(plan), proc, wrong \cap {cur})
  <2>1. plan[1].op \notin {"accepted", "failed"} /\ plan[1].op # "error"
    BY <1>1, <1>2
  <2> QED BY <1>2, <2>1, GoesOn
<1>4. d \in P!Tokens \ hand /\ Sound(Tail(plan), hand \cup {d})
  BY <1>1, <1>2, <1>3, CopyStep
<1>5. P!TypeOK'
  BY <1>1, <1>2, <1>4 DEF HandInv, P!TypeOK, Sound
<1>6. Cardinality(hand') = Cardinality(hand) + 1 /\ Cardinality(hand) \in Nat
  BY <1>1, <1>2, <1>4, HandsAre DEF HandInv
<1>7. P!Counted'
  <2>1. ASSUME NEW e \in Tries \X Rows
        PROVE  duty'[e] = P!InHand(e)' + away'[e]
    <3>1. duty[e] = P!InHand(e) + away[e] /\ duty[e] \in Nat /\ away[e] \in Nat
      BY DEF HandInv, P!Counted, P!TypeOK
    <3>2. duty'[e] = IF e = cur THEN duty[e] + 1 ELSE duty[e]
      BY <1>1, <1>2 DEF HandInv, P!TypeOK
    <3>3. CASE e = cur
      <4>1. P!InHand(e)' = Cardinality(hand') /\ P!InHand(e) = Cardinality(hand)
        BY <1>1, <3>3, CardinalityIs DEF P!InHand
      <4> QED BY <1>1, <1>6, <3>1, <3>2, <3>3, <4>1
    <3>4. CASE e # cur
      <4>1. P!InHand(e)' = P!InHand(e)
        BY <1>1, <3>4 DEF P!InHand
      <4> QED BY <1>1, <3>1, <3>2, <3>4, <4>1
    <3> QED BY <3>3, <3>4
  <2> QED BY <2>1 DEF P!Counted
<1>8. P!FailedIsMarked'
  BY <1>1 DEF HandInv, P!FailedIsMarked
<1>9. Marks(plan', proc', wrong' \cap {cur'}) /\ Sound(plan', hand')
  <2>1. plan[1].op # "error"
    BY <1>1, <1>2
  <2> QED BY <1>1, <1>2, <1>3, <1>4, <2>1 DEF Marks
<1> QED BY <1>1, <1>2, <1>5, <1>7, <1>8, <1>9 DEF HandInv

\* A token is given to somebody else, who has a reference more.
LEMMA HandOverKeeps ==
  ASSUME HandInv, P!HandOver
  PROVE  HandInv'
<1>1. /\ cur # None /\ P!Now.op \in {"out", "drop"} /\ plan' = Tail(plan)
      /\ hand' = hand \ {P!Now.of} /\ away' = [away EXCEPT ![cur] = @ + 1]
      /\ UNCHANGED <<proc, cur, duty, wrong, told>>
  BY DEF P!HandOver, P!Due
<1>2. /\ cur \in Tries \X Rows /\ plan \in Seq(P!Steps) /\ EndsLast(plan)
      /\ P!Now = plan[1] /\ plan[1] \in P!Steps
      /\ Sound(plan, hand) /\ Marks(plan, proc, wrong \cap {cur}) /\ told[cur] = "none"
  BY <1>1, CurIs
<1> DEFINE d == plan[1].of
<1>3. Len(plan) > 1 /\ EndsLast(Tail(plan)) /\ Marks(Tail(plan), proc, wrong \cap {cur})
  <2>1. plan[1].op \notin {"accepted", "failed"} /\ plan[1].op # "error"
    BY <1>1, <1>2
  <2> QED BY <1>2, <2>1, GoesOn
<1>4. d \in hand /\ Sound(Tail(plan), hand \ {d})
  BY <1>1, <1>2, <1>3, GiveStep
<1>5. P!TypeOK'
  BY <1>1, <1>2, <1>4 DEF HandInv, P!TypeOK, Sound
<1>6. Cardinality(hand') = Cardinality(hand) - 1 /\ Cardinality(hand) \in Nat
  BY <1>1, <1>2, <1>4, HandsAre DEF HandInv
<1>7. P!Counted'
  <2>1. ASSUME NEW e \in Tries \X Rows
        PROVE  duty'[e] = P!InHand(e)' + away'[e]
    <3>1. duty[e] = P!InHand(e) + away[e] /\ duty[e] \in Nat /\ away[e] \in Nat
      BY DEF HandInv, P!Counted, P!TypeOK
    <3>2. away'[e] = IF e = cur THEN away[e] + 1 ELSE away[e]
      BY <1>1, <1>2 DEF HandInv, P!TypeOK
    <3>3. CASE e = cur
      <4>1. P!InHand(e)' = Cardinality(hand') /\ P!InHand(e) = Cardinality(hand)
        BY <1>1, <3>3, CardinalityIs DEF P!InHand
      <4> QED BY <1>1, <1>6, <3>1, <3>2, <3>3, <4>1
    <3>4. CASE e # cur
      <4>1. P!InHand(e)' = P!InHand(e)
        BY <1>1, <3>4 DEF P!InHand
      <4> QED BY <1>1, <3>1, <3>2, <3>4, <4>1
    <3> QED BY <3>3, <3>4
  <2> QED BY <2>1 DEF P!Counted
<1>8. P!FailedIsMarked'
  BY <1>1 DEF HandInv, P!FailedIsMarked
<1>9. Marks(plan', proc', wrong' \cap {cur'}) /\ Sound(plan', hand')
  BY <1>1, <1>2, <1>3, <1>4
<1> QED BY <1>1, <1>2, <1>5, <1>7, <1>8, <1>9 DEF HandInv

\* An error is added to the event of the pass.
LEMMA AddErrorKeeps ==
  ASSUME HandInv, P!AddError
  PROVE  HandInv'
<1>1. /\ cur # None /\ P!Now.op = "error" /\ plan' = Tail(plan)
      /\ wrong' = wrong \cup {cur}
      /\ UNCHANGED <<proc, cur, hand, duty, away, told>>
  BY DEF P!AddError, P!Due
<1>2. /\ cur \in Tries \X Rows /\ plan \in Seq(P!Steps) /\ EndsLast(plan)
      /\ P!Now = plan[1] /\ plan[1] \in P!Steps
      /\ Sound(plan, hand) /\ Marks(plan, proc, wrong \cap {cur}) /\ told[cur] = "none"
  BY <1>1, CurIs
<1>3. Len(plan) > 1 /\ EndsLast(Tail(plan)) /\ Marks(Tail(plan), proc, wrong' \cap {cur})
  <2>1. plan[1].op \notin {"accepted", "failed"} /\ plan[1].op = "error"
    BY <1>1, <1>2
  <2>2. wrong' \cap {cur} # {}
    BY <1>1
  <2> QED BY <1>2, <2>1, <2>2, GoesOn
<1>4. Sound(Tail(plan), hand)
  BY <1>1, <1>2, <1>3, ErrorStep
<1>5. P!TypeOK'
  BY <1>1, <1>2, <1>4 DEF HandInv, P!TypeOK, Sound
<1>6. P!Counted'
  BY <1>1 DEF HandInv, P!Counted, P!InHand
<1>7. P!FailedIsMarked'
  BY <1>1, <1>2 DEF HandInv, P!FailedIsMarked
<1>8. \A e \in wrong' : told'[e] # "none" \/ e = cur'
  BY <1>1 DEF HandInv
<1> QED BY <1>1, <1>2, <1>3, <1>4, <1>5, <1>6, <1>7, <1>8 DEF HandInv

\* The metric is told, and nothing was kept back.
LEMMA ObserveKeeps ==
  ASSUME HandInv, P!Observe
  PROVE  HandInv'
<1>1. /\ cur # None /\ P!Now.op \in {"accepted", "failed"}
      /\ told' = [told EXCEPT ![cur] = P!Now.op]
      /\ cur' = None /\ plan' = <<>> /\ hand' = {}
      /\ UNCHANGED <<proc, duty, away, wrong>>
  BY DEF P!Observe
<1>2. /\ cur \in Tries \X Rows /\ P!Now = plan[1]
      /\ Sound(plan, hand) /\ Marks(plan, proc, wrong \cap {cur}) /\ told[cur] = "none"
  BY <1>1, CurIs
<1>3. hand \in SUBSET P!Tokens
  BY HandsAre DEF HandInv
<1>4. /\ hand = {}
      /\ P!Now.op = "accepted" => wrong \cap {cur} = {}
      /\ P!Now.op = "failed" /\ proc \notin {"rename", "ollama"} => wrong \cap {cur} # {}
  BY <1>1, <1>2, <1>3, LastStep
<1>5. \A e \in Tries \X Rows : told'[e] = IF e = cur THEN P!Now.op ELSE told[e]
  BY <1>1, <1>2 DEF HandInv, P!TypeOK
<1>6. P!TypeOK'
  BY <1>1, <1>2, EmptySeq DEF HandInv, P!TypeOK
<1>7. P!Counted'
  <2>1. ASSUME NEW e \in Tries \X Rows
        PROVE  P!InHand(e)' = P!InHand(e)
    <3>1. e # None
      BY LinesAssumption
    <3>2. CASE e = cur
      <4>1. P!InHand(e) = Cardinality(hand)
        BY <3>2, CardinalityIs DEF P!InHand
      <4>2. P!InHand(e)' = 0
        BY <1>1, <1>5, <3>1, <3>2 DEF P!InHand
      <4> QED BY <1>4, <4>1, <4>2, FS_EmptySet
    <3>3. CASE e # cur
      BY <1>1, <1>5, <3>1, <3>3 DEF P!InHand
    <3> QED BY <3>2, <3>3
  <2> QED BY <1>1, <2>1 DEF HandInv, P!Counted
<1>8. P!FailedIsMarked'
  <2>1. ASSUME NEW e \in Tries \X Rows
        PROVE  /\ told'[e] = "accepted" => e \notin wrong'
               /\ told'[e] = "failed" /\ proc' \notin {"rename", "ollama"} => e \in wrong'
    <3>1. CASE e = cur
      BY <1>1, <1>4, <1>5, <3>1
    <3>2. CASE e # cur
      BY <1>1, <1>5, <3>2 DEF HandInv, P!FailedIsMarked
    <3> QED BY <3>1, <3>2
  <2> QED BY <2>1 DEF P!FailedIsMarked
<1>9. \A e \in wrong' : told'[e] # "none"
  BY <1>1, <1>5 DEF HandInv, P!TypeOK
<1> QED BY <1>1, <1>6, <1>7, <1>8, <1>9 DEF HandInv

\* Somebody is done with a copy: it does not count any longer.
LEMMA DoneKeeps ==
  ASSUME HandInv, NEW e \in Tries \X Rows, P!Done(e)
  PROVE  HandInv'
<1>1. /\ away[e] > 0
      /\ away' = [away EXCEPT ![e] = @ - 1] /\ duty' = [duty EXCEPT ![e] = @ - 1]
      /\ UNCHANGED <<proc, cur, plan, hand, wrong, told>>
  BY DEF P!Done
<1>2. Cardinality(hand) \in Nat
  BY HandsAre DEF HandInv
<1>3. ASSUME NEW d \in Tries \X Rows
      PROVE  /\ duty'[d] = P!InHand(d)' + away'[d]
             /\ duty'[d] \in Nat /\ away'[d] \in Nat
  <2>1. duty[d] = P!InHand(d) + away[d] /\ duty[d] \in Nat /\ away[d] \in Nat
    BY DEF HandInv, P!Counted, P!TypeOK
  <2>2. P!InHand(d) \in Nat
    BY <1>2, CardinalityIs DEF P!InHand
  <2>3. P!InHand(d)' = P!InHand(d)
    BY <1>1 DEF P!InHand
  <2>4. /\ away'[d] = IF d = e THEN away[d] - 1 ELSE away[d]
        /\ duty'[d] = IF d = e THEN duty[d] - 1 ELSE duty[d]
    BY <1>1 DEF HandInv, P!TypeOK
  <2> QED BY <1>1, <2>1, <2>2, <2>3, <2>4
<1>4. P!TypeOK'
  <2>1. away' \in [Tries \X Rows -> Nat] /\ duty' \in [Tries \X Rows -> Nat]
    BY <1>1, <1>3 DEF HandInv, P!TypeOK
  <2> QED BY <1>1, <2>1 DEF HandInv, P!TypeOK
<1>5. P!Counted'
  BY <1>3 DEF P!Counted
<1> QED BY <1>1, <1>4, <1>5 DEF HandInv, P!FailedIsMarked

LEMMA HandInit == IngestInit => HandInv
<1> SUFFICES ASSUME IngestInit
             PROVE  HandInv
  OBVIOUS
<1>1. /\ cur = None /\ plan = <<>> /\ hand = {} /\ wrong = {}
      /\ duty = [e \in Tries \X Rows |-> 1] /\ away = [e \in Tries \X Rows |-> 0]
      /\ told = [e \in Tries \X Rows |-> "none"]
  BY DEF IngestInit, P!Init
<1>2. proc \in P!AllProcessors \cup {None}
  BY LinesAssumption DEF IngestInit
<1>3. P!TypeOK
  BY <1>1, EmptySeq DEF P!TypeOK
<1>4. P!Counted
  BY <1>1, LinesAssumption DEF P!Counted, P!InHand
<1>5. P!FailedIsMarked
  BY <1>1 DEF P!FailedIsMarked
<1> QED BY <1>1, <1>2, <1>3, <1>4, <1>5 DEF HandInv

LEMMA HandNext ==
  ASSUME ~Careless, HandInv, [IngestNext]_ingest
  PROVE  HandInv'
<1>1. ASSUME UNCHANGED processor
      PROVE  HandInv'
  BY <1>1 DEF HandInv, processor, P!TypeOK, P!Counted, P!InHand, P!FailedIsMarked
<1>2. CASE Worked
  BY <1>2, MakeCopyKeeps, HandOverKeeps, AddErrorKeeps, ObserveKeeps DEF Worked, P!Work
<1>3. ASSUME NEW a \in Tries, NEW i \in Rows, Taken(a, i) \/ Done(a, i)
      PROVE  HandInv'
  <2>1. <<a, i>> \in Tries \X Rows
    OBVIOUS
  <2>2. CASE Taken(a, i)
    BY <2>1, <2>2, TakeKeeps DEF Taken
  <2>3. CASE Done(a, i)
    BY <2>1, <2>3, DoneKeeps DEF Done
  <2> QED BY <1>3, <2>2, <2>3
<1> QED BY <1>1, <1>2, <1>3 DEF IngestNext, ingest, Delivered

\* A processor hands on each event and each copy of it once, marks what failed and
\* touches nothing that it has handed on: for every processor, however many copies are
\* made of an event and however many events come, if no script is careless
\* (starlark/bindings.go:218).
THEOREM HandedOnCorrect ==
  ASSUME ~Careless
  PROVE  IngestSpec => []HandedOn
<1>1. HandInv => HandedOn
  BY OwnOnlyIs DEF HandInv, HandedOn, P!HandedOn
<1>2. IngestInit => HandInv
  BY HandInit
<1>3. HandInv /\ [IngestNext]_ingest => HandInv'
  BY HandNext
<1> QED BY <1>1, <1>2, <1>3, PTL DEF IngestSpec
=============================================================================
