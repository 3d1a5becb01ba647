------------------------------ MODULE EventFlow ------------------------------
(***************************************************************************)
(* The data plane of one running pipeline: the channels and goroutines     *)
(* that Pipeline.Run and the units of core/unit connect, the tracker that  *)
(* counts the copies of an event, and the cascade that closes the channels *)
(* when the pipeline stops.                                                *)
(*                                                                         *)
(*   inputs -> fan-in -> lines of processors -> fan-in -> fan-out -> outputs *)
(*                                                                         *)
(* A copy of an event (an *Event) is a token; it is in one place at a      *)
(* time: in a channel or in the hands of a goroutine.  A channel is        *)
(* represented by its content without its order: "soft (consistency) units *)
(* does not guarantee the order of processing", and no property here is    *)
(* about order.                                                            *)
(***************************************************************************)
EXTENDS Integers, FiniteSets

CONSTANTS
  Inputs,     \* input plugins
  Lines,      \* parallel lines of processors
  Stages,     \* number of processors in a line
  Outs,       \* number of outputs
  Filtered,   \* the kinds of units that have a filter: input, processor, output
  MixStage,   \* the stage at which the lines are mixed, 0 if they are not
  Cap,        \* capacity of every channel (setting "buffer")
  Batch,      \* events an output holds before it reports them done
  Clones,     \* copies a processor may make of an event
  Events,     \* events the inputs may produce
  Tokens,     \* copies of events, in all places together (a bound)
  None        \* no event, nowhere

ASSUME FlowAssumption ==
  /\ Inputs # {} /\ Lines # {}
  /\ Stages \in Nat /\ Outs \in Nat \ {0} /\ MixStage \in Nat
  /\ Cap \in Nat \ {0} /\ Batch \in Nat \ {0} /\ Clones \in Nat
  /\ Filtered \subseteq {"input", "processor", "output"}
  /\ MixStage # 0 => 1 < MixStage /\ MixStage < Stages
  /\ IsFiniteSet(Tokens)

-----------------------------------------------------------------------------
(* Goroutines and channels.                                                *)

Sts == 1 .. Stages
Outputs == 1 .. Outs

HasFilter(kind, s) == kind \in Filtered /\ ~(kind = "processor" /\ s = MixStage)

Units(kind, names) == {<<kind, n>> : n \in names}
Procs(kind) == {<<kind, l, s>> : l \in Lines, s \in Sts}

InputGos   == Units("input", Inputs)
FilterGos  == (IF "input" \in Filtered THEN Units("infilter", Inputs) ELSE {})
                \cup {g \in Procs("pfilter") : HasFilter("processor", g[3])}
                \cup (IF "output" \in Filtered THEN Units("ofilter", Outputs) ELSE {})
RelayGos   == Units("join", Inputs) \cup Units("merge", Lines)
Mixers     == {g \in Procs("proc") : g[3] = MixStage}
ProcGos    == Procs("proc") \ Mixers
OutputGos  == Units("output", Outputs)
\* The goroutines that call Done.
DoneGos    == Units("idone", Inputs) \cup Procs("pdrop")
                \cup Units("rdone", Outputs) \cup Units("fdone", Outputs)
FanOut     == <<"fanout">>
Gos == InputGos \cup FilterGos \cup RelayGos \cup Mixers \cup ProcGos \cup {FanOut}
         \cup OutputGos \cup DoneGos

\* The channel that leaves the inputs, and the one that leaves stage s of line l.
InputOut(i) == IF "input" \in Filtered THEN <<"inacc", i>> ELSE <<"in", i>>
LineOut(l, s) == IF s = 0 THEN <<"joined">> ELSE <<"out", l, s>>

\* What a goroutine reads.
Source == [g \in Gos \ InputGos |->
  CASE g[1] = "infilter" -> <<"in", g[2]>>
    [] g[1] = "idone"    -> <<"inrej", g[2]>>
    [] g[1] = "join"     -> InputOut(g[2])
    [] g[1] = "pfilter"  -> LineOut(g[2], g[3] - 1)
    [] g[1] = "proc"     -> IF HasFilter("processor", g[3]) THEN <<"acc", g[2], g[3]>>
                                                            ELSE LineOut(g[2], g[3] - 1)
    [] g[1] = "pdrop"    -> <<"drop", g[2], g[3]>>
    [] g[1] = "merge"    -> LineOut(g[2], Stages)
    [] g[1] = "fanout"   -> <<"merged">>
    [] g[1] = "ofilter"  -> <<"cast", g[2]>>
    [] g[1] = "output"   -> IF "output" \in Filtered THEN <<"oacc", g[2]>> ELSE <<"cast", g[2]>>
    [] g[1] = "rdone"    -> <<"orej", g[2]>>
    [] g[1] = "fdone"    -> <<"odone", g[2]>>]

\* The channels a goroutine sends on; a mixer sends on those of every line.
Sinks == [g \in Gos |->
  CASE g[1] = "input"    -> {<<"in", g[2]>>}
    [] g[1] = "infilter" -> {<<"inacc", g[2]>>, <<"inrej", g[2]>>}
    [] g[1] = "join"     -> {<<"joined">>}
    [] g[1] = "pfilter"  -> {<<"acc", g[2], g[3]>>, LineOut(g[2], g[3])}
    [] g[1] = "proc"     -> {<<"drop", g[2], g[3]>>, LineOut(g[2], g[3])}
    [] g[1] = "merge"    -> {<<"merged">>}
    [] g[1] = "fanout"   -> {<<"cast", o>> : o \in Outputs}
    [] g[1] = "ofilter"  -> {<<"oacc", g[2]>>, <<"orej", g[2]>>}
    [] g[1] = "output"   -> {<<"odone", g[2]>>}
    [] OTHER             -> {}]

Chans == (UNION {Sinks[g] : g \in Gos}) \cup Units("inrej", Inputs) \cup Units("orej", Outputs)

\* Mutated form of DropWaits: the drop channel is closed after its reader has ended.
DropWaits_Reader(l, s) == {<<"proc", l, s>>, <<"pdrop", l, s>>}

DropWaits(l, s) == {<<"proc", l, s>>}
UnitWaits(l, s) == {<<"pfilter", l, s>>, <<"proc", l, s>>, <<"pdrop", l, s>>}

\* The goroutines that have ended when a channel is closed.
Closers == [c \in Chans |->
  CASE c[1] = "in"     -> {<<"input", c[2]>>}
    [] c[1] = "inacc"  -> {<<"infilter", c[2]>>}
    [] c[1] = "inrej"  -> {<<"input", c[2]>>, <<"infilter", c[2]>>}
    [] c[1] = "joined" -> Units("join", Inputs)
    [] c[1] = "acc"    -> {<<"pfilter", c[2], c[3]>>}
    [] c[1] = "drop"   -> DropWaits(c[2], c[3])
    [] c[1] = "out"    -> UnitWaits(c[2], c[3])
    [] c[1] = "merged" -> Units("merge", Lines)
    [] c[1] = "cast"   -> {FanOut}
    [] c[1] = "oacc"   -> {<<"ofilter", c[2]>>}
    [] c[1] \in {"orej", "odone"} -> {<<"output", c[2]>>}]

ASSUME NoneAssumption == None \notin Events \cup Gos \cup Chans

-----------------------------------------------------------------------------
VARIABLES
  at,        \* at[k]: the channel or goroutine that has token k, None if unused
  ev,        \* ev[k]: the event of which token k is a copy
  duty,      \* duty[e]: the counter of the tracker of e
  fired,     \* fired[e]: how often the hooks of e have run
  produced,  \* events an input has made
  copies,    \* copies[g]: copies g has sent of the event in its hands
  mixOuts,   \* lines whose output is registered with the mixers
  cases,     \* cases[l]: the outputs the mixer of line l selects from, under the lock
  closed,    \* closed channels
  ended,     \* goroutines that have returned
  phase      \* of Run: running, stopping, stopped

tracking == <<at, ev, duty, fired>>
mixing   == <<mixOuts, cases>>
closing  == <<closed, ended>>
vars     == <<tracking, produced, copies, mixing, closing, phase>>

Holding(p) == {k \in Tokens : at[k] = p}
CopiesOf(e) == {k \in Tokens : at[k] # None /\ ev[k] = e}

TypeOK ==
  /\ at \in [Tokens -> Chans \cup Gos \cup {None}]
  /\ ev \in [Tokens -> Events \cup {None}]
  /\ duty \in [Events -> Nat]
  /\ fired \in [Events -> Nat]
  /\ produced \subseteq Events
  /\ copies \in [Gos -> Nat]
  /\ mixOuts \subseteq Lines
  /\ cases \in [Lines -> SUBSET Lines]
  /\ closed \subseteq Chans
  /\ ended \subseteq Gos
  /\ phase \in {"running", "stopping", "stopped"}

Init ==
  /\ at = [k \in Tokens |-> None] /\ ev = [k \in Tokens |-> None]
  /\ duty = [e \in Events |-> 0] /\ fired = [e \in Events |-> 0]
  /\ produced = {} /\ copies = [g \in Gos |-> 0]
  /\ mixOuts = IF MixStage = 0 THEN {} ELSE Lines
  /\ cases = [l \in Lines |-> {}]
  /\ closed = {} /\ ended = {} /\ phase = "running"

-----------------------------------------------------------------------------
(* The tracker and the channels.                                           *)

Room(c) == Cardinality(Holding(c)) < Cap

Move(k, p) == at' = [at EXCEPT ![k] = p] /\ UNCHANGED <<ev, duty, fired>>

\* Mutated form of Copied: the clone shares the tracker without counting itself.
Copied_Uncounted(e) == duty[e]

Copied(e) == duty[e] + 1

\* Clone, or ShareTracker: another token of the event of k, sent to c.
Clone(k, j, c) ==
  /\ at[j] = None
  /\ at' = [at EXCEPT ![j] = c]
  /\ ev' = [ev EXCEPT ![j] = ev[k]]
  /\ duty' = [duty EXCEPT ![ev[k]] = Copied(ev[k])]
  /\ UNCHANGED fired

\* Mutated form of HookDue: the hooks run when one copy is left.
HookDue_Early(n) == n <= 1

HookDue(n) == n = 0

\* Event.Done, by the goroutine that reads a rejection, drop or done channel.
Done(k) ==
  LET e == ev[k]
      n == duty[e] - 1
  IN /\ at' = [at EXCEPT ![k] = None]
     /\ ev' = [ev EXCEPT ![k] = None]
     /\ duty' = [duty EXCEPT ![e] = n]
     /\ fired' = IF HookDue(n) THEN [fired EXCEPT ![e] = @ + 1] ELSE fired

Alive(g) == g \in Gos /\ g \notin ended

-----------------------------------------------------------------------------
(* The goroutines.                                                         *)

\* An input makes an event, with its delivery hook, and sends it next.
Produce(i, e, k) ==
  LET g == <<"input", i>>
  IN /\ Alive(g) /\ Holding(g) = {}
     /\ e \notin produced /\ at[k] = None
     /\ produced' = produced \cup {e}
     /\ at' = [at EXCEPT ![k] = g]
     /\ ev' = [ev EXCEPT ![k] = e]
     /\ duty' = [duty EXCEPT ![e] = 1]
     /\ UNCHANGED <<fired, copies, mixing, closing, phase>>

\* How many events a goroutine takes before it sends one.
Limit(g) == IF g \in OutputGos THEN Batch ELSE 1

Take(g, k) ==
  /\ Alive(g) /\ g \notin InputGos \cup DoneGos
  /\ Cardinality(Holding(g)) < Limit(g)
  /\ at[k] = Source[g]
  /\ Move(k, g)
  /\ copies' = [copies EXCEPT ![g] = 0]
  /\ UNCHANGED <<produced, mixing, closing, phase>>

\* Mutated form of Ready: an output waits until its batch is full.
Ready_Full(g) == Cardinality(Holding(g)) = Limit(g)

\* A batch is written when it is full, when its interval has passed or when the
\* source is closed, so at any time.
Ready(g) == Holding(g) # {}

\* An input, a filter, a fan-in, a processor or an output passes an event on: a
\* filter accepts or rejects it, a processor forwards or drops it.
Pass(g, k, c) ==
  /\ Alive(g) /\ g \notin Mixers \cup {FanOut}
  /\ at[k] = g /\ c \in Sinks[g] /\ Room(c) /\ Ready(g)
  /\ Move(k, c)
  /\ UNCHANGED <<produced, copies, mixing, closing, phase>>

\* A processor makes a copy, or an event that shares the tracker (clone, parser, http,
\* starlark, ...); each of what it has then goes its own way.
Multiply(g, k, j) ==
  /\ g \in ProcGos /\ Alive(g)
  /\ at[k] = g /\ copies[g] < Clones
  /\ Clone(k, j, g)
  /\ copies' = [copies EXCEPT ![g] = @ + 1]
  /\ UNCHANGED <<produced, mixing, closing, phase>>

\* The fan-out clones the event for every output but the last, in their order.
Cast(k, j) ==
  LET o == copies[FanOut] + 1
  IN /\ Alive(FanOut) /\ at[k] = FanOut /\ Room(<<"cast", o>>)
     /\ IF o < Outs
        THEN /\ Clone(k, j, <<"cast", o>>)
             /\ copies' = [copies EXCEPT ![FanOut] = o]
        ELSE Move(k, <<"cast", o>>) /\ j = k /\ UNCHANGED copies
     /\ UNCHANGED <<produced, mixing, closing, phase>>

Consume(g, k) ==
  /\ g \in DoneGos /\ Alive(g)
  /\ at[k] = Source[g]
  /\ Done(k)
  /\ UNCHANGED <<produced, copies, mixing, closing, phase>>

Drained(g) == Source[g] \in closed /\ Holding(Source[g]) = {} /\ Holding(g) = {}

\* The source is closed and read to the end: the loop ends.
End(g) ==
  /\ Alive(g) /\ g \notin InputGos \cup Mixers
  /\ Drained(g)
  /\ ended' = ended \cup {g}
  /\ UNCHANGED <<tracking, produced, copies, mixing, closed, phase>>

-----------------------------------------------------------------------------
(* The mixer: the outputs of all lines, behind a read-write lock.          *)

\* The read lock is taken and the outputs registered now are the cases of Select.
MixLock(l) ==
  /\ Alive(<<"proc", l, MixStage>>)
  /\ Holding(<<"proc", l, MixStage>>) # {}
  /\ cases[l] = {}
  /\ cases' = [cases EXCEPT ![l] = mixOuts]
  /\ UNCHANGED <<tracking, produced, copies, mixOuts, closing, phase>>

MixSend(l, k, to) ==
  /\ at[k] = <<"proc", l, MixStage>>
  /\ to \in cases[l] /\ Room(LineOut(to, MixStage))
  /\ Move(k, LineOut(to, MixStage))
  /\ cases' = [cases EXCEPT ![l] = {}]
  /\ UNCHANGED <<produced, copies, mixOuts, closing, phase>>

\* Mutated form of WriteLock: the line is removed while others select.
WriteLock_None == TRUE

WriteLock == \A l \in Lines : cases[l] = {}

\* Run of a mixer ends: under the write lock it removes its line.
MixEnd(l) ==
  /\ Alive(<<"proc", l, MixStage>>) /\ <<"proc", l, MixStage>> \in Mixers
  /\ Drained(<<"proc", l, MixStage>>)
  /\ WriteLock
  /\ mixOuts' = mixOuts \ {l}
  /\ ended' = ended \cup {<<"proc", l, MixStage>>}
  /\ UNCHANGED <<tracking, produced, copies, cases, closed, phase>>

-----------------------------------------------------------------------------
(* Stopping.                                                               *)

Stop ==
  /\ phase = "running"
  /\ phase' = "stopping"
  /\ UNCHANGED <<tracking, produced, copies, mixing, closing>>

InputEnd(i) ==
  /\ Alive(<<"input", i>>) /\ Holding(<<"input", i>>) = {}
  /\ ended' = ended \cup {<<"input", i>>}
  /\ UNCHANGED <<tracking, produced, copies, mixing, closed, phase>>

\* Run of an input returns before it is stopped (its server could not listen, ...).
InputQuit(i) == phase = "running" /\ InputEnd(i)

\* Stop has made it return.
InputStop(i) == phase = "stopping" /\ InputEnd(i)

\* An input unit closes its rejection channel only after the stop signal.
Close(c) ==
  /\ c \in Chans \ closed
  /\ Closers[c] \cap Gos \subseteq ended
  /\ c[1] = "inrej" => phase = "stopping"
  /\ closed' = closed \cup {c}
  /\ UNCHANGED <<tracking, produced, copies, mixing, ended, phase>>

\* Each unit has waited for its goroutines, and Run for the units.
AllReturned == Gos \subseteq ended

Stopped ==
  /\ phase = "stopping" /\ AllReturned
  /\ phase' = "stopped"
  /\ UNCHANGED <<tracking, produced, copies, mixing, closing>>

\* The steps of goroutine g.
Step(g) ==
  \/ End(g)
  \/ \E k \in Tokens : Take(g, k) \/ Consume(g, k)
  \/ \E k \in Holding(g) :
       \/ \E c \in Sinks[g] : Pass(g, k, c)
       \/ \E j \in Tokens : Multiply(g, k, j) \/ (g = FanOut /\ Cast(k, j))

MixStep(l) == MixLock(l) \/ MixEnd(l) \/ \E k \in Tokens, to \in Lines : MixSend(l, k, to)

Next ==
  \/ Stop \/ Stopped
  \/ \E i \in Inputs : InputQuit(i) \/ InputStop(i)
  \/ \E i \in Inputs, e \in Events, k \in Tokens : Produce(i, e, k)
  \/ \E g \in Gos : Step(g)
  \/ \E l \in Lines : MixStep(l)
  \/ \E c \in Chans : Close(c)

Spec == Init /\ [][Next]_vars

(***************************************************************************)
(* While a goroutine can take a step, some goroutine does.  Inputs owe no   *)
(* event, but return after Stop; nobody has to stop the pipeline.          *)
(***************************************************************************)
Moves ==
  \/ \E g \in Gos : Step(g)
  \/ \E l \in Lines : MixStep(l)
  \/ \E c \in Chans : Close(c)
  \/ \E i \in Inputs : InputStop(i)
  \/ Stopped

Fairness == WF_vars(Moves)

FairSpec == Spec /\ Fairness

-----------------------------------------------------------------------------
(* Properties.                                                             *)

\* The tracker of an event counts its copies: Done never finds the counter at zero
\* ("duty counter less than zero" is a panic), and no copy is forgotten.
DutyIsCopies == \A e \in Events : duty[e] = Cardinality(CopiesOf(e))

\* The hooks of an event run once, after its last copy is gone.
HooksRunOnce ==
  \A e \in Events :
    fired[e] = IF e \in produced /\ CopiesOf(e) = {} THEN 1 ELSE 0

\* Where goroutine g may send next.
MaySend(g) ==
  IF g \in Mixers THEN {LineOut(to, MixStage) : to \in cases[g[2]]} ELSE Sinks[g]

\* Nobody has an event to send on a closed channel, which is a panic.
NoSendOnClosed ==
  \A k \in Tokens : at[k] \in Gos => MaySend(at[k]) \cap closed = {}

\* Every event an input has made is acknowledged, although nobody stops the pipeline.
EventsAcknowledged == \A e \in Events : e \in produced ~> fired[e] > 0

\* A pipeline that is told to stop stops.
Stops == phase = "stopping" ~> phase = "stopped"

\* The pipeline keeps the contract about deliveries.
Contract == INSTANCE DeliveryContract
              WITH alive <- {e \in Events : CopiesOf(e) # {}},
                   acked <- {e \in Events : fired[e] > 0},
                   over <- phase = "stopped"

DeliverySpec == Contract!Spec
=============================================================================
