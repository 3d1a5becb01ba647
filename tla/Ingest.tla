-------------------------------- MODULE Ingest --------------------------------
(***************************************************************************)
(* An input and the processor behind it.  What the sender is told depends  *)
(* on both: the input waits for the hooks of its events, and these run     *)
(* when the processor has handed on or dropped each event and each copy it *)
(* made of it, and the pipeline is done with all of them.                  *)
(*                                                                         *)
(* Where proc is None nothing is known of what is behind the input: the    *)
(* events are delivered at some time (Deliver of Inputs).                  *)
(***************************************************************************)
EXTENDS Inputs

CONSTANTS
  Lines,      \* inputs with the processor behind them: pairs, to check
  MaxCopies,  \* copies a processor makes of an event (a bound)
  Careless    \* scripts may lose events that share the tracker, or return one twice

ASSUME IngestAssumption ==
  MaxCopies \in Nat \ {0} /\ Careless \in BOOLEAN

VARIABLES proc, cur, plan, hand, duty, away, wrong, told

processor == <<proc, cur, plan, hand, duty, away, wrong, told>>

P == INSTANCE Processors WITH Items <- Tries \X Rows

\* A row is something else than no row, and a line ends in a processor or nowhere.
ASSUME LinesAssumption ==
  /\ None \notin Tries \X Rows
  /\ Lines \subseteq AllKinds \X (P!AllProcessors \cup {None})

IngestInit ==
  /\ Init /\ P!Init
  /\ proc \in {p \in {line[2] : line \in Lines} : <<kind, p>> \in Lines /\ (p # None => wait)}

\* The input sends an event to the processor.
Taken(a, i) ==
  /\ proc # None /\ fate[a][i] = "flying"
  /\ P!Take(<<a, i>>)
  /\ UNCHANGED vars

Worked == P!Work /\ UNCHANGED vars

\* One copy is done; with the last one the hook of the input runs.
Done(a, i) ==
  /\ P!Done(<<a, i>>)
  /\ IF P!LastCopy(<<a, i>>) THEN Deliver(a, i) ELSE UNCHANGED vars

Delivered(a, i) == proc = None /\ Deliver(a, i) /\ UNCHANGED processor

InputStep ==
  \/ PluginInit \/ RunStarts \/ RunReturns \/ StopCalled \/ StopReturns \/ Close
  \/ \E a \in Tries : Serve(a)

IngestNext ==
  \/ InputStep /\ UNCHANGED processor
  \/ Worked
  \/ \E a \in Tries, i \in Rows : Taken(a, i) \/ Done(a, i) \/ Delivered(a, i)

ingest == <<vars, processor>>

IngestSpec == IngestInit /\ [][IngestNext]_ingest

(***************************************************************************)
(* The goroutines of the input as in Inputs; the processor goes on, and    *)
(* the pipeline behind it is done with every copy it is given.             *)
(***************************************************************************)
IngestFairness ==
  /\ ServerFairness
  /\ WF_ingest(Worked)
  /\ WF_ingest(\E a \in Tries, i \in Rows : Taken(a, i))
  /\ \A a \in Tries, i \in Rows : WF_ingest(Done(a, i)) /\ WF_ingest(Delivered(a, i))

FairIngest == IngestSpec /\ IngestFairness

-----------------------------------------------------------------------------
(* Properties.                                                             *)

\* The processor hands on each event and each copy of it once, marks what failed, and
\* does nothing to what it has handed on.
HandedOn == P!HandedOn
=============================================================================
