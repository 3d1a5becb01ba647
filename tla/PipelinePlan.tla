---------------------------- MODULE PipelinePlan ------------------------------
(***************************************************************************)
(* In which order a pipeline creates and closes its plugins.               *)
(*                                                                         *)
(* A configuration is a record of sequences of plugins.  Build goes        *)
(* through them kind by kind; a plugin comes with the callable plugins it  *)
(* calls, which are created before it, and with its filters, which are     *)
(* created after it.  What Build creates is a sequence of groups: a group  *)
(* is added to the sets of the pipeline as a whole, when its last plugin   *)
(* is there, and Close goes through those sets.                            *)
(***************************************************************************)
EXTENDS Integers, FiniteSetsExt, SequencesExt

CONSTANTS
  Pipes,   \* the pipelines
  Config,  \* Config[p]: lines, and the plugins of p by kind
  Absent   \* a part that a configuration does not have

(* Constructors of a configuration.  The defaults of a plugin are those of *)
(* the accessors of config.Plugin: a key that is absent, or has another    *)
(* type, is the zero value.                                                *)
Plugin(n, t) ==
  [name |-> n, type |-> t, lookup |-> Absent, serializer |-> Absent,
   parser |-> Absent, filters |-> <<>>]

Callable(n, t, codec) == [name |-> n, type |-> t, codec |-> codec]

(* An instance of a plugin.  A processor has one in each line; the others  *)
(* are of line 0.                                                          *)
Instance(p, x, line) ==
  [pipe |-> p, name |-> x.name, type |-> x.type, line |-> line,
   lookup |-> IF "lookup" \in DOMAIN x THEN x.lookup ELSE Absent]

(* A serializer is created before its compressor, a parser before its      *)
(* decompressor: neither is closed when the other one fails.               *)
Serializer(p, x, l) ==
  CASE x.serializer = Absent       -> <<>>
    [] x.serializer.codec = Absent -> <<Instance(p, x.serializer, l)>>
    [] OTHER -> <<Instance(p, x.serializer, l), Instance(p, x.serializer.codec, l)>>

Parser(p, x, l) ==
  CASE x.parser = Absent       -> <<>>
    [] x.parser.codec = Absent -> <<Instance(p, x.parser, l)>>
    [] OTHER -> <<Instance(p, x.parser, l), Instance(p, x.parser.codec, l)>>

Callables(p, x, l) == Serializer(p, x, l) \o Parser(p, x, l)

(* A "not" filter stands for the filters it wraps.                         *)
Unwrapped(x) ==
  FlattenSeq([k \in DOMAIN x.filters |->
    IF x.filters[k].type = "not" THEN x.filters[k].filters ELSE <<x.filters[k]>>])

Filters(p, x, l) == [k \in DOMAIN Unwrapped(x) |-> Instance(p, Unwrapped(x)[k], l)]

(* Everything that is created for a plugin.                                *)
Whole(p, x, l) == Callables(p, x, l) \o <<Instance(p, x, l)>> \o Filters(p, x, l)

(* The groups, kind by kind.  The processors of a line are one group.      *)
Keykeepers(p) == [k \in DOMAIN Config[p].keykeepers |-> <<Instance(p, Config[p].keykeepers[k], 0)>>]

Lookups(p) ==
  [k \in DOMAIN Config[p].lookups |->
    Callables(p, Config[p].lookups[k], 0) \o <<Instance(p, Config[p].lookups[k], 0)>>]

Inputs(p)  == [k \in DOMAIN Config[p].inputs |-> Whole(p, Config[p].inputs[k], 0)]

Lines(p) == 0 .. Config[p].lines - 1

Processors(p) ==
  [n \in 1 .. Config[p].lines |->
    FlattenSeq([k \in DOMAIN Config[p].processors |-> Whole(p, Config[p].processors[k], n - 1)])]

Outputs(p) == [k \in DOMAIN Config[p].outputs |-> Whole(p, Config[p].outputs[k], 0)]

Plan(p) == Keykeepers(p) \o Lookups(p) \o Inputs(p) \o Processors(p) \o Outputs(p)

(* Close of the first g groups of the plan: keykeepers, inputs, lines,     *)
(* outputs and, at last, lookups.  A plugin closes the callable plugins it *)
(* calls, the codec first.  The filters of an input are closed after it,   *)
(* those of a processor or an output before it.                            *)
Closed(p, x, l) == <<Instance(p, x, l)>> \o Reverse(Callables(p, x, l))

CloseInputs(p) ==
  [k \in DOMAIN Config[p].inputs |->
    Closed(p, Config[p].inputs[k], 0) \o Filters(p, Config[p].inputs[k], 0)]

CloseProcessors(p) ==
  [n \in 1 .. Config[p].lines |->
    FlattenSeq([k \in DOMAIN Config[p].processors |->
      Filters(p, Config[p].processors[k], n - 1) \o Closed(p, Config[p].processors[k], n - 1)])]

CloseOutputs(p) ==
  [k \in DOMAIN Config[p].outputs |->
    Filters(p, Config[p].outputs[k], 0) \o Closed(p, Config[p].outputs[k], 0)]

CloseLookups(p) == [k \in DOMAIN Config[p].lookups |-> Closed(p, Config[p].lookups[k], 0)]

(* What is closed of a kind when the groups of the kinds before it are     *)
(* "before" many, and g groups were added.                                 *)
Added(groups, before, g) == FlattenSeq(SubSeq(groups, 1, Min({Len(groups), g - before})))

ClosePlan(p, g) ==
  LET k == Len(Keykeepers(p))
      l == k + Len(Lookups(p))
      i == l + Len(Inputs(p))
      n == i + Len(Processors(p))
  IN  Added(Keykeepers(p), 0, g) \o Added(CloseInputs(p), l, g) \o Added(CloseProcessors(p), i, g)
      \o Added(CloseOutputs(p), n, g) \o Added(CloseLookups(p), k, g)
----------------------------------------------------------------------------
(* Plugins, and the filters of those that have some, are lists.  A line    *)
(* without a processor would be a group without a plugin: pipelines have   *)
(* processors here.                                                        *)
ASSUME ConfigAssumption ==
  \A p \in Pipes :
    /\ Config[p].lines \in Nat /\ Config[p].processors # <<>>
    /\ \A s \in {Config[p].keykeepers, Config[p].lookups, Config[p].inputs,
               Config[p].processors, Config[p].outputs} : s \in Seq(Range(s))
    /\ \A s \in {Config[p].inputs, Config[p].processors, Config[p].outputs} : \A x \in Range(s) :
         /\ x.filters \in Seq(Range(x.filters))
         /\ \A f \in Range(x.filters) : f.type = "not" => f.filters \in Seq(Range(f.filters))

(* Every plugin that a pipeline creates has an identifier of its own.      *)
ASSUME NameAssumption ==
  \A p \in Pipes : \A g, h \in DOMAIN Plan(p) : \A m \in DOMAIN Plan(p)[g], n \in DOMAIN Plan(p)[h] :
    Plan(p)[g][m] = Plan(p)[h][n] => g = h /\ m = n
=============================================================================
