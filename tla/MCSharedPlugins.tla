--------------------------- MODULE MCSharedPlugins ----------------------------
(* Two pipelines that write zstd.  The first one has two lines that look   *)
(* for duplicates and count; the second one has a plugin of each other     *)
(* kind of sharing.                                                        *)
EXTENDS SharedPlugins, TLC

CONSTANTS p1, p2, e1, e2, e3

Shape(s, r, f) == [shares |-> s, closes |-> TRUE, global |-> FALSE, fails |-> f, runs |-> r]
Codec(f) == [shares |-> "lend", closes |-> TRUE, global |-> TRUE, fails |-> f, runs |-> "none"]

MCTypes ==
  "plain"            :> Shape("none", "none", FALSE) @@
  "lookup"           :> Shape("none", "none", FALSE) @@
  "glob"             :> Shape("none", "none", TRUE) @@
  "zstd_writer"      :> Codec(FALSE) @@
  "zstd_reader"      :> Codec(FALSE) @@
  "deduplicate"      :> Shape("ping", "deduplicate", FALSE) @@
  "redis"            :> Shape("ping", "call", FALSE) @@
  "stats"            :> Shape("stats", "stats", FALSE) @@
  "dynamic_template" :> Shape("templates", "template", FALSE)

Zstd(n)   == [name |-> n, type |-> "zstd_writer"]
Not(f)    == [name |-> "not", type |-> "not", filters |-> <<f>>]
Sink(n)   == [Plugin(n, "plain") EXCEPT
               !.serializer = Callable("json_of_" \o n, "plain", Zstd("zstd_of_" \o n))]

First ==
  [lines |-> 2, keykeepers |-> <<>>,
   lookups |-> <<Plugin("codes", "lookup")>>,
   inputs |-> <<[Plugin("source", "plain") EXCEPT !.lookup = "codes"]>>,
   processors |-> <<Plugin("dedup", "deduplicate"), Plugin("count", "stats")>>,
   outputs |-> <<[Sink("sink") EXCEPT !.filters = <<Not(Plugin("wanted", "glob"))>>]>>]

Second ==
  [lines |-> 1, keykeepers |-> <<>>, lookups |-> <<>>,
   inputs |-> <<[Plugin("other", "plain") EXCEPT !.parser = Callable("json_of_other", "plain", Absent)]>>,
   processors |-> <<Plugin("render", "dynamic_template"), Plugin("cache", "redis")>>,
   outputs |-> <<Sink("copy")>>]

MCConfig == p1 :> First @@ p2 :> Second
MCEvents == p1 :> {e1, e2} @@ p2 :> {e3}
MCStarts == [p \in Pipes |-> 1]
MCAttempts == [p \in Pipes |-> IF p = p1 THEN 2 ELSE 1]
MCKeyOf  == e1 :> "a" @@ e2 :> "a" @@ e3 :> "b"
=============================================================================
