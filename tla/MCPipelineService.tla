-------------------------- MODULE MCPipelineService --------------------------
(* Small instances of PipelineService for TLC. *)
EXTENDS PipelineService, TLC

CONSTANTS x1, x2, x3, o1, o2, o3, o4, o5, m1, m2, m3, i1, i2, v1, v2

\* Who calls what.
StartAndStop   == [x \in Callers |-> {"start", "stop"}]
StartAndUpdate == [x \in Callers |-> {"start", "update"}]
\* One operator runs pipelines while one editor changes them.
OperatorAndEditor ==
  [x \in Callers |-> IF x = x1 THEN {"start", "stop", "add"} ELSE {"update", "delete"}]

\* Clients are interchangeable only where they call the same.
Symmetry == Permutations(Objs) \cup Permutations(Mutexes) \cup Permutations(Versions)
=============================================================================
