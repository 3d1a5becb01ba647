----------------------------- MODULE MCEventFlow -----------------------------
(* Instances of EventFlow for TLC. *)
EXTENDS EventFlow, TLC

CONSTANTS i1, i2, l1, l2, e1, e2, t1, t2, t3, t4

\* The inputs, lines, events and tokens are interchangeable; the outputs are not.
Symmetry == Permutations(Inputs) \cup Permutations(Lines)
              \cup Permutations(Events) \cup Permutations(Tokens)
=============================================================================
