------------------------------ MODULE MCOutputs ------------------------------
(* Instances of Outputs for TLC. *)
EXTENDS Outputs, TLC

CONSTANTS e1, e2, e3, k1, k2, w1, w2, w3

\* Endless attempts; two attempts and a fallback; a buffer of zero.
Some == {[buffer |-> 2, attempts |-> 0, fallbacks |-> 0],
         [buffer |-> 2, attempts |-> 2, fallbacks |-> 1],
         [buffer |-> 0, attempts |-> 1, fallbacks |-> 0]}

\* Endless attempts only.
Endless == {[buffer |-> 2, attempts |-> 0, fallbacks |-> 0]}
=============================================================================
