------------------------------- MODULE MCIngest -------------------------------
(* The inputs with two attempts on one request of two rows: each of them     *)
(* alone, and the unary server of gRPC before each of the processors, which  *)
(* makes a queue of two events before a processor.                           *)
EXTENDS Ingest

CONSTANTS a1, a2, r1

Alone  == {<<k, None>> : k \in Kinds}
Single == {"unary"} \X P!AllProcessors

MCLines == Alone \cup Single
=============================================================================
