---------------------------- MODULE MCGrpcRouter ------------------------------
(* The server of the gRPC output with few streams and events.              *)
EXTENDS GrpcRouter, TLC

CONSTANTS r1, r2, c1, c2

Symmetry == Permutations(Clients)
=============================================================================
