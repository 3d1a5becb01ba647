---------------------------- MODULE MCRabbitInput -----------------------------
(* The RabbitMQ input with the second message of the first queue broken.   *)
EXTENDS RabbitInput

CONSTANTS q1, q2

Second == {<<q1, 2>>}
=============================================================================
