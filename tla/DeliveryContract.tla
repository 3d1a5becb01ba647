-------------------------- MODULE DeliveryContract --------------------------
(***************************************************************************)
(* What a pipeline promises about an event an input hands to it: the       *)
(* delivery hooks run once, at the moment nothing in the pipeline holds    *)
(* the event or a copy of it any more, and a pipeline that has stopped     *)
(* holds no event.                                                         *)
(***************************************************************************)
CONSTANT Events

VARIABLES
  alive,     \* events of which the pipeline holds a copy
  acked,     \* events whose hooks have run
  over       \* the pipeline has stopped

vars == <<alive, acked, over>>

Init == alive = {} /\ acked = {} /\ over = FALSE

Accept(e) ==
  /\ ~over /\ e \notin alive \cup acked
  /\ alive' = alive \cup {e}
  /\ UNCHANGED <<acked, over>>

Acknowledge(e) ==
  /\ e \in alive
  /\ alive' = alive \ {e}
  /\ acked' = acked \cup {e}
  /\ UNCHANGED over

Finish ==
  /\ alive = {}
  /\ over' = TRUE
  /\ UNCHANGED <<alive, acked>>

Next == Finish \/ \E e \in Events : Accept(e) \/ Acknowledge(e)

Spec == Init /\ [][Next]_vars
=============================================================================
