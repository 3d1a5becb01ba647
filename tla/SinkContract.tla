----------------------------- MODULE SinkContract -----------------------------
(***************************************************************************)
(* What an output promises to the unit in front of it: each event it is    *)
(* given is reported done once, after whatever retries it takes, and when  *)
(* its Run returns it owes no report (the unit closes the channel of the   *)
(* reports then).                                                          *)
(***************************************************************************)
EXTENDS Naturals

CONSTANT Items

VARIABLES
  held,      \* events given to the output and not reported yet
  reports,   \* reports[e]: how often e was reported done
  over       \* Run has returned

vars == <<held, reports, over>>

Init == held = {} /\ reports = [e \in Items |-> 0] /\ over = FALSE

Accept(e) ==
  /\ ~over /\ e \notin held /\ reports[e] = 0
  /\ held' = held \cup {e}
  /\ UNCHANGED <<reports, over>>

Report(e) ==
  /\ ~over /\ e \in held
  /\ held' = held \ {e}
  /\ reports' = [reports EXCEPT ![e] = @ + 1]
  /\ UNCHANGED over

Finish ==
  /\ ~over /\ held = {}
  /\ over' = TRUE
  /\ UNCHANGED <<held, reports>>

Next == Finish \/ \E e \in Items : Accept(e) \/ Report(e)

Spec == Init /\ [][Next]_vars
=============================================================================
