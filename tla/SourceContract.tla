---------------------------- MODULE SourceContract ----------------------------
(***************************************************************************)
(* What an input with acknowledgements promises to its broker: a message   *)
(* is confirmed, so that the broker does not send it again, only after the *)
(* pipeline has handled it (every event made of it was delivered, or none  *)
(* was made), whatever fails or crashes; a confirmation is never taken     *)
(* back.                                                                   *)
(***************************************************************************)
CONSTANT Messages

VARIABLES
  handled,    \* messages the pipeline has handled at least once
  confirmed   \* messages the broker considers done

vars == <<handled, confirmed>>

Init == handled = {} /\ confirmed = {}

Handle(m) ==
  /\ m \in Messages
  /\ handled' = handled \cup {m}
  /\ UNCHANGED confirmed

Confirm(S) ==
  /\ S \subseteq handled
  /\ confirmed' = confirmed \cup S
  /\ UNCHANGED handled

\* The report of the last event of a message confirms it at once.
HandleAndConfirm(m) ==
  /\ m \in Messages
  /\ handled' = handled \cup {m} /\ confirmed' = confirmed \cup {m}

Next ==
  \/ \E m \in Messages : Handle(m) \/ HandleAndConfirm(m)
  \/ \E S \in SUBSET Messages : Confirm(S)

Spec == Init /\ [][Next]_vars
=============================================================================
