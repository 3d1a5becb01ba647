--------------------------- MODULE PipelineContract ---------------------------
(***************************************************************************)
(* What the service promises of each pipeline, whoever calls it: while the *)
(* process is up a pipeline runs or it does not; it begins to run only     *)
(* when nothing of it runs, and it ends only after it was cancelled.  When *)
(* the process is down nothing runs.                                       *)
(***************************************************************************)
CONSTANT Ids
VARIABLES up,     \* the process exists
          mode    \* mode[i] of pipeline i

vars == <<up, mode>>

NothingRuns == [i \in Ids |-> "idle"]

Init == up = FALSE /\ mode = NothingRuns

Move(i, from, to) ==
  /\ up /\ UNCHANGED up
  /\ mode[i] = from
  /\ mode' = [mode EXCEPT ![i] = to]

Begin(i)  == Move(i, "idle", "active")
Cancel(i) == Move(i, "active", "ending")
End(i)    == Move(i, "ending", "idle")

Up   == ~up /\ up' = TRUE /\ UNCHANGED mode
Down == up /\ up' = FALSE /\ mode' = NothingRuns

Next == Up \/ Down \/ \E i \in Ids : Begin(i) \/ Cancel(i) \/ End(i)

Spec == Init /\ [][Next]_vars
=============================================================================
