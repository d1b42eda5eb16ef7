---------------------------- MODULE RunLifecycle ----------------------------
(***************************************************************************)
(* What one task evaluation promises to the suite that awaits it, whatever *)
(* the agent, the log directory and the database do: the run row goes from *)
(* absent to RUNNING to one terminal status, the trajectory is written     *)
(* while the run is RUNNING, and an evaluation that returns leaves a       *)
(* terminal row that says PASS exactly when a trajectory is stored.  An    *)
(* evaluation that raises may leave the session half written: the suite's  *)
(* transaction is then rolled back by its owner.                           *)
(***************************************************************************)
VARIABLES
    row,     \* status in the run's row: "none" before the first save
    stored,  \* is there a trajectory row for the run?
    ended    \* "no", or how the evaluation ended: "returned" or "raised"

vars == <<row, stored, ended>>

Rows == {"none", "RUNNING", "PASS", "ERROR"}

Init == row = "none" /\ stored = FALSE /\ ended = "no"

\* The row is inserted as RUNNING before the agent is started.
Begin == /\ ended = "no" /\ row = "none"
         /\ row' = "RUNNING"
         /\ UNCHANGED <<stored, ended>>

\* The trajectory of an agent that finished in time is written.
Store == /\ ended = "no" /\ row = "RUNNING" /\ ~stored
         /\ stored' = TRUE
         /\ UNCHANGED <<row, ended>>

\* The terminal status is written and the evaluation returns.
Return == /\ ended = "no" /\ row = "RUNNING"
          /\ row' = IF stored THEN "PASS" ELSE "ERROR"
          /\ ended' = "returned"
          /\ UNCHANGED stored

\* Something outside the agent failed: the evaluation raises.
Raise == /\ ended = "no"
         /\ ended' = "raised"
         /\ UNCHANGED <<row, stored>>

Next == Begin \/ Store \/ Return \/ Raise

Spec == Init /\ [][Next]_vars /\ WF_vars(Next)
=============================================================================
