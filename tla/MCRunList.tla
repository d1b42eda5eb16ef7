----------------------------- MODULE MCRunList -----------------------------
(***************************************************************************)
(* The times of the runs for the model checker.                            *)
(***************************************************************************)
EXTENDS RunList

(* Each run starts at its own number. *)
MCStarted == [r \in RunIds |-> r]
=============================================================================
