---------------------------- MODULE MCSuiteMetrics ----------------------------
EXTENDS SuiteMetrics

(* A fast run, a slow and costly one with a tool error, and one that timed out. *)
FastSlowTimeout ==
    {[status |-> "PASS",  ms |-> 5000,  tokens |-> 1000,   steps |-> 4, toolErrors |-> 0],
     [status |-> "PASS",  ms |-> 59000, tokens |-> 900000, steps |-> 4, toolErrors |-> 1],
     [status |-> "ERROR", ms |-> 60010, tokens |-> 0,      steps |-> 0, toolErrors |-> 0]}
=============================================================================
