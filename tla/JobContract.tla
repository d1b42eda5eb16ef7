---------------------------- MODULE JobContract ----------------------------
(***************************************************************************)
(* What an accepted eval job promises its client, whatever worker runs it, *)
(* how often and with what failures: suites appear in the database whole   *)
(* or not at all and are never withdrawn, and the result a client can read *)
(* summarises a suite that is already there.  Nothing is promised of how   *)
(* many suites a job leaves: delivery is at least once.                    *)
(***************************************************************************)
CONSTANTS
    Jobs,        \* job ids
    Suites,      \* the suites a job can leave in the database
    Summary(_)   \* the result a suite is summarised to

VARIABLES
    accepted,  \* jobs the API has answered 202 for
    suites,    \* per job, the suites committed for it
    results    \* per job, the results that can be read: none or one

vars == <<accepted, suites, results>>

Init == /\ accepted = {}
        /\ suites = [j \in Jobs |-> {}]
        /\ results = [j \in Jobs |-> {}]

Accept(j) == /\ j \notin accepted
             /\ accepted' = accepted \union {j}
             /\ UNCHANGED <<suites, results>>

CommitSuite(j) == /\ j \in accepted
                  /\ \E s \in suites'[j] :
                        /\ s \in Suites
                        /\ suites' = [suites EXCEPT ![j] = @ \union {s}]
                  /\ UNCHANGED <<accepted, results>>

Publish(j) == /\ \E s \in suites[j] : results' = [results EXCEPT ![j] = {Summary(s)}]
              /\ UNCHANGED <<accepted, suites>>

Expire(j) == /\ results' = [results EXCEPT ![j] = {}]
             /\ UNCHANGED <<accepted, suites>>

Next == \E j \in Jobs : Accept(j) \/ CommitSuite(j) \/ Publish(j) \/ Expire(j)

Spec == Init /\ [][Next]_vars
=============================================================================
