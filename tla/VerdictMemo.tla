----------------------------- MODULE VerdictMemo -----------------------------
(***************************************************************************)
(* What the judge promises of its memory, however requests overlap: an     *)
(* answer is computed for its request or recalls the verdict that was      *)
(* computed last under the same key; the memory may forget a key at any    *)
(* computation, and never holds two verdicts of one.                       *)
(***************************************************************************)
CONSTANTS
    Keys,       \* what verdicts are remembered under
    Verdicts,   \* what a strategy computes
    KeyOf(_)    \* the key of a request

VARIABLES
    known,  \* per key, the verdicts remembered: none or one
    reply   \* the request answered last, its verdict, and where it came from

vars == <<known, reply>>

Nothing == [k \in Keys |-> {}]

Init == known = Nothing /\ reply.from = "nowhere"

Compute == /\ reply'.from = "strategy" /\ reply'.verdict \in Verdicts
           /\ known'[KeyOf(reply'.request)] = {reply'.verdict}
           /\ \A k \in Keys \ {KeyOf(reply'.request)} : known'[k] \in {known[k], {}}

Recall == /\ reply'.from = "cache"
          /\ reply'.verdict \in known[KeyOf(reply'.request)]
          /\ UNCHANGED known

Refuse == reply'.from = "budget" /\ UNCHANGED known

Clear == known' = Nothing /\ UNCHANGED reply

Next == Compute \/ Recall \/ Refuse \/ Clear

Spec == Init /\ [][Next]_vars
=============================================================================
