----------------------------- MODULE MCApprovals -----------------------------
(* Instances of Approvals for TLC.                                           *)
EXTENDS Approvals, TLC

CONSTANTS p1, p2, slack, dash, k1, k2

OneProposer   == {p1}
TwoProposers  == {p1, p2}
Slack         == {slack}
Dash          == {dash}
Nobody        == {}
OneKey        == {k1}
TwoKeys       == {k1, k2}
Ambiguous     == {"delivered", "unknown"}
OnlyDelivered == {"delivered"}
Definite      == {"delivered", "undelivered"}

Interchangeable == Permutations(TwoProposers)

(* Two processes that decide on the rows of one proposer, or two proposers   *)
(* whose rows nobody decides.                                               *)
OneProposes ==
    /\ Cardinality(Created) < MaxActions
    /\ \A p, q \in Proposer : p = q \/ pc[p] = "idle" \/ pc[q] = "idle"

NobodyDecides ==
    /\ \A d \in Decider : verdict[d] = "none"
    /\ \A a \in Action : status[a] \notin {"approved", "applied", "rejected"}

CrowdSpec == Init /\ [][Next /\ (OneProposes \/ NobodyDecides)']_vars
=============================================================================
