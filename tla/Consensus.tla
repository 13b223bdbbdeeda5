------------------------------ MODULE Consensus -----------------------------
(***************************************************************************)
(* What a consensus protocol promises its learners: at most one value is    *)
(* ever chosen, and it was proposed.                                        *)
(***************************************************************************)
CONSTANT Values

VARIABLE chosen

Init == chosen = {}

Choose(v) == chosen = {} /\ chosen' = {v}

Next == \E v \in Values : Choose(v)

Spec == Init /\ [][Next]_chosen
=============================================================================
