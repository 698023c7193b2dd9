----------------------------- MODULE MCRetention -----------------------------
(* Constants for the model-checked instances of Retention. *)
EXTENDS Retention, TLC

CONSTANTS v1, v2, v3

MCVisit == {v1, v2, v3}
\* Two rows in the first month, one in the second.
MCMonthOf == (v1 :> 1) @@ (v2 :> 1) @@ (v3 :> 2)
MCTwoVisits == {v1, v2}
MCOneMonth == (v1 :> 1) @@ (v2 :> 1)

=============================================================================
