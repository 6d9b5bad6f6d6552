------------------------------- MODULE MCHandoff -------------------------------
(***************************************************************************)
(* One session.  The limits keep the order they have in the code: poll 3 s, *)
(* read timeout 30 s, worker's wait 120 s, and the page's patience long     *)
(* enough for a trace; the idle window is the shortest the code allows.     *)
(***************************************************************************)
EXTENDS HandoffProperties

\* Of the activations and the graph a bundle of 5 holds only one, and the result.
Sizes == [k \in Keys |-> IF k = "result.json" THEN 1 ELSE 3]

=============================================================================
