------------------------------ MODULE MCWebLoop ------------------------------
(***************************************************************************)
(* The deployed loop on small instances: up to three plans.  Cheap climbs  *)
(* to its second rung and cannot pay its third; Dear is above its envelope *)
(* with its first rung alone; Again answers the question Cheap answered,   *)
(* and Cedar denies its second rung.                                       *)
(***************************************************************************)
EXTENDS WebLoopInvariants, TLC

CONSTANTS Cheap, Dear, Again, q1, q2

\* A run takes some of the plans.
OfPlans(f) == [p \in Plans |-> f[p]]

Question  == OfPlans(Cheap :> q1 @@ Dear :> q2 @@ Again :> q1)
Heights   == OfPlans(Cheap :> 3 @@ Dear :> 2 @@ Again :> 2)
Envelopes == OfPlans(Cheap :> 4 @@ Dear :> 2 @@ Again :> 4)

Costs == OfPlans(
    Cheap :> (0 :> 1 @@ 1 :> 2 @@ 2 :> 2)
      @@ Dear :> (0 :> 3 @@ 1 :> 4)
      @@ Again :> (0 :> 1 @@ 1 :> 1))

DeniedRung == {<<Again, 1>>}

\* The bound on cards is never what stops the page.
CardsSuffice == \E c \in CardIds : ui[c] = "none"
=============================================================================
