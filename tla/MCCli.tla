-------------------------------- MODULE MCCli --------------------------------
(***************************************************************************)
(* A run of the command with three possible plans: Tall has three rungs,   *)
(* all inside the envelope; Expert has one and no room for another; Steep  *)
(* has two, on hardware Cedar may deny from the second rung on.            *)
(***************************************************************************)
EXTENDS CliInvariants, TLC

CONSTANTS Tall, Expert, Steep

Question  == [p \in Plans |-> p]
Heights   == Tall :> 3 @@ Expert :> 1 @@ Steep :> 2
Envelopes == Tall :> 9 @@ Expert :> 1 @@ Steep :> 9

Costs == Tall :> (0 :> 1 @@ 1 :> 3 @@ 2 :> 5)
      @@ Expert :> (0 :> 2)
      @@ Steep :> (0 :> 1 @@ 1 :> 2)

DeniedRung == {<<Steep, 1>>}
=============================================================================
