------------------------------- MODULE MCDeploy -------------------------------
(* Instances of the deploy commands for TLC. *)
EXTENDS DeployInvariants

\* Resources of a kind that another one of the kind stands for.
Spares == {<<"role", "gateway">>, <<"logs", "webapi">>, <<"logs", "api">>}

Needed == SelectSeq(AllResources, LAMBDA r : r \notin Spares)

\* A name of its own: TLC works out Needed once, what replaces a constant at every use.
Twelve == Needed

\* No layer in the region, three versions, and more than the probe tries.
Published == {{}, 1 .. 3, 1 .. 4}

NotPublished == {{}}
=============================================================================
