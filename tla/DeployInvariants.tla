--------------------------- MODULE DeployInvariants ---------------------------
(***************************************************************************)
(* The inductive invariant behind the properties of deploy and teardown,   *)
(* for one terminal: what the command knows at each step of each resource, *)
(* from the answers it has got since it came there, and what is true of    *)
(* the services whatever has died or failed.  LeaveInv and ProbeInv hold   *)
(* in every state of deploy_any, and DeployProofs proves them.             *)
(***************************************************************************)
EXTENDS DeployProperties

\* A command is at rest, resolving the layer, or at a resource.
Somewhere ==
    /\ Cmd.verb = "idle" => Cmd.at = 0
    /\ Cmd.verb # "idle" => Cmd.outcome = "none"
    /\ Cmd.verb # "idle" /\ Cmd.at = 0 => Cmd.step = "layer" /\ Cmd.met = "nothing"
    /\ Cmd.at # 0 => Cmd.step # "layer"

\* Names and comments are not unique, but nothing has been made twice.
OneOfEach ==
    /\ DOMAIN apis = {} \/ \E i \in Ids : DOMAIN apis = {i}
    /\ DOMAIN dists = {} \/ \E i \in Ids : DOMAIN dists = {i}

\* No function lets an API invoke it that is not there.
Granted == \A f \in FunctionNames : function[f].allows \in DOMAIN apis \cup {None}

\* What the services keep to themselves, whoever calls them.
Kept ==
    /\ \A b \in BucketNames : ~bucket[b].there => bucket[b].objects = {}
    /\ bucket["web"].objects \subseteq {"page", "old page"}
    /\ \A r \in RoleNames : role[r].policies \subseteq Policies(r)
    /\ profile.holds => profile.there
    /\ \A f \in FunctionNames : ~function[f].there => function[f] = NoFunction

-----------------------------------------------------------------------------
(* What the command knows past the first step at a resource. *)

KnowsBucket ==
    /\ \A b \in BucketNames : Doing(Me, "apply", Bucket(b), "posture") => bucket[b].there
    /\ \A b \in BucketNames :
          Doing(Me, "teardown", Bucket(b), "delete") => bucket[b].objects \subseteq {"saves"}
    /\ Doing(Me, "apply", WebSync, "prune") => "page" \in bucket["web"].objects

KnowsRole ==
    \A r \in RoleNames :
        /\ Doing(Me, "apply", Role(r), "policies") => role[r].there
        /\ Doing(Me, "teardown", Role(r), "detach") =>
              role[r].there /\ "inline" \notin role[r].policies
        /\ Doing(Me, "teardown", Role(r), "delete") =>
              role[r].there /\ role[r].policies = {}

KnowsProfile ==
    /\ Doing(Me, "apply", Profile, "add") => profile.there /\ ~profile.holds
    /\ Doing(Me, "teardown", Profile, "delete") => profile.there /\ ~profile.holds

KnowsFunction ==
    \A f \in FunctionNames :
        /\ Doing(Me, "apply", Function(f), "create") => ~function[f].there
        /\ Doing(Me, "apply", Function(f), "configuration") =>
              function[f].there /\ function[f].code = "built"

\* Until the command creates an API there is none; then the id it saw is the one.
KnowsApi ==
    /\ Doing(Me, "apply", HttpApi, "create") => DOMAIN apis = {}
    /\ \A f \in FunctionNames :
          /\ Doing(Me, "apply", HttpApi, f) => Cmd.saw \in DOMAIN apis /\ apis[Cmd.saw] = Parts
          /\ Doing(Me, "teardown", HttpApi, f) => Cmd.saw \in DOMAIN apis
    /\ Doing(Me, "teardown", HttpApi, "done") => Cmd.saw \in DOMAIN apis
    /\ Doing(Me, "apply", HttpApi, "webapi") => function["gateway"].allows = Cmd.saw
    /\ Doing(Me, "teardown", HttpApi, "webapi") => function["gateway"].allows = None
    /\ Doing(Me, "teardown", HttpApi, "done") =>
          \A f \in FunctionNames : function[f].allows = None

\* The origin access control first, then the distribution, then those that name it.
KnowsCdn ==
    /\ \A s \in {"find", "converge", "policy", "cors", "wait"} :
          Doing(Me, "apply", Cdn, s) => oac
    /\ \A s \in {"converge", "policy", "cors", "wait"} :
          Doing(Me, "apply", Cdn, s) => Cmd.saw \in DOMAIN dists
    /\ \A s \in {"policy", "cors", "wait"} :
          Doing(Me, "apply", Cdn, s) => dists[Cmd.saw].host \in DOMAIN apis
    /\ \A s \in {"cors", "wait"} :
          Doing(Me, "apply", Cdn, s) => bucket["web"].names = Cmd.saw
    /\ Doing(Me, "apply", Cdn, "wait") => bucket["data"].names = Cmd.saw
    /\ \A s \in {"wait", "delete"} :
          Doing(Me, "teardown", Cdn, s) => Cmd.saw \in DOMAIN dists /\ ~dists[Cmd.saw].enabled
    /\ Doing(Me, "teardown", Cdn, "oac") => DOMAIN dists = {}

Knows ==
    KnowsBucket /\ KnowsRole /\ KnowsProfile /\ KnowsFunction /\ KnowsApi /\ KnowsCdn

\* The parts that hold together.
StackInv == TypeOK /\ Somewhere /\ OneOfEach /\ Granted /\ Kept /\ Knows

-----------------------------------------------------------------------------
(* Why a run that meets no mishap does not fail. *)

\* An apply has only whole resources behind it, a teardown without an error none at all.
Behind ==
    /\ Cmd.verb = "apply" =>
          \A i \in DOMAIN Resources : i < Cmd.at => Whole(Resources[i])
    /\ Cmd.verb = "teardown" /\ Walking /\ Cmd.met = "nothing" =>
          \A i \in DOMAIN Resources :
              i > Cmd.at /\ Resources[i] # WebSync => Absent(Resources[i])

\* So nothing is ever refused to a command that has not met a mishap.
NeverRefused ==
    /\ Cmd.met # "refusal"
    /\ Cmd.outcome \in {"apply failed", "teardown failed"} => Cmd.met = "mishap"

\* What a command reports is so until something else is built or another command runs.
Reported ==
    /\ Cmd.outcome = "applied" => \A i \in DOMAIN Resources : Whole(Resources[i])
    /\ Cmd.outcome = "applied bare" =>
          \A i \in DOMAIN Resources : Resources[i] # WebSync => Whole(Resources[i])
    /\ Cmd.outcome = "torn down" =>
          \A i \in DOMAIN Resources : Resources[i] # WebSync => Absent(Resources[i])

\* The parts that hold together.
LeaveInv == StackInv /\ Behind /\ NeverRefused /\ Reported

-----------------------------------------------------------------------------
(* Why the layer that is resolved is the newest, for any number of terminals. *)

\* What the two loops keep: lo can be attached; while doubling hi is its double, while
\* halving hi cannot be attached and lies above.
ProbeInv ==
    /\ lo \in Nat \ {0}
    /\ hi \in Nat
    /\ phase = "doubling" => Available(lo) /\ hi = 2 * lo
    /\ phase = "halving"  => Available(lo) /\ ~Available(hi) /\ lo < hi
    /\ phase = "resolved" => Available(lo) /\ ~Available(lo + 1)
    /\ phase = "first"    => lo = 1 /\ hi = 2

=============================================================================
