--------------------------- MODULE DeployProperties ---------------------------
(***************************************************************************)
(* What makes `foray deploy` and `foray teardown` correct.                 *)
(***************************************************************************)
EXTENDS DeployStack

\* The command of the one terminal, for the properties about a single command.
Me == CHOOSE o \in Operators : TRUE
Cmd == run[Me]

Walking == Cmd.at # 0

StateOf(r) == CASE Absent(r) -> "absent"
                [] Whole(r)  -> "whole"
                [] OTHER     -> "partial"

\* What the abstract walk is of this one: the command while it is at a resource, an
\* error whatever it was, a report of success, and each resource as it looks.
Asked  == IF Walking THEN Cmd.verb ELSE "idle"
Noted  == IF Walking /\ Cmd.met # "nothing" THEN "error" ELSE "nothing"
Report == CASE Cmd.outcome = "applied"      -> "applied"
            [] Cmd.outcome = "applied bare" -> "bare"
            [] Cmd.outcome = "torn down"    -> "removed"
            [] OTHER                        -> "none"
Seen   == [i \in DOMAIN Resources |-> StateOf(Resources[i])]

D == INSTANCE Deployer WITH
        N       <- Len(Resources),
        Riders  <- {i \in DOMAIN Resources : Resources[i][1] = "sync"},
        verb    <- Asked,
        at      <- Cmd.at,
        met     <- Noted,
        outcome <- Report,
        state   <- Seen

\* Apply and Teardown over the real resources are the abstract walk: no ensure spoils a
\* resource before it, every ensure that returns leaves its resource whole (the page's, or
\* says that there was nothing to upload), every remove that returns leaves it gone, and nothing a teardown took away comes back behind it.
ImplementsDeployer == D!Spec

\* "control plane up": whatever was there before, whatever call failed in earlier runs,
\* every resource is there, configured and wired to the others, and the web bucket holds
\* the page and nothing older, unless the report says there was nothing to upload: then
\* what it holds is what it held.
AppliedIsWhole == D!AppliedIsWhole

\* "control plane down": no resource is left, the page in the web bucket included.
TornDownIsEmpty == D!TornDownIsEmpty /\ (Cmd.outcome = "torn down" => PageAbsent)

\* Re-running is always the way out: no state that failed or killed runs can leave behind
\* makes a later run fail, unless that run itself meets a failed call, a service slower
\* than it waits, or somebody else's write.
FailureNeedsAMishap ==
    \A o \in Operators :
        run[o].outcome \in {"apply failed", "teardown failed"} => run[o].met = "mishap"

\* AWS keeps neither API names nor distribution comments unique, and an answer that says
\* an id may be lost: still no run makes a second API or a second distribution.
NeverTwo == Cardinality(DOMAIN apis) <= 1 /\ Cardinality(DOMAIN dists) <= 1

\* No function is left with a permission for an API that is gone: the next deploy's
\* permission would be a conflict, and its API could invoke nothing.
NoStrandedPermission == \A f \in FunctionNames : function[f].allows # Gone

\* Every run comes to an end by itself, however slow the services are: each of its
\* waits and retries has a limit.
EveryRunEnds == \A o \in Operators : Running(o) ~> ~Running(o)

-----------------------------------------------------------------------------
(* What the code or its comments say, and does not hold. *)

\* After "control plane up" the distribution serves: converge compares Enabled because a
\* wrong value breaks what the page needs.
AppliedServes ==
    Cmd.outcome \in {"applied", "applied bare"} => \A i \in DOMAIN dists : dists[i].enabled

\* Teardown removes what Apply made: it does not end before it has looked at one
\* resource, with all of them there and every call answered.
TeardownCanStart ==
    Cmd.outcome = "no layer" /\ Cmd.met = "nothing" =>
        \A i \in DOMAIN Resources : Absent(Resources[i])

=============================================================================
