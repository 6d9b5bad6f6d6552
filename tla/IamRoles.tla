------------------------------- MODULE IamRoles -------------------------------
(***************************************************************************)
(* The three roles and the instance profile (internal/deploy/iam.go).      *)
(***************************************************************************)
EXTENDS DeployCommand

VARIABLES
    role,       \* each role: its policies
    profile     \* the instance profile of the spawned boxes

Role(r) == <<"role", r>>
Profile == <<"profile", "spawn">>
RoleNames == {"gateway", "webapi", "spawn"}

NoRole  == [there |-> FALSE, policies |-> {}]
NewRole == [NoRole EXCEPT !.there = TRUE]

NoProfile == [there |-> FALSE, holds |-> FALSE]

-----------------------------------------------------------------------------
(* What IAM does. *)

PutRole(r, value) == role' = [role EXCEPT ![r] = value]

\* A role that exists already is converged, not created again.
CreateRole(r) == PutRole(r, IF role[r].there THEN role[r] ELSE NewRole)

Attach(r, policies) == PutRole(r, [role[r] EXCEPT !.policies = @ \cup policies])

Detach(r, policy) == PutRole(r, [role[r] EXCEPT !.policies = @ \ {policy}])

\* IAM refuses to delete a role that still has policies or is in a profile.
CanDeleteRole(r) ==
    /\ role[r].there
    /\ role[r].policies = {}
    /\ ~(r = "spawn" /\ profile.holds)

\* A profile holds one role, and is not deleted while it does.
CanAddRole == profile.there /\ ~profile.holds

CanDeleteProfile == profile.there /\ ~profile.holds

-----------------------------------------------------------------------------

\* Boxes run no Lambda, so the spawn role has no managed policy.
Managed(r) == IF r = "spawn" THEN {} ELSE {"managed"}

\* With the role's own documents, which go on and off it one after the other, as one.
Policies(r) == Managed(r) \cup {"inline"}

EnsureRole(o, r) ==
    /\ UNCHANGED profile
    /\ \/ /\ Doing(o, "apply", Role(r), "start")
          /\ CreateRole(r)
          /\ Goto(o, "policies")
       \/ /\ Doing(o, "apply", Role(r), "policies")
          /\ Attach(r, Policies(r))
          /\ Complete(o)

\* Mutant: the managed policy stays attached.
RemoveRoleAttached(o, r) ==
    /\ UNCHANGED profile
    /\ \/ /\ Doing(o, "teardown", Role(r), "start")
          /\ Detach(r, "inline")
          /\ IF role[r].there THEN Goto(o, "delete") ELSE Complete(o)
       \/ /\ Doing(o, "teardown", Role(r), "delete")
          /\ IF CanDeleteRole(r) THEN PutRole(r, NoRole) /\ Complete(o)
                                 ELSE UNCHANGED role /\ Errs(o, "refusal")

\* Inline policies, then attached ones, then the role itself.
RemoveRole(o, r) ==
    /\ UNCHANGED profile
    /\ \/ /\ Doing(o, "teardown", Role(r), "start")
          /\ Detach(r, "inline")
          /\ IF role[r].there THEN Goto(o, "detach") ELSE Complete(o)
       \/ /\ Doing(o, "teardown", Role(r), "detach")
          /\ Detach(r, "managed")
          /\ Goto(o, "delete")
       \/ /\ Doing(o, "teardown", Role(r), "delete")
          /\ IF CanDeleteRole(r) THEN PutRole(r, NoRole) /\ Complete(o)
                                 ELSE UNCHANGED role /\ Errs(o, "refusal")

EnsureProfile(o) ==
    /\ UNCHANGED role
    /\ \/ /\ Doing(o, "apply", Profile, "start")
          /\ profile' = [profile EXCEPT !.there = TRUE]
          /\ IF profile.holds THEN Complete(o) ELSE Goto(o, "add")
       \/ /\ Doing(o, "apply", Profile, "add")
          /\ IF CanAddRole THEN profile' = [profile EXCEPT !.holds = TRUE] /\ Complete(o)
                           ELSE UNCHANGED profile /\ Errs(o, "mishap")

RemoveProfile(o) ==
    /\ UNCHANGED role
    /\ \/ /\ Doing(o, "teardown", Profile, "start")
          /\ profile' = [profile EXCEPT !.holds = FALSE]
          /\ IF profile.there THEN Goto(o, "delete") ELSE Complete(o)
       \/ /\ Doing(o, "teardown", Profile, "delete")
          /\ IF CanDeleteProfile THEN profile' = NoProfile /\ Complete(o)
                                 ELSE UNCHANGED profile /\ Errs(o, "refusal")

IamStep(o) ==
    \/ \E r \in RoleNames : EnsureRole(o, r) \/ RemoveRole(o, r)
    \/ EnsureProfile(o)
    \/ RemoveProfile(o)

RoleAbsent(r) == ~role[r].there
RoleWhole(r)  == role[r].there /\ role[r].policies = Policies(r)
ProfileAbsent == ~profile.there
ProfileWhole  == profile.holds

=============================================================================
