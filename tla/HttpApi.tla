------------------------------- MODULE HttpApi -------------------------------
(***************************************************************************)
(* The HTTP API and the invoke permissions it needs on the two functions   *)
(* (internal/deploy/apigateway.go).  Its id is generated, so it is found   *)
(* by a name that AWS does not keep unique.                                *)
(***************************************************************************)
EXTENDS Lambdas, Functions

VARIABLE apis       \* the HTTP APIs named foray, by id: what has been built inside each

HttpApi == <<"http api", "foray">>

Parts == {"integrations", "routes", "stage"}

-----------------------------------------------------------------------------
(* What API Gateway does. *)

\* An id nothing mentions: generated ids are never used again.
FreshId(inUse) == CHOOSE i \in Ids : i \notin inUse

\* The same name twice is two APIs.
CreateApi(id) == apis' = [i \in DOMAIN apis \cup {id} |-> IF i = id THEN {} ELSE apis[i]]

Build(id, parts) == apis' = [apis EXCEPT ![id] = @ \cup parts]

\* Integrations, routes and stages go with the API; permissions do not.
DeleteApi(id) ==
    /\ apis' = Restrict(apis, DOMAIN apis \ {id})
    /\ function' = [f \in FunctionNames |->
            [function[f] EXCEPT !.allows = IF @ = id THEN Gone ELSE @]]

-----------------------------------------------------------------------------

\* find: none, one, or an error when there are several.
TheOne(ids) == IF ids = {} THEN None ELSE CHOOSE i \in ids : TRUE
Several(ids) == Cardinality(ids) > 1

EnsureIntegrations(parts) == parts \cup {"integrations"}

\* A route targets an integration.
EnsureRoutes(parts) == parts \cup {"routes" : p \in parts \cap {"integrations"}}

EnsureStage(parts) == parts \cup {"stage"}

\* The permission on each function, one after the other.
NextPermit == [gateway |-> "webapi", webapi |-> "done"]

\* Mutant: it creates without looking.
FindApiNever(o) ==
    /\ Doing(o, "apply", HttpApi, "start")
    /\ UNCHANGED <<apis, function>>
    /\ Goto(o, "create")

FindApi(o) ==
    /\ Doing(o, "apply", HttpApi, "start")
    /\ UNCHANGED <<apis, function>>
    /\ IF Several(DOMAIN apis)
         THEN Errs(o, "refusal")
         ELSE Found(o, TheOne(DOMAIN apis), IF DOMAIN apis = {} THEN "create" ELSE "build")

CreateForayApi(o, id) ==
    /\ Doing(o, "apply", HttpApi, "create")
    /\ CreateApi(id)
    /\ UNCHANGED function
    /\ Found(o, id, "build")

\* Integrations, routes to them, and a stage that serves them, on every run: nothing
\* is served before the stage is, so the three are one step.
BuildApi(o) ==
    /\ Doing(o, "apply", HttpApi, "build")
    /\ UNCHANGED function
    /\ IF run[o].saw \in DOMAIN apis
         THEN /\ Build(run[o].saw, EnsureStage(EnsureRoutes(EnsureIntegrations({}))))
              /\ Goto(o, "gateway")
         ELSE UNCHANGED apis /\ Errs(o, "mishap")

EnsureInvokePermission(o, f) ==
    /\ Doing(o, "apply", HttpApi, f)
    /\ UNCHANGED apis
    /\ IF function[f].there
         THEN /\ AddPermission(f, run[o].saw)
              /\ IF f = "webapi" THEN Complete(o) ELSE Goto(o, NextPermit[f])
         ELSE UNCHANGED function /\ Errs(o, "refusal")

\* Mutant: the API only.
RemoveApiOnly(o) ==
    \/ /\ Doing(o, "teardown", HttpApi, "start")
       /\ UNCHANGED <<apis, function>>
       /\ CASE DOMAIN apis = {}      -> Complete(o)
            [] Several(DOMAIN apis)  -> Errs(o, "refusal")
            [] OTHER                 -> Found(o, TheOne(DOMAIN apis), "done")
    \/ /\ Doing(o, "teardown", HttpApi, "done")
       /\ DeleteApi(run[o].saw)
       /\ Complete(o)

\* The permissions first: they live on the functions and would be left behind.
RemoveApi(o) ==
    \/ /\ Doing(o, "teardown", HttpApi, "start")
       /\ UNCHANGED <<apis, function>>
       /\ CASE DOMAIN apis = {}      -> Complete(o)
            [] Several(DOMAIN apis)  -> Errs(o, "refusal")
            [] OTHER                -> Found(o, TheOne(DOMAIN apis), "gateway")
    \/ \E f \in FunctionNames :
          /\ Doing(o, "teardown", HttpApi, f)
          /\ UNCHANGED apis
          /\ RemovePermission(f)
          /\ Goto(o, NextPermit[f])
    \/ /\ Doing(o, "teardown", HttpApi, "done")
       /\ DeleteApi(run[o].saw)
       /\ Complete(o)

ApiStep(o, id) ==
    \/ FindApi(o) \/ CreateForayApi(o, id) \/ BuildApi(o) \/ RemoveApi(o)
    \/ \E f \in FunctionNames : EnsureInvokePermission(o, f)

ApiAbsent == DOMAIN apis = {}
ApiWhole  == \E id \in Ids :
                /\ DOMAIN apis = {id}
                /\ apis[id] = Parts
                /\ \A f \in FunctionNames : function[f].allows = id

=============================================================================
