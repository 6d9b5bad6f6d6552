------------------------------- MODULE Lambdas -------------------------------
(***************************************************************************)
(* The two functions and the log groups (internal/deploy/lambda.go and     *)
(* logs.go).                                                               *)
(***************************************************************************)
EXTENDS IamRoles

CONSTANT Attempts   \* how often create asks again while the role is too new

ASSUME LambdaAssumption == Attempts \in Nat \ {0}

VARIABLES
    function,   \* each function: its package, its configuration, its permission
    logs        \* each log group: "none", "forever" or "retained"

Function(f) == <<"function", f>>
Logs(g) == <<"logs", g>>
FunctionNames == {"gateway", "webapi"}
GroupNames == FunctionNames \cup {"api"}

\* allows: the API its resource policy lets invoke it.
NoFunction  == [there |-> FALSE, code |-> "none", config |-> "none", allows |-> None]
NewFunction == [there |-> TRUE, code |-> "built", config |-> "built", allows |-> None]

-----------------------------------------------------------------------------
(* What Lambda and CloudWatch do. *)

PutFunction(f, value) == function' = [function EXCEPT ![f] = value]

UpdateFunctionCode(f) == PutFunction(f, [function[f] EXCEPT !.code = "built"])

UpdateFunctionConfiguration(f) == PutFunction(f, [function[f] EXCEPT !.config = "built"])

\* The permission goes with the function.
DeleteFunction(f) == PutFunction(f, NoFunction)

\* A statement with this id that exists already is a conflict, and stays as it is.
AddPermission(f, api) ==
    PutFunction(f, [function[f] EXCEPT !.allows = IF @ = None THEN api ELSE @])

RemovePermission(f) == PutFunction(f, [function[f] EXCEPT !.allows = None])

CreateLogGroup(g) == logs' = [logs EXCEPT ![g] = IF @ = "none" THEN "forever" ELSE @]

\* A function that runs without its log group makes one that retains forever.
FunctionLogs(f) ==
    /\ Logs(f) \in Range(Resources)
    /\ function[f].there
    /\ logs[f] = "none"
    /\ CreateLogGroup(f)

-----------------------------------------------------------------------------

EnsureLogs(o, g) ==
    \/ /\ Doing(o, "apply", Logs(g), "start")
       /\ CreateLogGroup(g)
       /\ Goto(o, "retention")
    \/ /\ Doing(o, "apply", Logs(g), "retention")
       /\ logs' = [logs EXCEPT ![g] = "retained"]
       /\ Complete(o)

RemoveLogs(o, g) ==
    /\ Doing(o, "teardown", Logs(g), "start")
    /\ logs' = [logs EXCEPT ![g] = "none"]
    /\ Complete(o)

\* Mutant: a function whose package is current is left alone.
EnsureFunctionByHash(o, f) ==
    \/ /\ Doing(o, "apply", Function(f), "start")
       /\ CASE function[f].code = "built" -> UNCHANGED function /\ Complete(o)
            [] function[f].code = "old"   -> UpdateFunctionCode(f) /\ Goto(o, "configuration")
            [] OTHER                      -> UNCHANGED function /\ Goto(o, "create")
    \/ /\ Doing(o, "apply", Function(f), "configuration")
       /\ UpdateFunctionConfiguration(f)
       /\ Complete(o)

\* The package is compared by its hash; the configuration converges either way.
EnsureFunction(o, f) ==
    \/ /\ Doing(o, "apply", Function(f), "start")
       /\ IF function[f].there
            THEN UpdateFunctionCode(f) /\ Goto(o, "configuration")
            ELSE UNCHANGED function /\ Goto(o, "create")
    \/ /\ Doing(o, "apply", Function(f), "configuration")
       /\ UpdateFunctionConfiguration(f)
       /\ Complete(o)

\* Mutant: it asks again without a limit.
CreateFunctionPatiently(o, f) ==
    /\ Doing(o, "apply", Function(f), "create")
    /\ \/ /\ IF function[f].there THEN UNCHANGED function ELSE PutFunction(f, NewFunction)
          /\ Complete(o)
       \/ /\ UNCHANGED function
          /\ Becomes(o, [run[o] EXCEPT !.tries = (@ + 1) % Attempts])

\* IAM is eventually consistent, so Lambda may not see the role yet and the call is
\* made again, up to Attempts times.  A function that has appeared meanwhile is a race
\* lost to another apply.
CreateFunction(o, f) ==
    /\ Doing(o, "apply", Function(f), "create")
    /\ \/ /\ IF function[f].there THEN UNCHANGED function ELSE PutFunction(f, NewFunction)
          /\ Complete(o)
       \/ /\ UNCHANGED function
          /\ IF run[o].tries + 1 < Attempts
               THEN Becomes(o, [run[o] EXCEPT !.tries = @ + 1])
               ELSE Errs(o, "mishap")

RemoveFunction(o, f) ==
    /\ Doing(o, "teardown", Function(f), "start")
    /\ DeleteFunction(f)
    /\ Complete(o)

LogStep(o) == \E g \in GroupNames : EnsureLogs(o, g) \/ RemoveLogs(o, g)

FunctionStep(o) ==
    \E f \in FunctionNames : EnsureFunction(o, f) \/ CreateFunction(o, f) \/ RemoveFunction(o, f)

FunctionAbsent(f) == ~function[f].there
FunctionWhole(f)  == function[f].code = "built" /\ function[f].config = "built"
LogsAbsent(g) == logs[g] = "none"
LogsWhole(g)  == logs[g] = "retained"

=============================================================================
