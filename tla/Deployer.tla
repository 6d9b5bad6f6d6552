------------------------------- MODULE Deployer -------------------------------
(***************************************************************************)
(* What Apply and Teardown promise of any list of resources                *)
(* (internal/deploy/deploy.go), whatever ensure and remove do inside: a    *)
(* resource is absent, partial or whole; working at one may change those   *)
(* that come after it in the list, never those before; Apply goes forward  *)
(* and stops at an error, Teardown goes backward and does not; the process *)
(* may die at any point and knows nothing of the runs before it.           *)
(***************************************************************************)
EXTENDS Naturals

CONSTANTS
    N,          \* how many resources there are
    Riders      \* resources that live inside an earlier one, and go with it

\* What the theorems about this module take for granted: the list is not empty.
Listed ==
    /\ N \in Nat \ {0}
    /\ Riders \subseteq 1 .. N

VARIABLES
    verb,       \* what is running
    at,         \* the resource it has come to
    met,        \* whether there has been an error
    outcome,    \* what it reported, until something changes
    state       \* each resource

vars == <<verb, at, met, outcome, state>>

States == {"absent", "partial", "whole"}

TypeOK ==
    /\ verb \in {"idle", "apply", "teardown"}
    /\ at \in 0 .. N
    /\ verb # "idle" => at \in 1 .. N
    /\ met \in {"nothing", "error"}
    /\ outcome \in {"none", "applied", "bare", "removed"}
    /\ state \in [1 .. N -> States]

\* The account as it is found: no state file says how it came to be so.
Init ==
    /\ verb = "idle"
    /\ at = 0
    /\ met = "nothing"
    /\ outcome = "none"
    /\ state \in [1 .. N -> States]

-----------------------------------------------------------------------------

Rest(how) ==
    /\ verb' = "idle"
    /\ at' = 0
    /\ met' = "nothing"
    /\ outcome' = how

Begin(v) ==
    /\ verb = "idle"
    /\ verb' = v
    /\ at' = IF v = "apply" THEN 1 ELSE N
    /\ met' = "nothing"
    /\ outcome' = "none"
    /\ UNCHANGED state

\* The report of the last command is old news.
Forget ==
    /\ verb = "idle"
    /\ outcome' = "none"
    /\ UNCHANGED <<verb, at, met, state>>

\* A call at the resource under way may change a later one, but makes none.
Touches ==
    /\ state' \in [1 .. N -> States]
    /\ \A i \in 1 .. N :
          /\ i < at => state'[i] = state[i]
          /\ i > at /\ state[i] = "absent" => state'[i] = "absent"

Work ==
    /\ verb # "idle"
    /\ UNCHANGED <<verb, at, met, outcome>>
    /\ Touches

\* ensure returned without an error.
Ensured ==
    /\ verb = "apply"
    /\ \/ at < N /\ at' = at + 1 /\ UNCHANGED <<verb, met, outcome>>
       \/ at = N /\ Rest("applied")
    /\ Touches
    /\ state'[at] = "whole"

\* ensure had nothing to put into the last resource, which lives inside an earlier one:
\* no error, and the report says so.
NothingToPut ==
    /\ verb = "apply"
    /\ at = N
    /\ N \in Riders
    /\ Rest("bare")
    /\ UNCHANGED state

EnsureFails ==
    /\ verb = "apply"
    /\ Rest("none")
    /\ Touches

\* To the resource before this one, or to the end.
Back(noted) ==
    \/ at > 1 /\ at' = at - 1 /\ met' = noted /\ UNCHANGED <<verb, outcome>>
    \/ at = 1 /\ Rest(IF noted = "nothing" THEN "removed" ELSE "none")

\* remove returned without an error.
Removed ==
    /\ verb = "teardown"
    /\ Back(met)
    /\ Touches
    /\ at \in Riders \/ state'[at] = "absent"

RemoveFails ==
    /\ verb = "teardown"
    /\ Back("error")
    /\ Touches

Dies ==
    /\ verb # "idle"
    /\ Rest("none")
    /\ UNCHANGED state

\* A resource that is gone comes back, partly, only while a later one stands.
Revive(i) ==
    /\ state[i] = "absent"
    /\ \E j \in 1 .. N \ Riders : j > i /\ state[j] # "absent"
    /\ state' = [state EXCEPT ![i] = "partial"]
    /\ UNCHANGED <<verb, at, met, outcome>>

\* What is deployed is no longer what would be deployed now.
Drift ==
    /\ verb = "idle"
    /\ outcome' = "none"
    /\ state' \in [1 .. N -> States]
    /\ \A i \in 1 .. N : state'[i] = state[i] \/ (state[i] # "absent" /\ state'[i] = "partial")
    /\ UNCHANGED <<verb, at, met>>

Next ==
    \/ \E v \in {"apply", "teardown"} : Begin(v)
    \/ Work \/ Ensured \/ NothingToPut \/ EnsureFails
    \/ Removed \/ RemoveFails \/ Dies \/ Forget \/ Drift
    \/ \E i \in 1 .. N : Revive(i)

Spec == Init /\ [][Next]_vars

-----------------------------------------------------------------------------

\* A deploy that reports success leaves every resource whole, but for the one it says it
\* had nothing for.
AppliedIsWhole ==
    /\ outcome = "applied" => \A i \in 1 .. N : state[i] = "whole"
    /\ outcome = "bare" => \A i \in 1 .. N \ Riders : state[i] = "whole"

\* A teardown that reports success leaves nothing behind.
TornDownIsEmpty ==
    outcome = "removed" => \A i \in 1 .. N \ Riders : state[i] = "absent"

=============================================================================
