---------------------------- MODULE DeployerProofs ----------------------------
(***************************************************************************)
(* What Apply and Teardown report is true, for any number of resources.    *)
(* Neither report is inductive by itself: it is the walk that keeps what   *)
(* it has passed, forward whole and backward empty.                        *)
(***************************************************************************)
EXTENDS Deployer, TLAPS

\* An apply leaves only whole resources behind it.
BehindApply == verb = "apply" => \A i \in 1 .. N : i < at => state[i] = "whole"

\* A teardown without an error leaves nothing behind it but what goes with something else.
BehindTeardown ==
    verb = "teardown" /\ met = "nothing" => \A i \in 1 .. N \ Riders : i > at => state[i] = "absent"

\* A command that runs has not reported.
Unreported == verb # "idle" => outcome = "none"

WalkInv ==
    /\ TypeOK
    /\ BehindApply
    /\ BehindTeardown
    /\ Unreported
    /\ AppliedIsWhole
    /\ TornDownIsEmpty

\* Every step keeps the types.
LEMMA TypeStep == ASSUME Listed, TypeOK, [Next]_vars PROVE TypeOK'
<1> USE DEF Listed, TypeOK, States
<1>1. ASSUME NEW v \in {"apply", "teardown"}, Begin(v) PROVE TypeOK'
  BY <1>1 DEF Begin
<1>2. CASE Forget
  BY <1>2 DEF Forget
<1>3. CASE Work
  BY <1>3 DEF Work, Touches
<1>4. CASE Ensured
  BY <1>4 DEF Ensured, Touches, Rest
<1>5. CASE EnsureFails
  BY <1>5 DEF EnsureFails, Touches, Rest
<1>11. CASE NothingToPut
  BY <1>11 DEF NothingToPut, Rest
<1>6. CASE Dies
  BY <1>6 DEF Dies, Rest
<1>7. CASE Drift
  BY <1>7 DEF Drift
<1>8. CASE Removed \/ RemoveFails
  BY <1>8 DEF Removed, RemoveFails, Back, Touches, Rest
<1>9. ASSUME NEW i \in 1 .. N, Revive(i) PROVE TypeOK'
  BY <1>9 DEF Revive
<1>10. CASE UNCHANGED vars
  BY <1>10 DEF vars
<1> QED
  BY <1>1, <1>2, <1>3, <1>4, <1>5, <1>6, <1>7, <1>8, <1>9, <1>10, <1>11 DEF Next

\* Every step keeps what the walk has passed, and so what it reports at its end.
LEMMA WalkStep == ASSUME Listed, WalkInv, [Next]_vars PROVE WalkInv'
<1>0. TypeOK /\ TypeOK'
  BY TypeStep DEF WalkInv
<1> USE <1>0 DEF TypeOK, Listed, WalkInv, BehindApply, BehindTeardown, Unreported,
        AppliedIsWhole, TornDownIsEmpty
<1>1. ASSUME NEW v \in {"apply", "teardown"}, Begin(v) PROVE WalkInv'
  BY <1>1 DEF Begin
<1>2. CASE Forget
  BY <1>2 DEF Forget
<1>3. CASE Work
  BY <1>3 DEF Work, Touches
<1>4. CASE Ensured
  <2>1. \A i \in 1 .. N : i <= at => state'[i] = "whole"
    BY <1>4 DEF Ensured, Touches
  <2>2. CASE at < N
    <3>1. at' = at + 1 /\ verb' = "apply" /\ outcome' = "none"
      BY <1>4, <2>2 DEF Ensured
    <3>2. \A i \in 1 .. N : i < at' => state'[i] = "whole"
      BY <2>1, <3>1
    <3> QED
      BY <3>1, <3>2
  <2>3. CASE at = N
    <3>1. verb' = "idle" /\ outcome' = "applied"
      BY <1>4, <2>3 DEF Ensured, Rest
    <3>2. \A i \in 1 .. N : state'[i] = "whole"
      BY <2>1, <2>3
    <3> QED
      BY <3>1, <3>2
  <2> QED
    BY <1>4, <2>2, <2>3 DEF Ensured
<1>12. CASE NothingToPut
  <2>1. verb' = "idle" /\ outcome' = "bare" /\ state' = state
    BY <1>12 DEF NothingToPut, Rest
  <2>2. \A i \in 1 .. N \ Riders : i < N
    BY <1>12 DEF NothingToPut
  <2>3. \A i \in 1 .. N \ Riders : state'[i] = "whole"
    BY <1>12, <2>1, <2>2 DEF NothingToPut
  <2> QED
    BY <2>1, <2>3
<1>5. CASE EnsureFails
  BY <1>5 DEF EnsureFails, Rest
<1>6. CASE Dies
  BY <1>6 DEF Dies, Rest
<1>7. CASE Drift
  BY <1>7 DEF Drift
<1>8. CASE Removed
  <2>1. met = "nothing" => \A i \in 1 .. N \ Riders : i >= at => state'[i] = "absent"
    BY <1>8 DEF Removed, Touches
  <2>2. CASE at > 1
    <3>1. at' = at - 1 /\ verb' = "teardown" /\ outcome' = "none" /\ met' = met
      BY <1>8, <2>2 DEF Removed, Back
    <3>2. met = "nothing" => \A i \in 1 .. N \ Riders : i > at' => state'[i] = "absent"
      BY <2>1, <3>1
    <3> QED
      BY <3>1, <3>2
  <2>3. CASE at = 1
    <3>1. verb' = "idle" /\ outcome' = IF met = "nothing" THEN "removed" ELSE "none"
      BY <1>8, <2>3 DEF Removed, Back, Rest
    <3>2. met = "nothing" => \A i \in 1 .. N \ Riders : state'[i] = "absent"
      BY <2>1, <2>3
    <3> QED
      BY <3>1, <3>2
  <2> QED
    BY <1>8, <2>2, <2>3 DEF Removed, Back
<1>11. CASE RemoveFails
  <2>1. CASE at > 1
    <3>1. verb' = "teardown" /\ outcome' = "none" /\ met' = "error"
      BY <1>11, <2>1 DEF RemoveFails, Back
    <3> QED
      BY <3>1
  <2>2. CASE at = 1
    <3>1. verb' = "idle" /\ outcome' = "none"
      BY <1>11, <2>2 DEF RemoveFails, Back, Rest
    <3> QED
      BY <3>1
  <2> QED
    BY <1>11, <2>1, <2>2 DEF RemoveFails, Back
<1>9. ASSUME NEW i \in 1 .. N, Revive(i) PROVE WalkInv'
  BY <1>9 DEF Revive
<1>10. CASE UNCHANGED vars
  BY <1>10 DEF vars
<1> QED
  BY <1>1, <1>2, <1>3, <1>4, <1>5, <1>6, <1>7, <1>8, <1>9, <1>10, <1>11, <1>12 DEF Next

\* The walk of Apply and Teardown, over any list (internal/deploy/deploy.go).
THEOREM WalkInvariant == ASSUME Listed PROVE Spec => []WalkInv
<1>1. Init => WalkInv
  BY DEF Init, WalkInv, TypeOK, BehindApply, BehindTeardown, Unreported,
         AppliedIsWhole, TornDownIsEmpty, Listed
<1>2. WalkInv /\ [Next]_vars => WalkInv'
  BY WalkStep
<1> QED
  BY <1>1, <1>2, PTL DEF Spec

\* "control plane up" is true whatever was there before and whatever failed in earlier runs.
THEOREM ApplyTellsTheTruth == ASSUME Listed PROVE Spec => []AppliedIsWhole
<1>1. WalkInv => AppliedIsWhole
  BY DEF WalkInv
<1> QED
  BY <1>1, WalkInvariant, PTL

\* "control plane down" is true, although a teardown goes on past its errors.
THEOREM TeardownTellsTheTruth == ASSUME Listed PROVE Spec => []TornDownIsEmpty
<1>1. WalkInv => TornDownIsEmpty
  BY DEF WalkInv
<1> QED
  BY <1>1, WalkInvariant, PTL

=============================================================================
