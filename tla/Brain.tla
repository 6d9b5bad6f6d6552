-------------------------------- MODULE Brain --------------------------------
(***************************************************************************)
(* The brain of foray (internal/brain): the result-gated ladder as pure    *)
(* operators.  A plan is one answer of the planner to one question; its    *)
(* rungs are numbered from 0, the way Rung.Index numbers them.  The ladder *)
(* that travels between the browser and the server is the plan with a      *)
(* cursor and the spend booked so far.                                     *)
(*                                                                         *)
(* Money is counted in whole cents: roundCents makes every estimate one.   *)
(***************************************************************************)
EXTENDS Integers

CONSTANTS
    Plans,      \* the ladders the planner returns, one per successful propose
    Asks,       \* Asks[p]: the question plan p answers (QuestionID of its text)
    Rungs,      \* Rungs[p]: how many rungs the ladder has
    Cost,       \* Cost[p][i]: EstCostUSD of rung i
    Budget,     \* Budget[p]: Question.BudgetUSD, the envelope
    Denied      \* the rungs <<p, i>> Cedar forbids to this principal

RungsOf(p) == 0 .. (Rungs[p] - 1)

\* Every rung of every plan, named by its plan and its index.
AllRungs == UNION {{p} \X RungsOf(p) : p \in Plans}

(***************************************************************************)
(* What PlanLadder guarantees of a ladder it returns: at least one rung    *)
(* (an empty plan is an error), a positive envelope, and the rungs sorted  *)
(* cheapest first and re-indexed.                                          *)
(***************************************************************************)
ASSUME PlanAssumption ==
    /\ Rungs \in [Plans -> Nat \ {0}]
    /\ Budget \in [Plans -> Nat \ {0}]
    /\ \A p \in Plans :
          /\ Cost[p] \in [RungsOf(p) -> Nat]
          /\ \A i, j \in RungsOf(p) : i <= j => Cost[p][i] <= Cost[p][j]

-----------------------------------------------------------------------------

Ladder == [plan : Plans, cursor : Nat, spent : Nat]

\* Propose: the cursor is reset and nothing is spent on a fresh plan.
Proposed(p) == [plan |-> p, cursor |-> 0, spent |-> 0]

\* Policy.Permit: Cedar's verdict on one rung.
Permit(p, i) == <<p, i>> \notin Denied

\* Three bugs of the booking: the cursor stays, only this rung is counted, the
\* spend is kept as what is left.
BookedInPlace(l, i)      == [l EXCEPT !.spent = @ + Cost[l.plan][i]]
BookedThisRungOnly(l, i) == [l EXCEPT !.cursor = @ + 1, !.spent = Cost[l.plan][i]]
BookedAsRemaining(l, i)  == [l EXCEPT !.cursor = @ + 1, !.spent = @ - Cost[l.plan][i]]

\* The tail of Approve, after the launch succeeded: whichever rung was
\* approved, the cursor moves by one and that rung's estimate is booked.
Booked(l, i) ==
    [plan   |-> l.plan,
     cursor |-> l.cursor + 1,
     spent  |-> l.spent + Cost[l.plan][i]]

\* A bug: what was spent already is forgotten.
AffordableAlone(l, i) == Cost[l.plan][i] <= Budget[l.plan]

\* The budget gate of Assess, read for the rung after the one that ran.
Affordable(l, i) == l.spent + Cost[l.plan][i] <= Budget[l.plan]

\* Assess: climb only if there is a next rung, the finding shows an effect,
\* and the envelope still has room for that next rung.
Climbs(l, i, effect) ==
    /\ i + 1 \in RungsOf(l.plan)
    /\ effect
    /\ Affordable(l, i + 1)

\* NextProposal: the rung at the cursor, if the cursor is still on the ladder.
HasNext(l) == l.cursor \in RungsOf(l.plan)

\* A bug: a rung is skipped.
NextRungSkips(l) == l.cursor + 1

NextRung(l) == l.cursor

=============================================================================
