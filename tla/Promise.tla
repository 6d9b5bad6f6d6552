------------------------------- MODULE Promise -------------------------------
(***************************************************************************)
(* What the launch-time handoff promises, with nothing of how: a result    *)
(* that is settled at most once, kept or broken, and one holder who is     *)
(* paid only what was kept, is refused only what was broken, may walk away *)
(* at any time, and never changes its mind.                                *)
(***************************************************************************)

VARIABLES
    value,      \* the outcome of the trace
    holder      \* what the one who waits for it has been told

vars == <<value, holder>>

TypeOK ==
    /\ value \in {"open", "kept", "broken"}
    /\ holder \in {"waiting", "paid", "refused", "gone"}

Init == value = "open" /\ holder = "waiting"

\* The outcome is written once.
Settle ==
    /\ value = "open"
    /\ value' \in {"kept", "broken"}
    /\ UNCHANGED holder

Pay ==
    /\ holder = "waiting" /\ value = "kept"
    /\ holder' = "paid"
    /\ UNCHANGED value

Refuse ==
    /\ holder = "waiting" /\ value = "broken"
    /\ holder' = "refused"
    /\ UNCHANGED value

\* A failure on the way to the holder, or its own loss of patience.
WalkAway ==
    /\ holder = "waiting"
    /\ holder' = "gone"
    /\ UNCHANGED value

Next == Settle \/ Pay \/ Refuse \/ WalkAway

Spec == Init /\ [][Next]_vars

=============================================================================
