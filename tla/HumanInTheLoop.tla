--------------------------- MODULE HumanInTheLoop ---------------------------
(***************************************************************************)
(* What the acceptance node of foray promises, whoever drives it (the page *)
(* or the command line): a rung is put in front of the human, the human    *)
(* may say Go to it, and only then may that rung, and no other, launch,    *)
(* once.  Nothing is launched that was not shown, and climbing is never    *)
(* automatic: every launch has a Go of its own.                            *)
(***************************************************************************)
CONSTANT Proposals   \* everything that can be put in front of the human: a rung
                     \* together with the occasion on which it was shown

VARIABLES
    offered,         \* the rungs proposed so far
    accepted,        \* the rungs a human said Go to
    launched         \* the rungs an instance was started for

loopVars == <<offered, accepted, launched>>

Init ==
    /\ offered = {}
    /\ accepted = {}
    /\ launched = {}

\* Propose, or NextProposal after a finding worth climbing for.
Offer(r) ==
    /\ r \notin offered
    /\ offered' = offered \cup {r}
    /\ UNCHANGED <<accepted, launched>>

\* The human's Go, possible only on what is in front of them.
Go(r) ==
    /\ r \in offered \ accepted
    /\ accepted' = accepted \cup {r}
    /\ UNCHANGED <<offered, launched>>

\* The only step that spends: an accepted rung starts, and starts once.
Launch(r) ==
    /\ r \in accepted \ launched
    /\ launched' = launched \cup {r}
    /\ UNCHANGED <<offered, accepted>>

Next == \E r \in Proposals : Offer(r) \/ Go(r) \/ Launch(r)

Spec == Init /\ [][Next]_loopVars

=============================================================================
