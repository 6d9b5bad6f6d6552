-------------------------- MODULE WebLoopProperties --------------------------
(***************************************************************************)
(* What the deployed loop must never do, and what it must do in the end.   *)
(* Each property says under which constants it is meant to hold: Patient   *)
(* is the human who asks again only once every started rung has ended.     *)
(***************************************************************************)
EXTENDS WebLoop, FiniteSetsExt

Launched == {c \in CardIds : ran[c] # NoRung}

\* What was committed for a question, over every plan that answered it.
Committed(q) ==
    MapThenSumSet(LAMBDA p : bill[p], {p \in Plans : Asks[p] = q})

-----------------------------------------------------------------------------
(***************************************************************************)
(* The money, for every user and every failure.                            *)
(***************************************************************************)

Backed(l) == l # NoLadder => l.spent <= bill[l.plan]

(***************************************************************************)
(* No ladder the page holds, or any of its closures, and no receipt ever   *)
(* claims more than was really committed for its plan: stale answers,      *)
(* lost replies and half-failed approves can only lose a booking, they     *)
(* cannot invent one (brain.Approve books after the launch, app.js echoes).*)
(***************************************************************************)
SpentNeverOverstated ==
    /\ Backed(current)
    /\ \A c \in CardIds : Backed(held[c])
    /\ \A r \in receipts : r.spent <= bill[r.plan]

(***************************************************************************)
(* The header's meter shows a figure that some plan has really committed   *)
(* at least, whichever of the three places that set it came last (seed,    *)
(* approve answer, result answer).                                         *)
(***************************************************************************)
MeterIsBacked == meter = 0 \/ \E p \in Plans : meter <= bill[p]

(***************************************************************************)
(* A Go always comes to an end the human can see: launched and read, or    *)
(* refused, or failed, even when the worker never writes a result          *)
(* (pollResult's deadline) and whatever answer is lost.                    *)
(***************************************************************************)
EveryGoSettles ==
    \A c \in CardIds : ui[c] = "approving" ~> ui[c] \in Settled

-----------------------------------------------------------------------------
(***************************************************************************)
(* The acceptance node.                                                    *)
(***************************************************************************)

(***************************************************************************)
(* Go runs what the card shows: the request of a card launches the rung    *)
(* the human read, "the nnsight it will run", and not a rung with the same *)
(* index of another plan (runRung sends the global currentLadder).  Meant  *)
(* for every user; holds for a patient one.                                *)
(***************************************************************************)
LaunchIsTheCard == \A c \in Launched : ran[c] = card[c]

(***************************************************************************)
(* The same, with the ordering of show, Go and launch, as a refinement: an *)
(* offer is a card with its rung, and each launch needs the Go of its own  *)
(* card.                                                                   *)
(***************************************************************************)
Offers   == {<<c, card[c]>> : c \in {d \in CardIds : ui[d] # "none"}}
Goes     == {<<c, card[c]>> : c \in {d \in CardIds : rpc[d] # "none"}}
Launches == {<<c, ran[c]>> : c \in Launched}

HITL == INSTANCE HumanInTheLoop WITH
    Proposals <- CardIds \X AllRungs,
    offered   <- Offers,
    accepted  <- Goes,
    launched  <- Launches

\* Every behaviour of the loop is one of the acceptance node's.
HITLSpec == HITL!Spec

(***************************************************************************)
(* Cheapest first and result-gated: a rung above the first is put in front *)
(* of the human only after the rung right below it, of the same plan, ran  *)
(* and its result came back (Assess, NextProposal).  For a patient user.   *)
(***************************************************************************)
CheapestFirst ==
    \A c \in CardIds :
        ui[c] # "none" /\ card[c][2] > 0 =>
            \E d \in Launched :
                /\ ran[d] = <<card[c][1], card[c][2] - 1>>
                /\ trace[d] = "ok"

(***************************************************************************)
(* No rung of a plan runs, and is paid for, twice.  For a patient user.    *)
(***************************************************************************)
NoRungTwice ==
    \A c, d \in Launched : ran[c] = ran[d] => c = d

-----------------------------------------------------------------------------
(***************************************************************************)
(* The envelope.                                                           *)
(***************************************************************************)

(***************************************************************************)
(* The per-question envelope caps the whole ladder, the first rung         *)
(* included ("the ladder is capped here").  Meant for every user; Approve  *)
(* does not look at the budget, so the code does not do it.                *)
(***************************************************************************)
EnvelopeCaps == \A p \in Plans : bill[p] <= Budget[p]

(***************************************************************************)
(* What Assess does guarantee to a patient user: once a plan has climbed   *)
(* past its first rung, all it committed fits its envelope.                *)
(***************************************************************************)
ClimbStaysInEnvelope ==
    \A c \in Launched : ran[c][2] > 0 => bill[ran[c][1]] <= Budget[ran[c][1]]

-----------------------------------------------------------------------------
(***************************************************************************)
(* The receipt.                                                            *)
(***************************************************************************)

(***************************************************************************)
(* When a question was asked once and none of its launches lost its row,   *)
(* the summary is exactly what was committed: the row of the top rung      *)
(* carries the running total.  For a patient user, under every failure.    *)
(***************************************************************************)
ReceiptsAddUp ==
    \A p \in Plans :
        /\ \A o \in Plans \ {p} : Asks[o] # Asks[p]
        /\ \A c \in Launched :
              ran[c][1] = p => \E r \in RowsOf(Asks[p]) : r.rung = ran[c][2]
        => Summary(Asks[p], bill[p])

(***************************************************************************)
(* The receipt of a question shows what the question cost, asked again or  *)
(* not, once no approve of it is in flight.  Meant for every run without   *)
(* failures; a re-ask starts a ladder that has spent nothing and replaces  *)
(* the rows of the earlier one, so the code does not do it.                *)
(***************************************************************************)
ReceiptShowsCommitted ==
    (\A c \in CardIds : rpc[c] \in {"none", "ok", "failed"}) =>
        \A p \in Plans : Summary(Asks[p], Committed(Asks[p]))

(***************************************************************************)
(* A card that says "not launched" has no instance running.  Meant for     *)
(* every failure; a store failure after the launch makes the code say it   *)
(* of an instance that runs.                                               *)
(***************************************************************************)
NotLaunchedIsTrue == \A c \in Launched : ui[c] # "refused"

=============================================================================
