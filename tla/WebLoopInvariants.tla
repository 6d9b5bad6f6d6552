-------------------------- MODULE WebLoopInvariants --------------------------
(***************************************************************************)
(* The inductive invariants behind the safety properties of the deployed   *)
(* loop.  They hold in every state of the runs; WebLoopProofs and          *)
(* PatientProofs prove them.                                               *)
(***************************************************************************)
EXTENDS WebLoopProperties

(***************************************************************************)
(* What a card's progress says of its other fields: a card in the list has *)
(* a rung, a request belongs to a card, a poll carries the ladder of its   *)
(* approve answer, and a card about to append a rung has one to append.    *)
(***************************************************************************)
WellFormed ==
    \A c \in CardIds :
        /\ ui[c] # "none" => card[c] \in AllRungs
        /\ rpc[c] # "none" => ui[c] \notin Idle
        /\ ui[c] \in Busy => rpc[c] # "none"
        /\ ui[c] \in {"polling", "climbing"} => held[c] \in Ladder
        /\ ui[c] = "climbing" => HasNext(held[c])

\* A launch whose booking has not reached the page yet.
Unbooked(c) ==
    \/ rpc[c] \in {"launched", "handed"}
    \/ rpc[c] = "ok" /\ ui[c] = "approving"

(***************************************************************************)
(* Why no booking is invented: between the launch and the moment the page  *)
(* takes the booked ladder, the bill already contains the rung on top of   *)
(* what the ladder of the request says.                                    *)
(***************************************************************************)
LaunchIsBilled ==
    \A c \in CardIds : Unbooked(c) =>
        /\ held[c] \in Ladder
        /\ card[c][2] \in RungsOf(held[c].plan)
        /\ held[c].spent + Cost[held[c].plan][card[c][2]] <= bill[held[c].plan]

Money ==
    /\ TypeOK
    /\ WellFormed
    /\ LaunchIsBilled
    /\ SpentNeverOverstated
    /\ MeterIsBacked

-----------------------------------------------------------------------------

Live(c) == ui[c] \in Busy \/ (c \in shown /\ ui[c] = "fresh")

(***************************************************************************)
(* Why a patient user's Go runs what the card shows: every card that can   *)
(* still act belongs to the plan the page carries, and while a propose is  *)
(* under way no card can act.                                              *)
(***************************************************************************)
NoCardWhileAsking == asking # "idle" => \A c \in CardIds : ~Live(c)

SeedingCurrent == asking = "seeding" => current # NoLadder /\ current.plan = tip

LiveIsCurrent ==
    \A c \in CardIds : Live(c) => current # NoLadder /\ current.plan = card[c][1]

RequestIsTheCard ==
    \A c \in CardIds :
        /\ rpc[c] # "none" => held[c] # NoLadder /\ held[c].plan = card[c][1]
        /\ rpc[c] \in {"none", "posted"} => ran[c] = NoRung

OnePlanAtATime ==
    /\ NoCardWhileAsking
    /\ SeedingCurrent
    /\ LiveIsCurrent
    /\ RequestIsTheCard
    /\ LaunchIsTheCard

Acceptance == Money /\ OnePlanAtATime

-----------------------------------------------------------------------------

\* A card that has been dealt, and one that may still change what its plan has spent.
Dealt(c) == ui[c] # "none"
Acting(c) == Live(c) \/ rpc[c] \in {"posted", "launched", "handed"}

(***************************************************************************)
(* Why a patient user's plan climbs one rung at a time: at most one card   *)
(* of a plan can still act, no card of the plan lies above it, no rung is  *)
(* dealt twice, and a plan that has just been asked for has no card yet.   *)
(***************************************************************************)
OneActor ==
    \A c, d \in CardIds :
        Acting(c) /\ Acting(d) /\ card[c][1] = card[d][1] => c = d

ActorIsTop ==
    \A c, d \in CardIds :
        Acting(c) /\ Dealt(d) /\ card[d][1] = card[c][1] => card[d][2] <= card[c][2]

DealtOnce ==
    \A c, d \in CardIds : Dealt(c) /\ Dealt(d) /\ card[c] = card[d] => c = d

AskedOnce ==
    /\ \A c \in CardIds : Dealt(c) => card[c][1] \in planned
    /\ \A p \in Plans \ planned : bill[p] = 0
    /\ asking # "idle" =>
          /\ tip \in planned
          /\ bill[tip] = 0
          /\ \A c \in CardIds : Dealt(c) => card[c][1] # tip

\* The ladder l stands at rung i, which may be launched: everything the plan has
\* spent is booked, and above the first rung the envelope has room for it.
Ready(l, i) ==
    /\ l.cursor = i
    /\ l.spent = bill[l.plan]
    /\ i > 0 => Affordable(l, i)

(***************************************************************************)
(* What the ladders say of the bill, to the cent.  The page and the card   *)
(* that acts carry the same ladder; it stands at the rung of that card, or *)
(* above it once the launch has been booked.                               *)
(***************************************************************************)
CardInStep(c) ==
    /\ ui[c] \in Busy => held[c] = current
    /\ c \in shown /\ ui[c] = "fresh" => Ready(current, card[c][2])
    /\ rpc[c] = "posted" => Ready(held[c], card[c][2])
    /\ Unbooked(c) =>
          /\ held[c].cursor = card[c][2]
          /\ held[c].spent + Cost[card[c][1]][card[c][2]] = bill[card[c][1]]
    /\ ui[c] \in {"polling", "climbing"} =>
          /\ rpc[c] = "ok"
          /\ held[c].cursor = card[c][2] + 1
          /\ held[c].spent = bill[card[c][1]]
    /\ ui[c] = "climbing" => trace[c] = "ok" /\ Affordable(held[c], card[c][2] + 1)
    /\ rpc[c] \in {"launched", "handed", "ok"} => ran[c] = card[c]

LadderInStep ==
    /\ asking = "seeding" => current = Proposed(tip)
    /\ \A c \in CardIds : CardInStep(c)

Climb ==
    /\ Acceptance
    /\ OneActor /\ ActorIsTop /\ DealtOnce /\ AskedOnce /\ LadderInStep
    /\ CheapestFirst /\ ClimbStaysInEnvelope

-----------------------------------------------------------------------------

\* No launch of the plan of c ran a higher rung.
TopRun(c) == \A d \in Launched : ran[d][1] = ran[c][1] => ran[d][2] <= ran[c][2]

(***************************************************************************)
(* Why the summary adds up: a row belongs to a launch of its plan, the row *)
(* of the highest launch carries the whole bill, and a plan with a bill    *)
(* has a highest launch.                                                   *)
(***************************************************************************)
RowsAreRunningTotals ==
    /\ \A r \in receipts :
          /\ r.question = Asks[r.plan]
          /\ \E c \in Launched : ran[c] = <<r.plan, r.rung>>
          /\ \A c \in Launched :
                ran[c] = <<r.plan, r.rung>> /\ TopRun(c) => r.spent = bill[r.plan]
    /\ \A p \in Plans :
          bill[p] = 0 \/ \E c \in Launched : ran[c][1] = p /\ TopRun(c)

Totals == Climb /\ RowsAreRunningTotals

=============================================================================
