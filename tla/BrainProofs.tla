----------------------------- MODULE BrainProofs -----------------------------
(***************************************************************************)
(* Lemmas about the operators of the brain, for any plans that satisfy     *)
(* PlanAssumption.                                                         *)
(***************************************************************************)
EXTENDS Brain, TLAPS

\* A rung is named by its plan and an index on that plan's ladder.
LEMMA RungPair ==
    ASSUME NEW r \in AllRungs
    PROVE  /\ r = <<r[1], r[2]>>
           /\ r[1] \in Plans
           /\ r[2] \in RungsOf(r[1])
BY DEF AllRungs

LEMMA RungOfPlan ==
    ASSUME NEW p \in Plans, NEW i \in RungsOf(p)
    PROVE  /\ <<p, i>> \in AllRungs
           /\ i \in Nat
           /\ Cost[p][i] \in Nat
           /\ Budget[p] \in Nat
BY PlanAssumption DEF AllRungs, RungsOf

\* Booking keeps the plan and adds the rung's estimate (brain.Approve).
LEMMA BookedLadder ==
    ASSUME NEW l \in Ladder, NEW i \in RungsOf(l.plan)
    PROVE  /\ Booked(l, i) \in Ladder
           /\ Booked(l, i).plan = l.plan
           /\ Booked(l, i).spent = l.spent + Cost[l.plan][i]
           /\ Booked(l, i).cursor = l.cursor + 1
<1>1. l.plan \in Plans /\ l.cursor \in Nat /\ l.spent \in Nat
  BY DEF Ladder
<1>2. Cost[l.plan][i] \in Nat
  BY <1>1, RungOfPlan
<1> QED
  BY <1>1, <1>2 DEF Booked, Ladder

\* A fresh plan has spent nothing (brain.Propose).
LEMMA ProposedLadder ==
    ASSUME NEW p \in Plans
    PROVE  /\ Proposed(p) \in Ladder
           /\ Proposed(p).plan = p
           /\ Proposed(p).spent = 0
           /\ Proposed(p).cursor = 0
BY DEF Proposed, Ladder

LEMMA FirstRung ==
    ASSUME NEW p \in Plans
    PROVE  0 \in RungsOf(p)
BY PlanAssumption DEF RungsOf

\* The fields of a ladder.
LEMMA LadderFields ==
    ASSUME NEW l \in Ladder
    PROVE  l.plan \in Plans /\ l.cursor \in Nat /\ l.spent \in Nat
BY DEF Ladder

=============================================================================
