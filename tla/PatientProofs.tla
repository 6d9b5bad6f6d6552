----------------------------- MODULE PatientProofs -----------------------------
(***************************************************************************)
(* Proofs about a patient user of the deployed loop, one who asks again    *)
(* only once every started rung has ended: Go launches the rung on the     *)
(* card, the loop implements HumanInTheLoop, the climb is cheapest first,  *)
(* no rung runs twice, the envelope holds above the first rung, and a      *)
(* receipt adds up; for any plans, any costs, any number of cards and      *)
(* every failure.                                                          *)
(***************************************************************************)
EXTENDS WebLoopProofs

USE DEF Idle, Busy, Settled, OnePlanAtATime, NoCardWhileAsking, SeedingCurrent, LiveIsCurrent,
        RequestIsTheCard, LaunchIsTheCard, Launched, Live

\* What the steps below need of the types, and no more.
LEMMA AcceptanceTypes ==
    ASSUME Acceptance
    PROVE  /\ OnePlanAtATime
           /\ WellFormed
           /\ tip \in Plans
           /\ current \in Ladder \cup {NoLadder}
           /\ shown \subseteq CardIds
           /\ ui \in [CardIds -> Idle \cup Busy \cup Settled]
           /\ rpc \in [CardIds -> {"none", "posted", "launched", "handed", "ok", "failed"}]
           /\ card \in [CardIds -> AllRungs \cup {NoRung}]
           /\ ran \in [CardIds -> AllRungs \cup {NoRung}]
           /\ held \in [CardIds -> Ladder \cup {NoLadder}]
BY DEF Acceptance, Money, TypeOK

LEMMA AcceptanceInit == Init => Acceptance
<1> SUFFICES ASSUME Init PROVE OnePlanAtATime
  BY MoneyInit DEF Acceptance
<1> QED
  BY DEF Init

LEMMA OnePlanSubmit ==
    ASSUME Acceptance, Patient, NEW p \in Plans, Submit(p)
    PROVE  OnePlanAtATime'
BY NoRungIsNone, AcceptanceTypes
   DEF Submit, WellFormed, pageVars, serverVars

LEMMA OnePlanReload ==
    ASSUME Acceptance, Reload
    PROVE  OnePlanAtATime'
BY AcceptanceTypes
   DEF Reload, WellFormed, pageVars, serverVars

LEMMA OnePlanProposeEnds ==
    ASSUME Acceptance, ProposeEnds
    PROVE  OnePlanAtATime'
BY AcceptanceTypes
   DEF ProposeEnds, WellFormed, pageVars, serverVars

LEMMA OnePlanProposeAnswered ==
    ASSUME Acceptance, ProposeAnswered
    PROVE  OnePlanAtATime'
BY ProposedLadder, NoRungIsNone, AcceptanceTypes
   DEF ProposeAnswered, WellFormed, pageVars, serverVars

LEMMA OnePlanSeeded ==
    ASSUME Acceptance, NEW c \in CardIds, Seeded(c)
    PROVE  OnePlanAtATime'
BY AcceptanceTypes
   DEF Seeded, WellFormed, pageVars, serverVars, AddCard

LEMMA OnePlanClickGo ==
    ASSUME Acceptance, NEW c \in CardIds, ClickGo(c)
    PROVE  OnePlanAtATime'
BY AcceptanceTypes
   DEF ClickGo, WellFormed, pageVars, serverVars

LEMMA OnePlanApproveAnswered ==
    ASSUME Acceptance, NEW c \in CardIds, ApproveAnswered(c)
    PROVE  OnePlanAtATime'
BY BookedLadder, NoRungIsNone, AcceptanceTypes
   DEF ApproveAnswered, WellFormed, pageVars, serverVars, LaunchIsBilled, Unbooked, Acceptance, Money

LEMMA OnePlanApproveRefused ==
    ASSUME Acceptance, NEW c \in CardIds, ApproveRefused(c)
    PROVE  OnePlanAtATime'
BY AcceptanceTypes
   DEF ApproveRefused, WellFormed, pageVars, serverVars

LEMMA OnePlanPollDone ==
    ASSUME Acceptance, NEW c \in CardIds, PollDone(c)
    PROVE  OnePlanAtATime'
<1>1. held[c] # NoLadder /\ held[c].plan = card[c][1] /\ Live(c)
  BY AcceptanceTypes, NoRungIsNone DEF PollDone, WellFormed
<1>2. current # NoLadder /\ current.plan = held[c].plan
  BY <1>1, AcceptanceTypes
<1>3. current' = held[c] /\ UNCHANGED <<asking, tip, shown, card, held, rpc, ran>>
  BY DEF PollDone, serverVars
<1>4. \A d \in CardIds : Live(d)' => Live(d)
  BY <1>3, AcceptanceTypes DEF PollDone
<1>5. NoCardWhileAsking' /\ SeedingCurrent' /\ LiveIsCurrent'
  BY <1>1, <1>2, <1>3, <1>4, AcceptanceTypes
<1>6. RequestIsTheCard' /\ LaunchIsTheCard'
  BY <1>3, AcceptanceTypes
<1> QED
  BY <1>5, <1>6

LEMMA OnePlanPollFails ==
    ASSUME Acceptance, NEW c \in CardIds, PollFails(c)
    PROVE  OnePlanAtATime'
BY AcceptanceTypes
   DEF PollFails, WellFormed, pageVars, serverVars

LEMMA OnePlanNextCard ==
    ASSUME Acceptance, NEW c \in CardIds, NEW d \in CardIds, NextCard(c, d)
    PROVE  OnePlanAtATime'
<1>1. /\ ui[d] = "none" /\ rpc[d] = "none" /\ ran[d] = NoRung
      /\ card' = [card EXCEPT ![d] = <<held[c].plan, NextRung(held[c])>>]
      /\ UNCHANGED <<current, asking, tip, held, rpc, ran>>
  BY AcceptanceTypes DEF NextCard, AddCard, WellFormed, serverVars
<1>2. card'[d][1] = held[c].plan
  BY <1>1, AcceptanceTypes
<1>3. \A e \in CardIds : e # d => card'[e] = card[e]
  BY <1>1, AcceptanceTypes
<1>4. Live(c) /\ current # NoLadder /\ current.plan = held[c].plan /\ asking = "idle"
  <2>1. Live(c) /\ rpc[c] # "none"
    BY AcceptanceTypes, NoRungIsNone DEF NextCard, WellFormed
  <2> QED
    BY <2>1, AcceptanceTypes
<1>5. \A e \in CardIds : Live(e)' => Live(e) \/ e = d
  BY AcceptanceTypes DEF NextCard, AddCard
<1>6. NoCardWhileAsking' /\ SeedingCurrent' /\ LiveIsCurrent'
  BY <1>1, <1>2, <1>3, <1>4, <1>5, AcceptanceTypes
<1>7. RequestIsTheCard' /\ LaunchIsTheCard'
  BY <1>1, <1>3, AcceptanceTypes
<1> QED
  BY <1>6, <1>7

LEMMA OnePlanApproveRejects ==
    ASSUME Acceptance, NEW c \in CardIds, ApproveRejects(c)
    PROVE  OnePlanAtATime'
BY AcceptanceTypes
   DEF ApproveRejects, WellFormed, pageVars, serverVars

LEMMA OnePlanApproveLaunches ==
    ASSUME Acceptance, NEW c \in CardIds, ApproveLaunches(c)
    PROVE  OnePlanAtATime'
BY RungPair, NoRungIsNone, AcceptanceTypes
   DEF ApproveLaunches, WellFormed, pageVars, serverVars

LEMMA OnePlanApproveHandsOver ==
    ASSUME Acceptance, NEW c \in CardIds, ApproveHandsOver(c)
    PROVE  OnePlanAtATime'
BY AcceptanceTypes
   DEF ApproveHandsOver, WellFormed, pageVars, serverVars

LEMMA OnePlanApproveRecords ==
    ASSUME Acceptance, NEW c \in CardIds, ApproveRecords(c)
    PROVE  OnePlanAtATime'
BY AcceptanceTypes
   DEF ApproveRecords, WellFormed, pageVars, serverVars

LEMMA OnePlanTraceEnds ==
    ASSUME Acceptance, NEW c \in CardIds, TraceEnds(c)
    PROVE  OnePlanAtATime'
BY AcceptanceTypes
   DEF TraceEnds, WellFormed, pageVars, serverVars

LEMMA AcceptanceStep ==
    ASSUME Patient, Acceptance, [Next]_vars
    PROVE  Acceptance'
<1>1. Money'
  BY MoneyStep DEF Acceptance
<1>2. CASE UNCHANGED vars
  BY <1>1, <1>2, AcceptanceTypes DEF vars, pageVars, serverVars, Acceptance
<1>3. ASSUME NEW p \in Plans, Submit(p) PROVE OnePlanAtATime'
  BY <1>3, OnePlanSubmit
<1>4. CASE Reload \/ ProposeEnds \/ ProposeAnswered
  BY <1>1, <1>4, OnePlanReload, OnePlanProposeEnds, OnePlanProposeAnswered DEF Acceptance
<1>5. ASSUME NEW c \in CardIds, ClickGo(c) \/ TraceEnds(c) PROVE OnePlanAtATime'
  BY <1>5, OnePlanClickGo, OnePlanTraceEnds
<1>6. ASSUME NEW c \in CardIds, Callback(c) PROVE OnePlanAtATime'
  BY <1>6, OnePlanSeeded, OnePlanApproveAnswered, OnePlanApproveRefused,
     OnePlanPollDone, OnePlanPollFails, OnePlanNextCard DEF Callback
<1>7. ASSUME NEW c \in CardIds, Serve(c) PROVE OnePlanAtATime'
  BY <1>7, OnePlanApproveRejects, OnePlanApproveLaunches, OnePlanApproveHandsOver,
     OnePlanApproveRecords DEF Serve
<1> QED
  BY <1>1, <1>2, <1>3, <1>4, <1>5, <1>6, <1>7 DEF Next, Acceptance

LEMMA AcceptanceInvariant ==
    ASSUME Patient
    PROVE  Spec => []Acceptance
<1>1. Acceptance /\ [Next]_vars => Acceptance'
  BY AcceptanceStep
<1> QED
  BY <1>1, AcceptanceInit, PTL DEF Spec

(***************************************************************************)
(* To a user who asks again only once every started rung has ended, Go     *)
(* launches the rung on the card (app.js rungCard, runRung; handleApprove).*)
(***************************************************************************)
THEOREM GoRunsTheCard ==
    ASSUME Patient
    PROVE  Spec => []LaunchIsTheCard
<1>1. Acceptance => LaunchIsTheCard
  BY AcceptanceTypes
<1> QED
  BY <1>1, AcceptanceInvariant, PTL

-----------------------------------------------------------------------------
(***************************************************************************)
(* The loop implements HumanInTheLoop.                                     *)
(***************************************************************************)

\* What most steps do to the acceptance node: nothing.
LEMMA QuietStep ==
    ASSUME UNCHANGED <<card, rpc, ran>>,
           \A c \in CardIds : (ui[c] # "none") <=> (ui'[c] # "none")
    PROVE  UNCHANGED <<Offers, Goes, Launches>>
BY DEF Offers, Goes, Launches, CardIds

\* A new card is an offer that was not made before.
LEMMA OfferStep ==
    ASSUME Acceptance, NEW p \in Plans, NEW i \in RungsOf(p), NEW d \in CardIds,
           AddCard(p, i, d),
           \A c \in CardIds : c # d => ((ui[c] # "none") <=> (ui'[c] # "none")),
           ui'[d] # "none",
           UNCHANGED <<rpc, ran>>
    PROVE  HITL!Offer(<<d, <<p, i>>>>)
<1> DEFINE r == <<p, i>>
<1>1. /\ ui[d] = "none" /\ rpc[d] = "none"
      /\ card' = [card EXCEPT ![d] = r]
  BY AcceptanceTypes DEF AddCard, WellFormed
<1>2. card'[d] = r /\ \A c \in CardIds : c # d => card'[c] = card[c]
  BY <1>1, AcceptanceTypes
<1> HIDE DEF r
<1>3. <<d, r>> \notin Offers
  BY <1>1 DEF Offers
<1>4. Offers' = Offers \cup {<<d, r>>}
  BY <1>1, <1>2 DEF Offers, CardIds
<1>5. Goes' = Goes
  BY <1>1, <1>2 DEF Goes, CardIds
<1>6. Launches' = Launches
  BY DEF Launches, CardIds
<1> QED
  BY <1>3, <1>4, <1>5, <1>6 DEF HITL!Offer, r

LEMMA GoStep ==
    ASSUME Acceptance, NEW c \in CardIds, ClickGo(c)
    PROVE  HITL!Go(<<c, card[c]>>)
<1>1. /\ ui[c] = "fresh" /\ rpc[c] = "none"
      /\ rpc' = [rpc EXCEPT ![c] = "posted"]
      /\ ui' = [ui EXCEPT ![c] = "approving"]
      /\ UNCHANGED <<card, ran>>
  BY AcceptanceTypes DEF ClickGo, WellFormed
<1>2. <<c, card[c]>> \in Offers
  BY <1>1 DEF Offers
<1>3. <<c, card[c]>> \notin Goes
  BY <1>1 DEF Goes
<1>4. Goes' = Goes \cup {<<c, card[c]>>}
  BY <1>1, AcceptanceTypes DEF Goes, CardIds
<1>5. Offers' = Offers /\ Launches' = Launches
  BY <1>1, AcceptanceTypes DEF Offers, Launches, CardIds
<1> QED
  BY <1>2, <1>3, <1>4, <1>5 DEF HITL!Go

LEMMA LaunchStep ==
    ASSUME Acceptance, NEW c \in CardIds, ApproveLaunches(c)
    PROVE  HITL!Launch(<<c, card[c]>>)
<1>1. /\ rpc[c] = "posted" /\ ran[c] = NoRung
      /\ rpc'[c] # "none" /\ \A d \in CardIds : d # c => rpc'[d] = rpc[d]
      /\ UNCHANGED <<card, ui>>
  BY AcceptanceTypes DEF ApproveLaunches, pageVars
<1>2. card[c] \in AllRungs /\ ran' = [ran EXCEPT ![c] = card[c]]
  BY AcceptanceTypes, RungPair DEF ApproveLaunches, WellFormed
<1>3. <<c, card[c]>> \in Goes
  BY <1>1 DEF Goes
<1>4. <<c, card[c]>> \notin Launches
  BY <1>1 DEF Launches
<1>5. Launches' = Launches \cup {<<c, card[c]>>}
  BY <1>1, <1>2, AcceptanceTypes, NoRungIsNone DEF Launches, CardIds
<1>6. Offers' = Offers /\ Goes' = Goes
  BY <1>1 DEF Offers, Goes, CardIds
<1> QED
  BY <1>3, <1>4, <1>5, <1>6 DEF HITL!Launch

LEMMA NextIsAccepted ==
    ASSUME Acceptance, [Next]_vars
    PROVE  [HITL!Next]_HITL!loopVars
<1> SUFFICES \/ HITL!Next
             \/ UNCHANGED <<Offers, Goes, Launches>>
  BY DEF HITL!loopVars
<1>1. CASE UNCHANGED vars
  BY <1>1, QuietStep DEF vars, pageVars, serverVars
<1>2. ASSUME NEW p \in Plans, Submit(p) PROVE UNCHANGED <<Offers, Goes, Launches>>
  BY <1>2, QuietStep DEF Submit, serverVars
<1>3. CASE Reload
  BY <1>3, QuietStep DEF Reload, serverVars
<1>4. CASE ProposeEnds \/ ProposeAnswered
  BY <1>4, QuietStep DEF ProposeEnds, ProposeAnswered, serverVars
<1>5. ASSUME NEW c \in CardIds, ClickGo(c) PROVE HITL!Next
  <2>1. <<c, card[c]>> \in CardIds \X AllRungs
    BY <1>5, AcceptanceTypes DEF ClickGo, WellFormed
  <2> QED
    BY <1>5, <2>1, GoStep DEF HITL!Next
<1>6. ASSUME NEW c \in CardIds, TraceEnds(c) PROVE UNCHANGED <<Offers, Goes, Launches>>
  BY <1>6, QuietStep DEF TraceEnds, pageVars, serverVars
<1>7. ASSUME NEW c \in CardIds, Callback(c)
      PROVE  HITL!Next \/ UNCHANGED <<Offers, Goes, Launches>>
  <2>1. CASE Seeded(c)
    <3>1. tip \in Plans /\ 0 \in RungsOf(tip) /\ <<c, <<tip, 0>>>> \in CardIds \X AllRungs
      BY AcceptanceTypes, FirstRung, RungOfPlan
    <3>2. HITL!Offer(<<c, <<tip, 0>>>>)
      BY <2>1, <3>1, OfferStep, AcceptanceTypes DEF Seeded, serverVars
    <3> QED
      BY <3>1, <3>2 DEF HITL!Next
  <2>2. ASSUME NEW d \in CardIds, NextCard(c, d) PROVE HITL!Next
    <3> DEFINE p == held[c].plan
               i == NextRung(held[c])
    <3>1. p \in Plans /\ i \in RungsOf(p)
      BY <2>2, AcceptanceTypes DEF NextCard, WellFormed, HasNext, NextRung, Ladder
    <3>2. <<d, <<p, i>>>> \in CardIds \X AllRungs
      BY <3>1, RungOfPlan
    <3>3. /\ AddCard(p, i, d)
          /\ ui[c] # "none" /\ ui[d] = "none"
          /\ ui' = [ui EXCEPT ![c] = "done", ![d] = "fresh"]
          /\ UNCHANGED <<rpc, ran>>
      BY <2>2 DEF NextCard, AddCard, serverVars
    <3> HIDE DEF p, i
    <3>4. /\ ui'[d] # "none"
          /\ \A e \in CardIds : e # d => ((ui[e] # "none") <=> (ui'[e] # "none"))
      BY <3>3, AcceptanceTypes
    <3>5. HITL!Offer(<<d, <<p, i>>>>)
      BY <3>1, <3>3, <3>4, OfferStep
    <3> QED
      BY <3>2, <3>5 DEF HITL!Next
  <2>3. CASE ApproveAnswered(c) \/ ApproveRefused(c) \/ PollDone(c) \/ PollFails(c)
    <3>1. /\ UNCHANGED <<card, rpc, ran>>
          /\ ui[c] # "none"
          /\ \E v \in Busy \cup Settled : ui' = [ui EXCEPT ![c] = v]
      BY <2>3 DEF ApproveAnswered, ApproveRefused, PollDone, PollFails, serverVars
    <3>2. \A d \in CardIds : (ui[d] # "none") <=> (ui'[d] # "none")
      BY <3>1, AcceptanceTypes
    <3> QED
      BY <3>1, <3>2, QuietStep
  <2> QED
    BY <1>7, <2>1, <2>2, <2>3 DEF Callback
<1>8. ASSUME NEW c \in CardIds, Serve(c)
      PROVE  HITL!Next \/ UNCHANGED <<Offers, Goes, Launches>>
  <2>1. CASE ApproveLaunches(c)
    <3>1. <<c, card[c]>> \in CardIds \X AllRungs
      BY <2>1, AcceptanceTypes DEF ApproveLaunches, WellFormed
    <3> QED
      BY <2>1, <3>1, LaunchStep DEF HITL!Next
  <2>2. CASE ApproveRejects(c) \/ ApproveHandsOver(c) \/ ApproveRecords(c)
    <3>1. /\ UNCHANGED <<card, ui, ran>>
          /\ rpc[c] # "none"
          /\ \E v \in {"failed", "handed", "ok"} : rpc' = [rpc EXCEPT ![c] = v]
      BY <2>2 DEF ApproveRejects, ApproveHandsOver, ApproveRecords, pageVars
    <3>2. \A d \in CardIds : (rpc[d] # "none") <=> (rpc'[d] # "none")
      BY <3>1, AcceptanceTypes
    <3> QED
      BY <3>1, <3>2 DEF Offers, Goes, Launches, CardIds
  <2> QED
    BY <1>8, <2>1, <2>2 DEF Serve
<1> QED
  BY <1>1, <1>2, <1>3, <1>4, <1>5, <1>6, <1>7, <1>8 DEF Next

(***************************************************************************)
(* The deployed loop implements the acceptance node for a patient user:    *)
(* every launch is of a rung that was shown on a card and that the human   *)
(* said Go to, and it happens once.                                        *)
(***************************************************************************)
THEOREM LoopImplementsAcceptance ==
    ASSUME Patient
    PROVE  Spec => HITLSpec
<1>1. Init => HITL!Init
  BY DEF Init, HITL!Init, Offers, Goes, Launches, CardIds
<1>2. Acceptance /\ [Next]_vars => [HITL!Next]_HITL!loopVars
  BY NextIsAccepted
<1> QED
  BY <1>1, <1>2, AcceptanceInvariant, PTL DEF Spec, HITLSpec, HITL!Spec

-----------------------------------------------------------------------------
(***************************************************************************)
(* The climb, one rung at a time.                                          *)
(***************************************************************************)

USE DEF CardIds, OneActor, ActorIsTop, DealtOnce, AskedOnce, CheapestFirst,
        ClimbStaysInEnvelope, Dealt, Acting

\* The parts of Climb that OnePlanAtATime does not know.
Climbing ==
    /\ OneActor /\ ActorIsTop /\ DealtOnce /\ AskedOnce /\ LadderInStep
    /\ CheapestFirst /\ ClimbStaysInEnvelope

\* What the steps below need of the types, and no more.
LEMMA ClimbTypes ==
    ASSUME Climb
    PROVE  /\ OnePlanAtATime /\ WellFormed /\ Climbing
           /\ tip \in Plans /\ planned \subseteq Plans
           /\ asking \in {"idle", "asking", "seeding"}
           /\ current \in Ladder \cup {NoLadder}
           /\ shown \subseteq CardIds
           /\ ui \in [CardIds -> Idle \cup Busy \cup Settled]
           /\ rpc \in [CardIds -> {"none", "posted", "launched", "handed", "ok", "failed"}]
           /\ card \in [CardIds -> AllRungs \cup {NoRung}]
           /\ ran \in [CardIds -> AllRungs \cup {NoRung}]
           /\ held \in [CardIds -> Ladder \cup {NoLadder}]
           /\ trace \in [CardIds -> {"running", "ok", "failed"}]
           /\ bill \in [Plans -> Nat]
           /\ NoRung \notin AllRungs /\ NoLadder \notin Ladder
BY NoRungIsNone DEF Climb, Climbing, Acceptance, Money, TypeOK

\* A dealt card shows a rung of its plan.
LEMMA DealtCard ==
    ASSUME Climb, NEW c \in CardIds, Dealt(c)
    PROVE  /\ card[c] \in AllRungs
           /\ card[c] = <<card[c][1], card[c][2]>>
           /\ card[c][1] \in Plans
           /\ card[c][2] \in RungsOf(card[c][1])
           /\ card[c][2] \in Nat
           /\ Cost[card[c][1]][card[c][2]] \in Nat
<1>1. card[c] \in AllRungs
  BY ClimbTypes DEF WellFormed
<1> QED
  BY <1>1, RungPair, RungOfPlan

\* A request belongs to a card that was dealt, and so does whatever acts.
LEMMA ActorIsDealt ==
    ASSUME Climb, NEW c \in CardIds, Acting(c)
    PROVE  Dealt(c)
BY ClimbTypes DEF WellFormed

LEMMA ClimbInit == Init => Climb
<1> SUFFICES ASSUME Init PROVE Climbing
  BY AcceptanceInit DEF Climb, Climbing
<1> QED
  BY DEF Init, Climbing, LadderInStep, CardInStep, Unbooked

-----------------------------------------------------------------------------
(***************************************************************************)
(* The steps that deal no card and launch nothing.                         *)
(***************************************************************************)

\* The deal is as good as it was if nothing new can act.
LEMMA QuietDeal ==
    ASSUME Climb, UNCHANGED <<card, ran, bill>>,
           \A c \in CardIds :
              /\ Dealt(c)' <=> Dealt(c)
              /\ Acting(c)' => Acting(c)
              /\ trace[c] = "ok" => trace'[c] = "ok"
    PROVE  OneActor' /\ ActorIsTop' /\ DealtOnce' /\ CheapestFirst' /\ ClimbStaysInEnvelope'
<1> USE DEF Climbing
<1>1. OneActor' /\ ActorIsTop' /\ DealtOnce'
  BY ClimbTypes
<1>2. CheapestFirst'
  BY ClimbTypes
<1>3. ClimbStaysInEnvelope'
  BY ClimbTypes
<1> QED
  BY <1>1, <1>2, <1>3

\* One card moves: the others are in step as they were.
LEMMA OneMoves ==
    ASSUME Climb, NEW c \in CardIds,
           UNCHANGED <<asking, tip, planned, current, held, bill, card, shown>>,
           \A d \in CardIds \ {c} :
              ui'[d] = ui[d] /\ rpc'[d] = rpc[d] /\ trace'[d] = trace[d] /\ ran'[d] = ran[d],
           Dealt(c)' <=> Dealt(c),
           CardInStep(c)'
    PROVE  AskedOnce' /\ LadderInStep'
<1>1. AskedOnce'
  BY ClimbTypes DEF Climbing
<1>2. ASSUME NEW d \in CardIds \ {c} PROVE CardInStep(d)'
  BY <1>2, ClimbTypes DEF Climbing, LadderInStep, CardInStep, Unbooked, Ready, Affordable
<1> QED
  BY <1>1, <1>2, ClimbTypes DEF Climbing, LadderInStep

LEMMA ClimbApproveRefused ==
    ASSUME Climb, NEW c \in CardIds, ApproveRefused(c)
    PROVE  Climbing'
<1>1. CardInStep(c)'
  BY ClimbTypes
     DEF ApproveRefused, Climbing, LadderInStep, CardInStep, Unbooked, Ready, Affordable, serverVars
<1>2. AskedOnce' /\ LadderInStep'
  BY <1>1, OneMoves, ClimbTypes DEF ApproveRefused, WellFormed, serverVars
<1>3. OneActor' /\ ActorIsTop' /\ DealtOnce' /\ CheapestFirst' /\ ClimbStaysInEnvelope'
  BY QuietDeal, ClimbTypes DEF ApproveRefused, WellFormed, serverVars
<1> QED
  BY <1>2, <1>3 DEF Climbing

LEMMA ClimbPollFails ==
    ASSUME Climb, NEW c \in CardIds, PollFails(c)
    PROVE  Climbing'
<1>1. CardInStep(c)'
  BY ClimbTypes
     DEF PollFails, Climbing, LadderInStep, CardInStep, Unbooked, Ready, Affordable, serverVars
<1>2. AskedOnce' /\ LadderInStep'
  BY <1>1, OneMoves, ClimbTypes DEF PollFails, WellFormed, serverVars
<1>3. OneActor' /\ ActorIsTop' /\ DealtOnce' /\ CheapestFirst' /\ ClimbStaysInEnvelope'
  BY QuietDeal, ClimbTypes DEF PollFails, WellFormed, serverVars
<1> QED
  BY <1>2, <1>3 DEF Climbing

LEMMA ClimbApproveRejects ==
    ASSUME Climb, NEW c \in CardIds, ApproveRejects(c)
    PROVE  Climbing'
<1>1. CardInStep(c)'
  BY ClimbTypes
     DEF ApproveRejects, Climbing, LadderInStep, CardInStep, Unbooked, Ready, Affordable, pageVars
<1>2. AskedOnce' /\ LadderInStep'
  BY <1>1, OneMoves, ClimbTypes DEF ApproveRejects, WellFormed, pageVars
<1>3. OneActor' /\ ActorIsTop' /\ DealtOnce' /\ CheapestFirst' /\ ClimbStaysInEnvelope'
  BY QuietDeal, ClimbTypes DEF ApproveRejects, WellFormed, pageVars
<1> QED
  BY <1>2, <1>3 DEF Climbing

LEMMA ClimbApproveHandsOver ==
    ASSUME Climb, NEW c \in CardIds, ApproveHandsOver(c)
    PROVE  Climbing'
<1>1. CardInStep(c)'
  <2>1. rpc' = [rpc EXCEPT ![c] = "handed"] \/ rpc' = [rpc EXCEPT ![c] = "failed"]
    BY DEF ApproveHandsOver
  <2>2. UNCHANGED <<pageVars, ran, bill, trace>> /\ rpc[c] = "launched"
    BY DEF ApproveHandsOver
  <2>3. CardInStep(c)
    BY ClimbTypes DEF Climbing, LadderInStep
  <2> QED
    BY <2>1, <2>2, <2>3, ClimbTypes DEF CardInStep, Unbooked, Ready, Affordable, pageVars
<1>2. AskedOnce' /\ LadderInStep'
  BY <1>1, OneMoves, ClimbTypes DEF ApproveHandsOver, WellFormed, pageVars
<1>3. OneActor' /\ ActorIsTop' /\ DealtOnce' /\ CheapestFirst' /\ ClimbStaysInEnvelope'
  BY QuietDeal, ClimbTypes DEF ApproveHandsOver, WellFormed, pageVars
<1> QED
  BY <1>2, <1>3 DEF Climbing

LEMMA ClimbApproveRecords ==
    ASSUME Climb, NEW c \in CardIds, ApproveRecords(c)
    PROVE  Climbing'
<1>1. CardInStep(c)'
  BY ClimbTypes
     DEF ApproveRecords, Climbing, LadderInStep, CardInStep, Unbooked, Ready, Affordable, pageVars
<1>2. AskedOnce' /\ LadderInStep'
  BY <1>1, OneMoves, ClimbTypes DEF ApproveRecords, WellFormed, pageVars
<1>3. OneActor' /\ ActorIsTop' /\ DealtOnce' /\ CheapestFirst' /\ ClimbStaysInEnvelope'
  BY QuietDeal, ClimbTypes DEF ApproveRecords, WellFormed, pageVars
<1> QED
  BY <1>2, <1>3 DEF Climbing

LEMMA ClimbTraceEnds ==
    ASSUME Climb, NEW c \in CardIds, TraceEnds(c)
    PROVE  Climbing'
<1>1. CardInStep(c)'
  BY ClimbTypes
     DEF TraceEnds, Climbing, LadderInStep, CardInStep, Unbooked, Ready, Affordable, pageVars, serverVars
<1>2. AskedOnce' /\ LadderInStep'
  BY <1>1, OneMoves, ClimbTypes DEF TraceEnds, WellFormed, pageVars, serverVars
<1>3. OneActor' /\ ActorIsTop' /\ DealtOnce' /\ CheapestFirst' /\ ClimbStaysInEnvelope'
  BY QuietDeal, ClimbTypes DEF TraceEnds, WellFormed, pageVars, serverVars
<1> QED
  BY <1>2, <1>3 DEF Climbing

LEMMA ClimbReload ==
    ASSUME Climb, Reload
    PROVE  Climbing'
<1>1. OneActor' /\ ActorIsTop' /\ DealtOnce' /\ CheapestFirst' /\ ClimbStaysInEnvelope'
  BY QuietDeal, ClimbTypes DEF Reload, WellFormed, serverVars
<1>2. AskedOnce'
  BY ClimbTypes, DealtCard DEF Reload, Climbing, serverVars
<1>3. LadderInStep'
  BY ClimbTypes
     DEF Reload, Climbing, LadderInStep, CardInStep, Unbooked, Ready, Affordable, WellFormed, serverVars
<1> QED
  BY <1>1, <1>2, <1>3 DEF Climbing

LEMMA ClimbProposeEnds ==
    ASSUME Climb, ProposeEnds
    PROVE  Climbing'
<1>1. OneActor' /\ ActorIsTop' /\ DealtOnce' /\ CheapestFirst' /\ ClimbStaysInEnvelope'
  BY QuietDeal, ClimbTypes DEF ProposeEnds, WellFormed, serverVars
<1>2. AskedOnce'
  BY ClimbTypes, DealtCard DEF ProposeEnds, Climbing, serverVars
<1>3. LadderInStep'
  BY ClimbTypes
     DEF ProposeEnds, Climbing, LadderInStep, CardInStep, Unbooked, Ready, Affordable, WellFormed, serverVars
<1> QED
  BY <1>1, <1>2, <1>3 DEF Climbing

LEMMA ClimbProposeAnswered ==
    ASSUME Climb, ProposeAnswered
    PROVE  Climbing'
<1>1. OneActor' /\ ActorIsTop' /\ DealtOnce' /\ CheapestFirst' /\ ClimbStaysInEnvelope'
  BY QuietDeal, ClimbTypes DEF ProposeAnswered, WellFormed, serverVars
<1>2. AskedOnce'
  BY ClimbTypes, DealtCard DEF ProposeAnswered, Climbing, serverVars
<1>3. LadderInStep'
  BY ClimbTypes
     DEF ProposeAnswered, Climbing, LadderInStep, CardInStep, Unbooked, Ready, Affordable, WellFormed, serverVars
<1> QED
  BY <1>1, <1>2, <1>3 DEF Climbing

LEMMA ClimbSubmit ==
    ASSUME Climb, Patient, NEW p \in Plans, Submit(p)
    PROVE  Climbing'
<1>1. OneActor' /\ ActorIsTop' /\ DealtOnce' /\ CheapestFirst' /\ ClimbStaysInEnvelope'
  BY QuietDeal, ClimbTypes DEF Submit, WellFormed, serverVars
<1>2. AskedOnce'
  BY ClimbTypes, DealtCard DEF Submit, Climbing, serverVars
<1>3. LadderInStep'
  BY ClimbTypes
     DEF Submit, Climbing, LadderInStep, CardInStep, Unbooked, Ready, Affordable, WellFormed, serverVars
<1> QED
  BY <1>1, <1>2, <1>3 DEF Climbing

-----------------------------------------------------------------------------
(***************************************************************************)
(* The steps that move a rung on.                                          *)
(***************************************************************************)

LEMMA ClimbClickGo ==
    ASSUME Climb, NEW c \in CardIds, ClickGo(c)
    PROVE  Climbing'
<1>1. OneActor' /\ ActorIsTop' /\ DealtOnce' /\ CheapestFirst' /\ ClimbStaysInEnvelope'
  BY QuietDeal, ClimbTypes DEF ClickGo, WellFormed
<1>2. /\ c \in shown /\ ui[c] = "fresh" /\ rpc[c] = "none"
      /\ current \in Ladder /\ asking = "idle"
      /\ Ready(current, card[c][2])
  BY ClimbTypes DEF ClickGo, WellFormed, Climbing, LadderInStep, CardInStep
<1>3. /\ held'[c] = current /\ ui'[c] = "approving" /\ rpc'[c] = "posted"
      /\ \A d \in CardIds \ {c} : held'[d] = held[d] /\ ui'[d] = ui[d] /\ rpc'[d] = rpc[d]
      /\ UNCHANGED <<current, asking, tip, planned, shown, card, ran, bill, trace>>
  BY ClimbTypes DEF ClickGo
<1>4. CardInStep(c)'
  BY <1>2, <1>3 DEF CardInStep, Unbooked, Ready, Affordable
<1>5. ASSUME NEW d \in CardIds \ {c} PROVE CardInStep(d)'
  <2>1. CardInStep(d)
    BY ClimbTypes DEF Climbing, LadderInStep
  <2> QED
    BY <1>3, <2>1 DEF CardInStep, Unbooked, Ready, Affordable
<1>6. AskedOnce'
  BY <1>2, <1>3, ClimbTypes DEF Climbing
<1> QED
  BY <1>1, <1>2, <1>3, <1>4, <1>5, <1>6 DEF Climbing, LadderInStep

LEMMA ClimbApproveAnswered ==
    ASSUME Climb, NEW c \in CardIds, ApproveAnswered(c)
    PROVE  Climbing'
<1> DEFINE l == Booked(held[c], card[c][2])
<1>1. OneActor' /\ ActorIsTop' /\ DealtOnce' /\ CheapestFirst' /\ ClimbStaysInEnvelope'
  BY QuietDeal, ClimbTypes DEF ApproveAnswered, WellFormed, serverVars
<1>2. /\ ui[c] = "approving" /\ rpc[c] = "ok" /\ asking = "idle"
      /\ held[c] \in Ladder /\ held[c].plan = card[c][1]
      /\ card[c][2] \in RungsOf(held[c].plan)
      /\ CardInStep(c)
  BY ClimbTypes, DealtCard DEF ApproveAnswered, Climbing, LadderInStep
<1>3. /\ l \in Ladder /\ l.plan = card[c][1]
      /\ l.cursor = card[c][2] + 1
      /\ l.spent = bill[card[c][1]]
  BY <1>2, BookedLadder DEF CardInStep, Unbooked
<1>4. /\ current' = l /\ held'[c] = l /\ ui'[c] = "polling"
      /\ \A d \in CardIds \ {c} : held'[d] = held[d] /\ ui'[d] = ui[d]
      /\ UNCHANGED <<asking, tip, planned, shown, card, rpc, ran, bill, trace>>
  BY ClimbTypes DEF ApproveAnswered, serverVars
<1> HIDE DEF l
<1>5. CardInStep(c)'
  BY <1>2, <1>3, <1>4 DEF CardInStep, Unbooked, Ready, Affordable
<1>6. ASSUME NEW d \in CardIds \ {c} PROVE CardInStep(d)'
  <2>1. CardInStep(d)
    BY ClimbTypes DEF Climbing, LadderInStep
  <2>2. ~Live(d)
    BY <1>2, ClimbTypes DEF Climbing
  <2> QED
    BY <1>4, <2>1, <2>2 DEF CardInStep, Unbooked, Ready, Affordable
<1>7. AskedOnce'
  BY <1>2, <1>4, ClimbTypes DEF Climbing
<1> QED
  BY <1>1, <1>2, <1>4, <1>5, <1>6, <1>7 DEF Climbing, LadderInStep

LEMMA ClimbPollDone ==
    ASSUME Climb, NEW c \in CardIds, PollDone(c)
    PROVE  Climbing'
<1>1. /\ CardInStep(c) /\ ui[c] = "polling" /\ trace[c] = "ok"
  BY ClimbTypes DEF PollDone, Climbing, LadderInStep
<1>2. \/ ui' = [ui EXCEPT ![c] = "climbing"] /\ Affordable(held[c], card[c][2] + 1)
      \/ ui' = [ui EXCEPT ![c] = "done"]
  BY DEF PollDone, Climbs
<1>3. UNCHANGED <<current, asking, tip, planned, shown, card, held, rpc, ran, bill, trace>>
  BY <1>1, ClimbTypes DEF PollDone, serverVars, CardInStep
<1>4. OneActor' /\ ActorIsTop' /\ DealtOnce' /\ CheapestFirst' /\ ClimbStaysInEnvelope'
  BY <1>1, <1>2, <1>3, QuietDeal, ClimbTypes
<1>5. CardInStep(c)'
  BY <1>1, <1>2, <1>3, ClimbTypes DEF CardInStep, Unbooked, Affordable
<1>6. AskedOnce' /\ LadderInStep'
  BY <1>1, <1>2, <1>3, <1>5, OneMoves, ClimbTypes
<1> QED
  BY <1>4, <1>6 DEF Climbing

-----------------------------------------------------------------------------
(***************************************************************************)
(* The steps that deal a card, and the launch.                             *)
(***************************************************************************)

LEMMA ClimbSeeded ==
    ASSUME Climb, NEW c \in CardIds, Seeded(c)
    PROVE  Climbing'
<1>1. /\ asking = "seeding" /\ current = Proposed(tip) /\ bill[tip] = 0
      /\ ui[c] = "none" /\ rpc[c] = "none" /\ ran[c] = NoRung
      /\ tip \in planned
      /\ \A d \in CardIds : ~Live(d)
      /\ \A d \in CardIds : Dealt(d) => card[d][1] # tip
  BY ClimbTypes DEF Seeded, AddCard, Climbing, LadderInStep, WellFormed
<1>2. /\ card'[c] = <<tip, 0>> /\ ui'[c] = "fresh" /\ asking' = "idle"
      /\ shown' = shown \cup {c}
      /\ \A d \in CardIds \ {c} : card'[d] = card[d] /\ ui'[d] = ui[d]
      /\ UNCHANGED <<current, tip, planned, held, rpc, ran, bill, trace>>
  BY ClimbTypes DEF Seeded, AddCard, serverVars
<1>3. OneActor' /\ ActorIsTop' /\ DealtOnce'
  <2>1. /\ OneActor /\ ActorIsTop /\ DealtOnce
        /\ \A d \in CardIds : Acting(d) => Dealt(d)
    BY ClimbTypes, ActorIsDealt DEF Climbing
  <2>2. \A d \in CardIds \ {c} :
           /\ Acting(d)' <=> Acting(d)
           /\ Dealt(d)' <=> Dealt(d)
           /\ card'[d] = card[d]
           /\ Dealt(d) => card[d][1] # tip
    BY <1>1, <1>2
  <2>3. card'[c][1] = tip /\ card'[c][2] = 0
    BY <1>2
  <2>4. OneActor'
    BY <2>1, <2>2, <2>3
  <2>5. ActorIsTop'
    BY <2>1, <2>2, <2>3
  <2>6. DealtOnce'
    BY <2>1, <2>2, <2>3
  <2> QED
    BY <2>4, <2>5, <2>6
<1>4. CheapestFirst'
  <2>1. card'[c][2] = 0
    BY <1>2
  <2>2. ASSUME NEW d \in CardIds, ui'[d] # "none", card'[d][2] > 0
        PROVE  \E e \in Launched' : /\ ran'[e] = <<card'[d][1], card'[d][2] - 1>>
                                    /\ trace'[e] = "ok"
    <3>1. ui[d] # "none" /\ card'[d] = card[d]
      BY <1>2, <2>1, <2>2
    <3>2. card[d][2] > 0
      BY <2>2, <3>1
    <3>3. PICK e \in Launched : ran[e] = <<card[d][1], card[d][2] - 1>> /\ trace[e] = "ok"
      BY <3>1, <3>2, ClimbTypes DEF Climbing
    <3> QED
      BY <1>2, <3>1, <3>3
  <2> QED
    BY <2>2
<1>5. ClimbStaysInEnvelope'
  BY <1>2, ClimbTypes DEF Climbing
<1>6. AskedOnce'
  BY <1>1, <1>2, ClimbTypes DEF Climbing
<1>7. CardInStep(c)'
  BY <1>1, <1>2 DEF CardInStep, Unbooked, Ready, Proposed
<1>8. ASSUME NEW d \in CardIds \ {c} PROVE CardInStep(d)'
  <2>1. CardInStep(d)
    BY ClimbTypes DEF Climbing, LadderInStep
  <2> QED
    BY <1>1, <1>2, <2>1 DEF CardInStep, Unbooked, Ready, Affordable
<1> QED
  BY <1>2, <1>3, <1>4, <1>5, <1>6, <1>7, <1>8 DEF Climbing, LadderInStep

LEMMA ClimbNextCard ==
    ASSUME Climb, NEW c \in CardIds, NEW d \in CardIds, NextCard(c, d)
    PROVE  Climbing'
<1> DEFINE p == card[c][1]
           i == card[c][2]
<1>1. /\ ui[c] = "climbing" /\ asking = "idle" /\ Live(c) /\ Dealt(c)
      /\ CardInStep(c) /\ rpc[c] = "ok" /\ ran[c] = card[c] /\ trace[c] = "ok"
      /\ current = held[c] /\ held[c] \in Ladder
      /\ held[c].plan = p /\ held[c].cursor = i + 1 /\ held[c].spent = bill[p]
      /\ Affordable(held[c], i + 1)
  BY ClimbTypes DEF NextCard, Climbing, LadderInStep, CardInStep, WellFormed
<1>2. /\ p \in Plans /\ i \in Nat /\ card[c] = <<p, i>> /\ card[c] # NoRung
  BY <1>1, DealtCard, ClimbTypes
<1>3. /\ card'[d] = <<p, i + 1>> /\ ui'[d] = "fresh" /\ ui'[c] = "done" /\ c # d
      /\ ui[d] = "none" /\ rpc[d] = "none" /\ ran[d] = NoRung
      /\ shown' = shown \cup {d}
      /\ \A e \in CardIds \ {d} : card'[e] = card[e]
      /\ \A e \in CardIds \ {c, d} : ui'[e] = ui[e]
      /\ UNCHANGED <<current, asking, tip, planned, held, rpc, ran, bill, trace>>
  BY <1>1, ClimbTypes DEF NextCard, AddCard, NextRung, serverVars, WellFormed
<1>4. p \in planned
  BY <1>1, ClimbTypes DEF Climbing
<1> HIDE DEF p, i
<1>5. /\ \A e \in CardIds : Acting(e) => e = c \/ card[e][1] # p
      /\ \A e \in CardIds : Dealt(e) /\ card[e][1] = p => card[e][2] \in Nat /\ card[e][2] <= i
  BY <1>1, ClimbTypes, DealtCard DEF Climbing, p, i
<1>6. \A e \in CardIds \ {c, d} : (Acting(e)' <=> Acting(e)) /\ (Dealt(e)' <=> Dealt(e))
  BY <1>3
<1>7. ~Acting(c)' /\ Dealt(c)' /\ Dealt(d)'
  BY <1>1, <1>3
<1>8. OneActor'
  BY <1>2, <1>3, <1>5, <1>6, <1>7, ClimbTypes DEF Climbing
<1>9. ActorIsTop'
  <2> SUFFICES ASSUME NEW e \in CardIds, NEW f \in CardIds,
                      Acting(e)', Dealt(f)', card'[f][1] = card'[e][1]
               PROVE  card'[f][2] <= card'[e][2]
    BY DEF ActorIsTop
  <2>1. CASE e = d
    BY <1>1, <1>2, <1>3, <1>5, <1>6, <1>7, <2>1
  <2>2. CASE e # d
    <3>1. e # c /\ Acting(e) /\ card'[e] = card[e] /\ card[e][1] # p
      BY <1>3, <1>5, <1>6, <1>7, <2>2
    <3>2. f # d /\ card'[f] = card[f]
      BY <1>3, <3>1
    <3>3. Dealt(f)
      BY <1>1, <1>6, <3>2
    <3> QED
      BY <3>1, <3>2, <3>3, ClimbTypes DEF Climbing
  <2> QED
    BY <2>1, <2>2
<1>10. DealtOnce'
  <2> SUFFICES ASSUME NEW e \in CardIds, NEW f \in CardIds,
                      Dealt(e)', Dealt(f)', card'[e] = card'[f]
               PROVE  e = f
    BY DEF DealtOnce
  <2>1. ASSUME NEW g \in CardIds, g # d, Dealt(g)'
        PROVE  Dealt(g) /\ card'[g] = card[g] /\ card[g] # <<p, i + 1>>
    BY <1>1, <1>2, <1>3, <1>5, <1>6, <2>1
  <2> QED
    BY <1>3, <2>1, ClimbTypes DEF Climbing
<1>11. CheapestFirst'
  <2> SUFFICES ASSUME NEW e \in CardIds, ui'[e] # "none", card'[e][2] > 0
               PROVE  \E f \in Launched : /\ ran[f] = <<card'[e][1], card'[e][2] - 1>>
                                          /\ trace[f] = "ok"
    BY <1>3
  <2>1. CASE e = d
    <3>1. card'[e][1] = p /\ card'[e][2] = i + 1
      BY <1>3, <2>1
    <3>2. card'[e][2] - 1 = i
      BY <1>2, <3>1
    <3>3. c \in Launched /\ ran[c] = <<p, i>>
      BY <1>1, <1>2
    <3> QED
      BY <1>1, <3>1, <3>2, <3>3
  <2>2. CASE e # d
    <3>1. card'[e] = card[e] /\ ui[e] # "none"
      BY <1>1, <1>3, <2>2
    <3>2. card[e][2] > 0
      BY <3>1
    <3>3. PICK f \in Launched : ran[f] = <<card[e][1], card[e][2] - 1>> /\ trace[f] = "ok"
      BY <3>1, <3>2, ClimbTypes DEF Climbing
    <3> QED
      BY <3>1, <3>3
  <2> QED
    BY <2>1, <2>2
<1>12. ClimbStaysInEnvelope'
  BY <1>3, ClimbTypes DEF Climbing
<1>13. AskedOnce'
  BY <1>1, <1>2, <1>3, <1>4, ClimbTypes DEF Climbing
<1>14. CardInStep(d)'
  BY <1>1, <1>2, <1>3 DEF CardInStep, Unbooked, Ready, Affordable
<1>15. CardInStep(c)'
  BY <1>1, <1>3 DEF CardInStep, Unbooked, Ready, Affordable
<1>16. ASSUME NEW e \in CardIds \ {c, d} PROVE CardInStep(e)'
  <2>1. CardInStep(e)
    BY ClimbTypes DEF Climbing, LadderInStep
  <2> QED
    BY <1>3, <2>1 DEF CardInStep, Unbooked, Ready, Affordable
<1> QED
  BY <1>1, <1>3, <1>8, <1>9, <1>10, <1>11, <1>12, <1>13, <1>14, <1>15, <1>16
     DEF Climbing, LadderInStep

LEMMA ClimbApproveLaunches ==
    ASSUME Climb, NEW c \in CardIds, ApproveLaunches(c)
    PROVE  Climbing'
<1> DEFINE p == card[c][1]
           i == card[c][2]
<1>1. /\ rpc[c] = "posted" /\ ran[c] = NoRung /\ Acting(c) /\ Dealt(c)
      /\ ui[c] \notin Idle /\ CardInStep(c)
      /\ held[c] \in Ladder /\ held[c].plan = p /\ i \in RungsOf(p)
      /\ held[c].spent = bill[p] /\ held[c].cursor = i
      /\ i > 0 => held[c].spent + Cost[p][i] <= Budget[p]
  BY ClimbTypes
     DEF ApproveLaunches, WellFormed, Climbing, LadderInStep, CardInStep, Ready, Affordable
<1>2. p \in Plans /\ i \in Nat /\ card[c] = <<p, i>> /\ Cost[p][i] \in Nat /\ card[c] # NoRung
  BY <1>1, DealtCard, ClimbTypes
<1>3. /\ bill' = [bill EXCEPT ![p] = bill[p] + Cost[p][i]]
      /\ ran' = [ran EXCEPT ![c] = card[c]]
      /\ rpc' = [rpc EXCEPT ![c] = "launched"] \/ rpc' = [rpc EXCEPT ![c] = "failed"]
      /\ UNCHANGED <<current, asking, tip, planned, shown, card, ui, held, trace>>
  BY <1>1, <1>2 DEF ApproveLaunches, pageVars
<1>4. /\ bill'[p] = bill[p] + Cost[p][i]
      /\ \A q \in Plans \ {p} : bill'[q] = bill[q]
      /\ ran'[c] = card[c] /\ rpc'[c] \in {"launched", "failed"}
      /\ \A d \in CardIds \ {c} : ran'[d] = ran[d] /\ rpc'[d] = rpc[d]
  BY <1>2, <1>3, ClimbTypes
<1>5. \A d \in CardIds \ {c} : Acting(d) => card[d][1] # p
  BY <1>1, ClimbTypes DEF Climbing
<1>6. p \in planned /\ (asking # "idle" => tip # p)
  BY <1>1, ClimbTypes DEF Climbing
<1>7. \A d \in Launched : Dealt(d) /\ ran[d] = card[d]
  BY ClimbTypes DEF WellFormed
<1>8. \A d \in Launched : ran[d][1] = p => ran[d][2] \in Nat /\ ran[d][2] <= i
  BY <1>1, <1>7, ClimbTypes, DealtCard DEF Climbing
<1> HIDE DEF p, i
<1>9. OneActor' /\ ActorIsTop' /\ DealtOnce'
  <2>1. \A d \in CardIds : (Dealt(d)' <=> Dealt(d)) /\ (Acting(d)' => Acting(d))
    BY <1>1, <1>3, <1>4
  <2> QED
    BY <1>3, <2>1, ClimbTypes DEF Climbing
<1>10. CheapestFirst'
  <2>1. \A d \in Launched : d # c /\ d \in Launched' /\ ran'[d] = ran[d]
    BY <1>1, <1>4, ClimbTypes
  <2> SUFFICES ASSUME NEW e \in CardIds, ui[e] # "none", card[e][2] > 0
               PROVE  \E f \in Launched' : /\ ran'[f] = <<card[e][1], card[e][2] - 1>>
                                           /\ trace[f] = "ok"
    BY <1>3
  <2>2. PICK f \in Launched : ran[f] = <<card[e][1], card[e][2] - 1>> /\ trace[f] = "ok"
    BY ClimbTypes DEF Climbing
  <2> QED
    BY <2>1, <2>2
<1>11. ClimbStaysInEnvelope'
  <2> SUFFICES ASSUME NEW d \in CardIds, ran'[d] # NoRung, ran'[d][2] > 0
               PROVE  bill'[ran'[d][1]] <= Budget[ran'[d][1]]
    OBVIOUS
  <2>1. CASE d = c
    BY <1>1, <1>2, <1>4, <2>1 DEF p, i
  <2>2. CASE d # c
    <3>1. d \in Launched /\ ran'[d] = ran[d] /\ ran[d][2] > 0
      BY <1>4, <2>2
    <3>2. CASE ran[d][1] = p
      <4>1. i > 0
        BY <1>2, <1>8, <3>1, <3>2
      <4> QED
        BY <1>1, <1>4, <3>1, <3>2, <4>1
    <3>3. CASE ran[d][1] # p
      <4>1. ran[d][1] \in Plans
        BY <1>7, <3>1, DealtCard
      <4>2. bill[ran[d][1]] <= Budget[ran[d][1]]
        BY <3>1, ClimbTypes DEF Climbing
      <4> QED
        BY <1>4, <3>1, <3>3, <4>1, <4>2
    <3> QED
      BY <3>2, <3>3
  <2> QED
    BY <2>1, <2>2
<1>12. AskedOnce'
  BY <1>3, <1>4, <1>6, ClimbTypes DEF Climbing
<1>13. CardInStep(c)'
  BY <1>1, <1>2, <1>3, <1>4 DEF CardInStep, Unbooked, Ready, Affordable, p, i
<1>14. ASSUME NEW d \in CardIds \ {c} PROVE CardInStep(d)'
  <2>1. CardInStep(d)
    BY ClimbTypes DEF Climbing, LadderInStep
  <2>2. CASE ~Acting(d)
    BY <1>3, <1>4, <2>1, <2>2 DEF CardInStep, Unbooked
  <2>3. CASE Acting(d)
    <3>1. card[d][1] \in Plans \ {p} /\ bill'[card[d][1]] = bill[card[d][1]]
      BY <1>4, <1>5, <2>3, ActorIsDealt, DealtCard
    <3>2. /\ Live(d) => current.plan = card[d][1]
          /\ rpc[d] # "none" => held[d].plan = card[d][1]
      BY ClimbTypes
    <3> QED
      BY <1>3, <1>4, <2>1, <3>1, <3>2 DEF CardInStep, Unbooked, Ready, Affordable
  <2> QED
    BY <2>2, <2>3
<1>15. asking' = "seeding" => current' = Proposed(tip)'
  BY <1>3, ClimbTypes DEF Climbing, LadderInStep, Proposed
<1> QED
  BY <1>9, <1>10, <1>11, <1>12, <1>13, <1>14, <1>15 DEF Climbing, LadderInStep

LEMMA ClimbStep ==
    ASSUME Patient, Climb, [Next]_vars
    PROVE  Climb'
<1> SUFFICES Climbing'
  BY AcceptanceStep DEF Climb, Climbing
<1>1. CASE UNCHANGED vars
  <2>1. ASSUME NEW c \in CardIds PROVE CardInStep(c)'
    BY <1>1, ClimbTypes DEF vars, pageVars, serverVars, Climbing, LadderInStep,
       CardInStep, Unbooked, Ready, Affordable
  <2>2. AskedOnce' /\ LadderInStep'
    BY <1>1, <2>1, ClimbTypes DEF vars, pageVars, serverVars, Climbing, LadderInStep, Proposed
  <2>3. OneActor' /\ ActorIsTop' /\ DealtOnce' /\ CheapestFirst' /\ ClimbStaysInEnvelope'
    BY <1>1, QuietDeal DEF vars, pageVars, serverVars
  <2> QED
    BY <2>2, <2>3 DEF Climbing
<1>2. ASSUME NEW p \in Plans, Submit(p) PROVE Climbing'
  BY <1>2, ClimbSubmit
<1>3. CASE Reload \/ ProposeEnds \/ ProposeAnswered
  BY <1>3, ClimbReload, ClimbProposeEnds, ClimbProposeAnswered
<1>4. ASSUME NEW c \in CardIds, ClickGo(c) \/ TraceEnds(c) PROVE Climbing'
  BY <1>4, ClimbClickGo, ClimbTraceEnds
<1>5. ASSUME NEW c \in CardIds, Callback(c) PROVE Climbing'
  BY <1>5, ClimbSeeded, ClimbApproveAnswered, ClimbApproveRefused,
     ClimbPollDone, ClimbPollFails, ClimbNextCard DEF Callback
<1>6. ASSUME NEW c \in CardIds, Serve(c) PROVE Climbing'
  BY <1>6, ClimbApproveRejects, ClimbApproveLaunches, ClimbApproveHandsOver,
     ClimbApproveRecords DEF Serve
<1> QED
  BY <1>1, <1>2, <1>3, <1>4, <1>5, <1>6 DEF Next

LEMMA ClimbInvariant ==
    ASSUME Patient
    PROVE  Spec => []Climb
<1>1. Climb /\ [Next]_vars => Climb'
  BY ClimbStep
<1> QED
  BY <1>1, ClimbInit, PTL DEF Spec

(***************************************************************************)
(* A patient user is shown a rung above the first only after the rung      *)
(* right below it, of the same plan, ran and its result came back          *)
(* (brain.Assess, NextProposal; app.js settleRung).                        *)
(***************************************************************************)
THEOREM CheapestRungFirst ==
    ASSUME Patient
    PROVE  Spec => []CheapestFirst
<1>1. Climb => CheapestFirst
  BY DEF Climb
<1> QED
  BY <1>1, ClimbInvariant, PTL

(***************************************************************************)
(* A patient user never pays for a rung of a plan twice, whatever answer   *)
(* is lost and whatever step of an approve fails (handleApprove, runRung). *)
(***************************************************************************)
THEOREM EachRungOnce ==
    ASSUME Patient
    PROVE  Spec => []NoRungTwice
<1>1. Climb => NoRungTwice
  BY ClimbTypes DEF NoRungTwice, WellFormed, Climbing
<1> QED
  BY <1>1, ClimbInvariant, PTL

(***************************************************************************)
(* Once a patient user's plan has climbed past its first rung, everything  *)
(* the plan committed fits its envelope (the budget gate of brain.Assess). *)
(***************************************************************************)
THEOREM ClimbWithinEnvelope ==
    ASSUME Patient
    PROVE  Spec => []ClimbStaysInEnvelope
<1>1. Climb => ClimbStaysInEnvelope
  BY DEF Climb
<1> QED
  BY <1>1, ClimbInvariant, PTL

-----------------------------------------------------------------------------
(***************************************************************************)
(* Totals: the receipt of a question that was asked once adds up.          *)
(***************************************************************************)

\* A launch is of the rung of its card, and of a plan of the planner's.
LEMMA LaunchedCard ==
    ASSUME Climb, NEW c \in Launched
    PROVE  /\ Dealt(c) /\ ran[c] = card[c] /\ ran[c] = <<ran[c][1], ran[c][2]>>
           /\ ran[c][1] \in Plans /\ ran[c][2] \in Nat
<1>1. Dealt(c) /\ ran[c] = card[c]
  BY ClimbTypes DEF WellFormed
<1> QED
  BY <1>1, DealtCard

LEMMA TotalsApproveLaunches ==
    ASSUME Totals, NEW c \in CardIds, ApproveLaunches(c)
    PROVE  RowsAreRunningTotals'
<1> DEFINE p == card[c][1]
           i == card[c][2]
<1>1. Climb
  BY DEF Totals
<1>2. /\ rpc[c] = "posted" /\ ran[c] = NoRung /\ Acting(c) /\ Dealt(c)
      /\ held[c] \in Ladder /\ held[c].plan = p
  BY <1>1, ClimbTypes DEF ApproveLaunches, WellFormed
<1>3. p \in Plans /\ i \in Nat /\ card[c] = <<p, i>> /\ card[c] # NoRung
  BY <1>1, <1>2, DealtCard, ClimbTypes
<1>4. /\ \A q \in Plans \ {p} : bill'[q] = bill[q]
      /\ ran'[c] = <<p, i>>
      /\ \A d \in CardIds \ {c} : ran'[d] = ran[d]
      /\ receipts' = receipts
  BY <1>1, <1>2, <1>3, ClimbTypes DEF ApproveLaunches
<1>5. \A d \in Launched : ran[d] # <<p, i>> /\ (ran[d][1] = p => ran[d][2] <= i)
  <2>1. ASSUME NEW d \in Launched
        PROVE  d \in CardIds /\ d # c /\ Dealt(d) /\ ran[d] = card[d]
    BY <1>1, <1>2, LaunchedCard
  <2>2. DealtOnce /\ ActorIsTop
    BY <1>1, ClimbTypes DEF Climbing
  <2> QED
    BY <1>2, <1>3, <2>1, <2>2
<1> HIDE DEF p, i
<1>6. Launched' = Launched \cup {c} /\ c \notin Launched
  BY <1>2, <1>3, <1>4
<1>7. TopRun(c)'
  BY <1>3, <1>4, <1>5, <1>6 DEF TopRun
<1>8. ASSUME NEW d \in Launched, ran[d][1] # p
      PROVE  TopRun(d)' <=> TopRun(d)
  BY <1>4, <1>6, <1>8 DEF TopRun
<1>9. ASSUME NEW r \in receipts
      PROVE  /\ r.question = Asks[r.plan]
             /\ \E d \in Launched' : ran'[d] = <<r.plan, r.rung>>
             /\ \A d \in Launched' :
                   ran'[d] = <<r.plan, r.rung>> /\ TopRun(d)' => r.spent = bill'[r.plan]
  <2>1. r.question = Asks[r.plan]
    BY DEF Totals, RowsAreRunningTotals
  <2>2. PICK e \in Launched : ran[e] = <<r.plan, r.rung>>
    BY DEF Totals, RowsAreRunningTotals
  <2>3. r.plan \in Plans /\ r.rung \in Nat
    BY <1>1, <2>2, LaunchedCard
  <2>4. e \in Launched' /\ ran'[e] = <<r.plan, r.rung>>
    BY <1>4, <1>6, <2>2
  <2>5. ASSUME NEW d \in Launched', ran'[d] = <<r.plan, r.rung>>, TopRun(d)'
        PROVE  r.spent = bill'[r.plan]
    <3>1. CASE r.plan = p
      <4>1. i <= r.rung
        BY <1>4, <1>6, <2>5, <3>1 DEF TopRun
      <4>2. r.rung <= i
        BY <1>5, <2>2, <3>1
      <4> QED
        BY <1>3, <1>5, <2>2, <2>3, <3>1, <4>1, <4>2
    <3>2. CASE r.plan # p
      <4>1. d \in Launched /\ ran[d] = <<r.plan, r.rung>> /\ TopRun(d)
        BY <1>4, <1>6, <1>8, <2>5, <3>2
      <4>2. r.spent = bill[r.plan]
        BY <4>1 DEF Totals, RowsAreRunningTotals
      <4> QED
        BY <1>4, <2>3, <3>2, <4>2
    <3> QED
      BY <3>1, <3>2
  <2> QED
    BY <2>1, <2>4, <2>5
<1>10. ASSUME NEW q \in Plans
       PROVE  bill'[q] = 0 \/ \E d \in Launched' : ran'[d][1] = q /\ TopRun(d)'
  <2>1. CASE q = p
    BY <1>4, <1>6, <1>7, <2>1
  <2>2. CASE q # p
    <3>1. bill[q] = 0 \/ \E d \in Launched : ran[d][1] = q /\ TopRun(d)
      BY DEF Totals, RowsAreRunningTotals
    <3> QED
      BY <1>4, <1>6, <1>8, <2>2, <3>1
  <2> QED
    BY <2>1, <2>2
<1> QED
  BY <1>4, <1>9, <1>10 DEF RowsAreRunningTotals

LEMMA TotalsApproveRecords ==
    ASSUME Totals, NEW c \in CardIds, ApproveRecords(c)
    PROVE  RowsAreRunningTotals'
<1> DEFINE p == card[c][1]
           i == card[c][2]
<1>1. Climb
  BY DEF Totals
<1>2. /\ rpc[c] = "handed" /\ Dealt(c) /\ CardInStep(c)
      /\ held[c].plan = p /\ ran[c] = card[c]
      /\ held[c].spent + Cost[p][i] = bill[p]
  BY <1>1, ClimbTypes
     DEF ApproveRecords, WellFormed, Climbing, LadderInStep, CardInStep, Unbooked
<1>3. p \in Plans /\ i \in Nat /\ ran[c] = <<p, i>> /\ c \in Launched
  BY <1>1, <1>2, DealtCard, ClimbTypes
<1>4. \A r \in receipts' :
         \/ r \in receipts
         \/ r = [question |-> Asks[p], rung |-> i, plan |-> p, spent |-> bill[p]]
  BY <1>2 DEF ApproveRecords, PutReceipt, Booked
<1>5. UNCHANGED <<ran, bill>>
  BY DEF ApproveRecords
<1> HIDE DEF p, i
<1>6. \A r \in receipts' :
         /\ r.question = Asks[r.plan]
         /\ \E d \in Launched : ran[d] = <<r.plan, r.rung>>
         /\ \A d \in Launched :
               ran[d] = <<r.plan, r.rung>> /\ TopRun(d) => r.spent = bill[r.plan]
  BY <1>3, <1>4 DEF Totals, RowsAreRunningTotals
<1> QED
  BY <1>5, <1>6 DEF Totals, RowsAreRunningTotals, TopRun

LEMMA TotalsStep ==
    ASSUME Patient, Totals, [Next]_vars
    PROVE  Totals'
<1> SUFFICES RowsAreRunningTotals'
  BY ClimbStep DEF Totals
<1>1. CASE UNCHANGED <<receipts, ran, bill>>
  BY <1>1 DEF Totals, RowsAreRunningTotals, TopRun
<1>2. ASSUME NEW p \in Plans, Submit(p) PROVE UNCHANGED <<receipts, ran, bill>>
  BY <1>2 DEF Submit, serverVars
<1>3. CASE UNCHANGED vars \/ Reload \/ ProposeEnds \/ ProposeAnswered
  BY <1>1, <1>3 DEF Reload, ProposeEnds, ProposeAnswered, vars, serverVars
<1>4. ASSUME NEW c \in CardIds, ClickGo(c) \/ TraceEnds(c) \/ Callback(c)
      PROVE  UNCHANGED <<receipts, ran, bill>>
  BY <1>4 DEF ClickGo, TraceEnds, Callback, Seeded, ApproveAnswered, ApproveRefused,
     PollDone, PollFails, NextCard, serverVars
<1>5. ASSUME NEW c \in CardIds, Serve(c) PROVE RowsAreRunningTotals'
  <2>1. CASE ApproveRejects(c) \/ ApproveHandsOver(c)
    BY <1>1, <2>1 DEF ApproveRejects, ApproveHandsOver
  <2> QED
    BY <1>5, <2>1, TotalsApproveLaunches, TotalsApproveRecords DEF Serve
<1> QED
  BY <1>1, <1>2, <1>3, <1>4, <1>5 DEF Next

LEMMA TotalsAddUp ==
    ASSUME Totals
    PROVE  ReceiptsAddUp
<1> SUFFICES ASSUME NEW p \in Plans,
                    \A o \in Plans \ {p} : Asks[o] # Asks[p],
                    \A c \in Launched :
                       ran[c][1] = p => \E r \in RowsOf(Asks[p]) : r.rung = ran[c][2]
             PROVE  Summary(Asks[p], bill[p])
  BY DEF ReceiptsAddUp
<1>1. /\ Climb /\ bill[p] \in Nat /\ SpentNeverOverstated
      /\ \A r \in receipts : r.plan \in Plans
  <2>1. Climb
    BY DEF Totals
  <2>2. Money
    BY <2>1 DEF Climb, Acceptance
  <2>3. TypeOK /\ SpentNeverOverstated
    BY <2>2 DEF Money
  <2>4. receipts \subseteq ReceiptRow
    BY <2>3 DEF TypeOK
  <2>5. bill[p] \in Nat
    BY <2>1, ClimbTypes
  <2> QED
    BY <2>1, <2>3, <2>4, <2>5 DEF ReceiptRow
<1>2. \A r \in RowsOf(Asks[p]) : r \in receipts /\ r.plan = p
  BY <1>1 DEF RowsOf, Totals, RowsAreRunningTotals
<1>3. bill[p] \in Figures(Asks[p])
  <2>1. CASE bill[p] = 0
    BY <2>1 DEF Figures
  <2>2. CASE bill[p] # 0
    <3>1. PICK c \in Launched : ran[c][1] = p /\ TopRun(c)
      BY <2>2 DEF Totals, RowsAreRunningTotals
    <3>2. PICK r \in RowsOf(Asks[p]) : r.rung = ran[c][2]
      BY <3>1
    <3>3. ran[c] = <<r.plan, r.rung>>
      BY <1>1, <1>2, <3>1, <3>2, LaunchedCard
    <3>4. r.spent = bill[p]
      BY <1>2, <3>1, <3>3 DEF Totals, RowsAreRunningTotals
    <3> QED
      BY <3>4 DEF Figures
  <2> QED
    BY <2>1, <2>2
<1>4. \A s \in Figures(Asks[p]) : s <= bill[p]
  BY <1>1, <1>2 DEF Figures, SpentNeverOverstated
<1> QED
  BY <1>3, <1>4 DEF Summary

(***************************************************************************)
(* To a patient user, the summary of a question asked once, none of whose  *)
(* launches lost its row, is what the question cost (SummarizeReceipts,    *)
(* RecordReceipt).                                                         *)
(***************************************************************************)
THEOREM SummaryIsTheBill ==
    ASSUME Patient
    PROVE  Spec => []ReceiptsAddUp
<1>1. Init => Totals
  BY ClimbInit DEF Init, Totals, RowsAreRunningTotals
<1>2. Totals /\ [Next]_vars => Totals'
  BY TotalsStep
<1>3. Totals => ReceiptsAddUp
  BY TotalsAddUp
<1> QED
  BY <1>1, <1>2, <1>3, PTL DEF Spec

=============================================================================
