---------------------------- MODULE WebLoopProofs ----------------------------
(***************************************************************************)
(* Proofs about the deployed loop, for any number of plans, rungs, cards,  *)
(* any costs and any set of failures.                                      *)
(***************************************************************************)
EXTENDS WebLoopInvariants, BrainProofs

USE DEF Idle, Busy, Settled, CardIds

\* Nothing launched and no ladder are not a rung and a ladder.
LEMMA NoRungIsNone == NoRung \notin AllRungs /\ NoLadder \notin Ladder
BY LoopAssumption

-----------------------------------------------------------------------------
(***************************************************************************)
(* Money: no ladder, meter or receipt claims what was not committed.       *)
(***************************************************************************)

LEMMA MoneyInit == Init => Money
<1> SUFFICES ASSUME Init PROVE Money
  OBVIOUS
<1>1. TypeOK
  BY DEF Init, TypeOK
<1>2. WellFormed /\ LaunchIsBilled
  BY DEF Init, WellFormed, LaunchIsBilled, Unbooked
<1>3. SpentNeverOverstated /\ MeterIsBacked
  BY DEF Init, SpentNeverOverstated, MeterIsBacked, Backed
<1> QED
  BY <1>1, <1>2, <1>3 DEF Money

LEMMA MoneySubmit ==
    ASSUME Money, NEW p \in Plans, Submit(p)
    PROVE  Money'
<1>1. TypeOK'
  BY DEF Money, TypeOK, Submit, serverVars
<1>2. WellFormed' /\ LaunchIsBilled'
  BY DEF Money, TypeOK, Submit, serverVars, WellFormed, LaunchIsBilled, Unbooked
<1>3. SpentNeverOverstated' /\ MeterIsBacked'
  BY DEF Money, Submit, serverVars, SpentNeverOverstated, MeterIsBacked, Backed
<1> QED
  BY <1>1, <1>2, <1>3 DEF Money

LEMMA MoneyReload ==
    ASSUME Money, Reload
    PROVE  Money'
<1>1. TypeOK'
  BY DEF Money, TypeOK, Reload, serverVars
<1>2. WellFormed' /\ LaunchIsBilled'
  BY DEF Money, TypeOK, Reload, serverVars, WellFormed, LaunchIsBilled, Unbooked
<1>3. SpentNeverOverstated' /\ MeterIsBacked'
  BY DEF Money, Reload, serverVars, SpentNeverOverstated, MeterIsBacked, Backed
<1> QED
  BY <1>1, <1>2, <1>3 DEF Money

LEMMA MoneyProposeEnds ==
    ASSUME Money, ProposeEnds
    PROVE  Money'
<1>1. TypeOK'
  BY DEF Money, TypeOK, ProposeEnds, pageVars, serverVars
<1>2. WellFormed' /\ LaunchIsBilled'
  BY DEF Money, TypeOK, ProposeEnds, pageVars, serverVars, WellFormed, LaunchIsBilled,
         Unbooked
<1>3. SpentNeverOverstated' /\ MeterIsBacked'
  BY DEF Money, TypeOK, ProposeEnds, pageVars, serverVars, SpentNeverOverstated, MeterIsBacked,
         Backed
<1> QED
  BY <1>1, <1>2, <1>3 DEF Money

LEMMA MoneyProposeAnswered ==
    ASSUME Money, ProposeAnswered
    PROVE  Money'
<1>1. TypeOK'
  BY ProposedLadder DEF Money, TypeOK, ProposeAnswered, pageVars, serverVars
<1>2. WellFormed' /\ LaunchIsBilled'
  BY ProposedLadder DEF Money, TypeOK, ProposeAnswered, pageVars, serverVars, WellFormed, LaunchIsBilled,
         Unbooked
<1>3. SpentNeverOverstated' /\ MeterIsBacked'
  BY ProposedLadder DEF Money, TypeOK, ProposeAnswered, pageVars, serverVars, SpentNeverOverstated, MeterIsBacked,
         Backed
<1> QED
  BY <1>1, <1>2, <1>3 DEF Money

LEMMA MoneyClickGo ==
    ASSUME Money, NEW c \in CardIds, ClickGo(c)
    PROVE  Money'
<1>1. TypeOK'
  BY DEF Money, TypeOK, ClickGo, pageVars, serverVars
<1>2. WellFormed' /\ LaunchIsBilled'
  BY DEF Money, TypeOK, ClickGo, pageVars, serverVars, WellFormed, LaunchIsBilled,
         Unbooked
<1>3. SpentNeverOverstated' /\ MeterIsBacked'
  BY DEF Money, TypeOK, ClickGo, pageVars, serverVars, SpentNeverOverstated, MeterIsBacked,
         Backed
<1> QED
  BY <1>1, <1>2, <1>3 DEF Money

LEMMA MoneyApproveRefused ==
    ASSUME Money, NEW c \in CardIds, ApproveRefused(c)
    PROVE  Money'
<1>1. TypeOK'
  BY DEF Money, TypeOK, ApproveRefused, pageVars, serverVars
<1>2. WellFormed' /\ LaunchIsBilled'
  BY DEF Money, TypeOK, ApproveRefused, pageVars, serverVars, WellFormed, LaunchIsBilled,
         Unbooked
<1>3. SpentNeverOverstated' /\ MeterIsBacked'
  BY DEF Money, TypeOK, ApproveRefused, pageVars, serverVars, SpentNeverOverstated, MeterIsBacked,
         Backed
<1> QED
  BY <1>1, <1>2, <1>3 DEF Money

LEMMA MoneyPollFails ==
    ASSUME Money, NEW c \in CardIds, PollFails(c)
    PROVE  Money'
<1>1. TypeOK'
  BY DEF Money, TypeOK, PollFails, pageVars, serverVars
<1>2. WellFormed' /\ LaunchIsBilled'
  BY DEF Money, TypeOK, PollFails, pageVars, serverVars, WellFormed, LaunchIsBilled,
         Unbooked
<1>3. SpentNeverOverstated' /\ MeterIsBacked'
  BY DEF Money, TypeOK, PollFails, pageVars, serverVars, SpentNeverOverstated, MeterIsBacked,
         Backed
<1> QED
  BY <1>1, <1>2, <1>3 DEF Money

LEMMA MoneyPollDone ==
    ASSUME Money, NEW c \in CardIds, PollDone(c)
    PROVE  Money'
<1>1. /\ held[c] \in Ladder
      /\ held[c].plan \in Plans
      /\ held[c].spent \in Nat
      /\ held[c].spent <= bill[held[c].plan]
  BY NoRungIsNone
     DEF Money, WellFormed, PollDone, Ladder, SpentNeverOverstated, Backed
<1>2. \/ ui' = [ui EXCEPT ![c] = "climbing"] /\ HasNext(held[c])
      \/ ui' = [ui EXCEPT ![c] = "done"]
  BY DEF PollDone
<1>3. TypeOK'
  BY <1>1, <1>2 DEF Money, TypeOK, PollDone, serverVars
<1>4. WellFormed' /\ LaunchIsBilled'
  BY <1>1, <1>2
     DEF Money, TypeOK, PollDone, serverVars, WellFormed, LaunchIsBilled, Unbooked
<1>5. SpentNeverOverstated'
  BY <1>1 DEF Money, PollDone, serverVars, SpentNeverOverstated, Backed
<1>6. MeterIsBacked'
  BY <1>1 DEF Money, PollDone, serverVars, MeterIsBacked
<1> QED
  BY <1>3, <1>4, <1>5, <1>6 DEF Money

LEMMA MoneyApproveRejects ==
    ASSUME Money, NEW c \in CardIds, ApproveRejects(c)
    PROVE  Money'
<1>1. TypeOK'
  BY DEF Money, TypeOK, ApproveRejects, pageVars, serverVars
<1>2. WellFormed' /\ LaunchIsBilled'
  BY DEF Money, TypeOK, ApproveRejects, pageVars, serverVars, WellFormed, LaunchIsBilled,
         Unbooked
<1>3. SpentNeverOverstated' /\ MeterIsBacked'
  BY DEF Money, TypeOK, ApproveRejects, pageVars, serverVars, SpentNeverOverstated, MeterIsBacked,
         Backed
<1> QED
  BY <1>1, <1>2, <1>3 DEF Money

LEMMA MoneyApproveHandsOver ==
    ASSUME Money, NEW c \in CardIds, ApproveHandsOver(c)
    PROVE  Money'
<1>1. TypeOK'
  BY DEF Money, TypeOK, ApproveHandsOver, pageVars, serverVars
<1>2. WellFormed' /\ LaunchIsBilled'
  BY DEF Money, TypeOK, ApproveHandsOver, pageVars, serverVars, WellFormed, LaunchIsBilled,
         Unbooked
<1>3. SpentNeverOverstated' /\ MeterIsBacked'
  BY DEF Money, TypeOK, ApproveHandsOver, pageVars, serverVars, SpentNeverOverstated, MeterIsBacked,
         Backed
<1> QED
  BY <1>1, <1>2, <1>3 DEF Money

LEMMA MoneyTraceEnds ==
    ASSUME Money, NEW c \in CardIds, TraceEnds(c)
    PROVE  Money'
<1>1. TypeOK'
  BY DEF Money, TypeOK, TraceEnds, pageVars, serverVars
<1>2. WellFormed' /\ LaunchIsBilled'
  BY DEF Money, TypeOK, TraceEnds, pageVars, serverVars, WellFormed, LaunchIsBilled,
         Unbooked
<1>3. SpentNeverOverstated' /\ MeterIsBacked'
  BY DEF Money, TypeOK, TraceEnds, pageVars, serverVars, SpentNeverOverstated, MeterIsBacked,
         Backed
<1> QED
  BY <1>1, <1>2, <1>3 DEF Money

LEMMA MoneySeeded ==
    ASSUME Money, NEW c \in CardIds, Seeded(c)
    PROVE  Money'
<1>1. tip \in Plans /\ <<tip, 0>> \in AllRungs
  BY FirstRung, RungOfPlan DEF Money, TypeOK
<1>2. meter' = 0 \/ \E r \in receipts : meter' = r.spent
  BY DEF Seeded, Figures, RowsOf
<1>3. \A r \in receipts : r.plan \in Plans /\ r.spent \in Nat
  BY DEF Money, TypeOK, ReceiptRow
<1>4. TypeOK'
  <2>1. meter' \in Nat
    BY <1>2, <1>3
  <2>2. /\ card' \in [CardIds -> AllRungs \cup {NoRung}]
        /\ ui' \in [CardIds -> Idle \cup Busy \cup Settled]
        /\ shown' \subseteq CardIds
        /\ asking' = "idle"
    BY <1>1 DEF Money, TypeOK, Seeded, AddCard
  <2> QED
    BY <2>1, <2>2 DEF Money, TypeOK, Seeded, serverVars
<1>5. WellFormed' /\ LaunchIsBilled'
  BY <1>1 DEF Money, TypeOK, Seeded, AddCard, serverVars, WellFormed,
              LaunchIsBilled, Unbooked
<1>6. SpentNeverOverstated'
  BY DEF Money, Seeded, serverVars, SpentNeverOverstated, Backed
<1>7. MeterIsBacked'
  BY <1>2, <1>3 DEF Money, Seeded, serverVars, MeterIsBacked, SpentNeverOverstated
<1> QED
  BY <1>4, <1>5, <1>6, <1>7 DEF Money

LEMMA MoneyNextCard ==
    ASSUME Money, NEW c \in CardIds, NEW d \in CardIds, NextCard(c, d)
    PROVE  Money'
<1>1. held[c].plan \in Plans /\ <<held[c].plan, NextRung(held[c])>> \in AllRungs
  <2>1. held[c] \in Ladder /\ HasNext(held[c])
    BY DEF Money, WellFormed, NextCard
  <2> QED
    BY <2>1, RungOfPlan DEF HasNext, NextRung, Ladder
<1>2. c # d
  BY DEF NextCard, AddCard
<1>3. TypeOK'
  BY <1>1 DEF Money, TypeOK, NextCard, AddCard, serverVars
<1>4. WellFormed' /\ LaunchIsBilled'
  BY <1>1, <1>2 DEF Money, TypeOK, NextCard, AddCard, serverVars, WellFormed,
                    LaunchIsBilled, Unbooked
<1>5. SpentNeverOverstated' /\ MeterIsBacked'
  BY DEF Money, NextCard, serverVars, SpentNeverOverstated, MeterIsBacked, Backed
<1> QED
  BY <1>3, <1>4, <1>5 DEF Money

LEMMA MoneyApproveAnswered ==
    ASSUME Money, NEW c \in CardIds, ApproveAnswered(c)
    PROVE  Money'
<1> DEFINE l == Booked(held[c], card[c][2])
<1>1. /\ held[c] \in Ladder
      /\ card[c][2] \in RungsOf(held[c].plan)
      /\ held[c].spent + Cost[held[c].plan][card[c][2]] <= bill[held[c].plan]
  BY DEF Money, LaunchIsBilled, Unbooked, ApproveAnswered
<1>2. /\ l \in Ladder
      /\ l.plan \in Plans
      /\ l.spent \in Nat
      /\ l.spent <= bill[l.plan]
  BY <1>1, BookedLadder DEF Ladder
<1>3. /\ current' = l
      /\ held' = [held EXCEPT ![c] = l]
      /\ meter' = l.spent
  BY DEF ApproveAnswered
<1> HIDE DEF l
<1>4. TypeOK'
  BY <1>2, <1>3 DEF Money, TypeOK, ApproveAnswered, serverVars
<1>5. WellFormed' /\ LaunchIsBilled'
  BY <1>2, <1>3 DEF Money, TypeOK, ApproveAnswered, serverVars, WellFormed,
                    LaunchIsBilled, Unbooked
<1>6. SpentNeverOverstated'
  BY <1>2, <1>3 DEF Money, TypeOK, ApproveAnswered, serverVars,
                    SpentNeverOverstated, Backed
<1>7. MeterIsBacked'
  BY <1>2, <1>3 DEF Money, ApproveAnswered, serverVars, MeterIsBacked
<1> QED
  BY <1>4, <1>5, <1>6, <1>7 DEF Money

LEMMA MoneyApproveLaunches ==
    ASSUME Money, NEW c \in CardIds, ApproveLaunches(c)
    PROVE  Money'
<1> DEFINE p == held[c].plan
           i == card[c][2]
<1>1. /\ held[c] \in Ladder
      /\ p \in Plans
      /\ i \in RungsOf(p)
      /\ Cost[p][i] \in Nat
      /\ <<p, i>> \in AllRungs
  BY RungOfPlan DEF Money, TypeOK, ApproveLaunches, Ladder
<1>2. /\ bill' = [bill EXCEPT ![p] = bill[p] + Cost[p][i]]
      /\ ran' = [ran EXCEPT ![c] = <<p, i>>]
      /\ rpc' = [rpc EXCEPT ![c] = "launched"] \/ rpc' = [rpc EXCEPT ![c] = "failed"]
      /\ rpc[c] = "posted"
      /\ UNCHANGED <<pageVars, receipts, trace>>
  BY DEF ApproveLaunches
<1> HIDE DEF p, i
<1>3. TypeOK'
  BY <1>1, <1>2 DEF Money, TypeOK, pageVars
<1>4. WellFormed'
  BY <1>1, <1>2 DEF Money, TypeOK, pageVars, WellFormed
<1>5. bill \in [Plans -> Nat] /\ \A q \in Plans : bill'[q] \in Nat /\ bill[q] <= bill'[q]
  BY <1>1, <1>2 DEF Money, TypeOK
<1>6. /\ \A d \in CardIds : held[d] \in Ladder \cup {NoLadder}
      /\ current \in Ladder \cup {NoLadder}
      /\ \A l \in Ladder : l.plan \in Plans /\ l.spent \in Nat
      /\ \A r \in receipts : r.plan \in Plans /\ r.spent \in Nat
  BY DEF Money, TypeOK, Ladder, ReceiptRow
<1>7. SpentNeverOverstated'
  <2>1. \A l \in Ladder : l.spent <= bill[l.plan] => l.spent <= bill'[l.plan]
    BY <1>5, <1>6
  <2>2. Backed(current)' /\ \A d \in CardIds : Backed(held[d])'
    BY <1>2, <1>6, <2>1 DEF Money, SpentNeverOverstated, Backed, pageVars
  <2>3. \A r \in receipts' : r.spent <= bill'[r.plan]
    BY <1>2, <1>5, <1>6 DEF Money, SpentNeverOverstated
  <2> QED
    BY <2>2, <2>3 DEF SpentNeverOverstated
<1>8. MeterIsBacked'
  BY <1>2, <1>5 DEF Money, TypeOK, MeterIsBacked, pageVars
<1>9. LaunchIsBilled'
  <2> SUFFICES ASSUME NEW d \in CardIds, Unbooked(d)'
               PROVE  /\ held[d] \in Ladder
                      /\ card[d][2] \in RungsOf(held[d].plan)
                      /\ held[d].spent + Cost[held[d].plan][card[d][2]]
                            <= bill'[held[d].plan]
    BY <1>2 DEF LaunchIsBilled, pageVars
  <2>1. CASE d = c
    <3>1. held[c].spent <= bill[p]
      BY <1>1, NoRungIsNone DEF Money, SpentNeverOverstated, Backed, p
    <3>2. bill'[p] = bill[p] + Cost[p][i]
      BY <1>1, <1>2, <1>5
    <3> QED
      BY <1>1, <1>5, <1>6, <2>1, <3>1, <3>2 DEF p, i
  <2>2. CASE d # c
    <3>1. Unbooked(d)
      BY <1>2, <2>2 DEF Unbooked, pageVars, Money, TypeOK
    <3>2. /\ held[d] \in Ladder
          /\ card[d][2] \in RungsOf(held[d].plan)
          /\ held[d].spent + Cost[held[d].plan][card[d][2]] <= bill[held[d].plan]
      BY <3>1 DEF Money, LaunchIsBilled
    <3>3. Cost[held[d].plan][card[d][2]] \in Nat
      BY <1>6, <3>2, RungOfPlan
    <3> QED
      BY <1>5, <1>6, <3>2, <3>3
  <2> QED
    BY <2>1, <2>2
<1> QED
  BY <1>3, <1>4, <1>7, <1>8, <1>9 DEF Money

LEMMA MoneyApproveRecords ==
    ASSUME Money, NEW c \in CardIds, ApproveRecords(c)
    PROVE  Money'
<1> DEFINE l == Booked(held[c], card[c][2])
<1>1. /\ held[c] \in Ladder
      /\ held[c].plan \in Plans
      /\ card[c][2] \in RungsOf(held[c].plan)
      /\ held[c].spent + Cost[held[c].plan][card[c][2]] <= bill[held[c].plan]
  BY DEF Money, LaunchIsBilled, Unbooked, ApproveRecords, Ladder
<1>2. /\ l.plan = held[c].plan
      /\ l.spent \in Nat
      /\ l.spent <= bill[held[c].plan]
      /\ card[c][2] \in Nat
  BY <1>1, BookedLadder, RungOfPlan DEF Ladder
<1>3. \A r \in receipts' :
         \/ r \in receipts
         \/ r = [question |-> Asks[held[c].plan], rung |-> card[c][2],
                 plan |-> held[c].plan, spent |-> l.spent]
  BY DEF ApproveRecords, PutReceipt
<1> HIDE DEF l
<1>4. receipts' \subseteq ReceiptRow
  BY <1>1, <1>2, <1>3 DEF Money, TypeOK, ReceiptRow
<1>5. TypeOK'
  BY <1>4 DEF Money, TypeOK, ApproveRecords, pageVars
<1>6. WellFormed' /\ LaunchIsBilled'
  BY DEF Money, TypeOK, ApproveRecords, pageVars, WellFormed, LaunchIsBilled, Unbooked
<1>7. SpentNeverOverstated'
  BY <1>2, <1>3 DEF Money, ApproveRecords, pageVars, SpentNeverOverstated, Backed
<1>8. MeterIsBacked'
  BY DEF Money, ApproveRecords, pageVars, MeterIsBacked
<1> QED
  BY <1>5, <1>6, <1>7, <1>8 DEF Money

LEMMA MoneyStep == Money /\ [Next]_vars => Money'
<1> SUFFICES ASSUME Money, [Next]_vars PROVE Money'
  OBVIOUS
<1>1. CASE UNCHANGED vars
  BY <1>1 DEF vars, pageVars, serverVars, Money, TypeOK, WellFormed, LaunchIsBilled,
              Unbooked, SpentNeverOverstated, Backed, MeterIsBacked
<1>2. ASSUME NEW p \in Plans, Submit(p) PROVE Money'
  BY <1>2, MoneySubmit
<1>3. CASE Reload \/ ProposeEnds \/ ProposeAnswered
  BY <1>3, MoneyReload, MoneyProposeEnds, MoneyProposeAnswered
<1>4. ASSUME NEW c \in CardIds, ClickGo(c) \/ TraceEnds(c) PROVE Money'
  BY <1>4, MoneyClickGo, MoneyTraceEnds
<1>5. ASSUME NEW c \in CardIds, Callback(c) PROVE Money'
  BY <1>5, MoneySeeded, MoneyApproveAnswered, MoneyApproveRefused, MoneyPollDone,
     MoneyPollFails, MoneyNextCard DEF Callback
<1>6. ASSUME NEW c \in CardIds, Serve(c) PROVE Money'
  BY <1>6, MoneyApproveRejects, MoneyApproveLaunches, MoneyApproveHandsOver,
     MoneyApproveRecords DEF Serve
<1> QED
  BY <1>1, <1>2, <1>3, <1>4, <1>5, <1>6 DEF Next

THEOREM MoneyInvariant == Spec => []Money
BY MoneyInit, MoneyStep, PTL DEF Spec

(***************************************************************************)
(* The state of the page, the server and the table is always well typed.   *)
(***************************************************************************)
THEOREM TypeCorrect == Spec => []TypeOK
<1>1. Money => TypeOK
  BY DEF Money
<1> QED
  BY <1>1, MoneyInvariant, PTL

(***************************************************************************)
(* No ladder or receipt ever claims spend that was not committed, whoever  *)
(* uses the page and whatever fails (brain.Approve books after the launch; *)
(* app.js only echoes what the server booked).                             *)
(***************************************************************************)
THEOREM SpendIsBacked == Spec => []SpentNeverOverstated
<1>1. Money => SpentNeverOverstated
  BY DEF Money
<1> QED
  BY <1>1, MoneyInvariant, PTL

\* Nor does the meter on the page, in whatever order the answers that set it arrive
\* (app.js:203, 261, 357).
THEOREM MeterNeverOverstates == Spec => []MeterIsBacked
<1>1. Money => MeterIsBacked
  BY DEF Money
<1> QED
  BY <1>1, MoneyInvariant, PTL

=============================================================================
