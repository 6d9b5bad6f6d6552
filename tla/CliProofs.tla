------------------------------ MODULE CliProofs ------------------------------
(***************************************************************************)
(* Proofs about one `foray run`: it is well typed, it leaves nothing       *)
(* running, and it implements the acceptance node; for any plans, any      *)
(* number of instances, any ports and every failure.                       *)
(***************************************************************************)
EXTENDS CliInvariants, BrainProofs, SumProofs

USE DEF InRung, Over, BoxStates, Billing

\* The constants that stand for nothing are none of the things they replace.
LEMMA CliNone ==
    /\ NoLadder \notin Ladder
    /\ NoBox \notin Boxes
    /\ NoPort \notin Ports
    /\ NoRung \notin AllRungs
BY CliAssumption

\* The proposed rung is a rung of the carried plan.
LEMMA ProposedRung ==
    ASSUME CliInv, pc \in {"prompt", "approving"}
    PROVE  /\ ladder \in Ladder
           /\ ladder.plan \in Plans
           /\ at \in RungsOf(ladder.plan)
           /\ at = ladder.cursor
           /\ <<ladder.plan, at>> \in AllRungs
<1>1. ladder \in Ladder /\ at \in RungsOf(ladder.plan) /\ at = ladder.cursor
  BY DEF CliInv, Carried
<1>2. ladder.plan \in Plans
  BY <1>1, LadderFields
<1> QED
  BY <1>1, <1>2, RungOfPlan

-----------------------------------------------------------------------------
(***************************************************************************)
(* Every step keeps the invariant.                                         *)
(***************************************************************************)

LEMMA CliInit == Init => CliInv
<1> SUFFICES ASSUME Init PROVE CliInv
  OBVIOUS
<1>1. TypeOK
  BY CliNone DEF Init, BoxInit, TypeOK
<1>2. BoxesMatch /\ Accounted
  BY DEF Init, BoxInit, BoxesMatch, Accounted, Known
<1>3. Carried /\ Acceptances
  BY DEF Init, Carried, Acceptances, Launches
<1> QED
  BY <1>1, <1>2, <1>3 DEF CliInv

LEMMA ProposeKeeps ==
    ASSUME CliInv, Propose
    PROVE  CliInv'
<1>1. CASE pc' = "ended" /\ UNCHANGED <<ladder, offered>>
  BY <1>1 DEF CliInv, TypeOK, BoxesMatch, Accounted, Carried, Acceptances,
              Known, Launches, Propose
<1>2. ASSUME NEW p \in Plans, ladder' = Proposed(p), offered' = {<<p, 0>>},
             pc' = "prompt"
      PROVE  CliInv'
  <2>1. ladder' \in Ladder /\ ladder'.plan = p /\ ladder'.cursor = 0
    BY <1>2, ProposedLadder
  <2>2. 0 \in RungsOf(p) /\ <<p, 0>> \in AllRungs
    BY FirstRung, RungOfPlan
  <2>3. offered = {} /\ goes = {} /\ Launches = {} /\ at = 0
    BY DEF CliInv, Carried, Acceptances, Propose
  <2>4. TypeOK' /\ BoxesMatch' /\ Accounted'
    BY <1>2, <2>1, <2>2 DEF CliInv, TypeOK, BoxesMatch, Accounted, Known, Propose
  <2>5. Carried'
    BY <1>2, <2>1, <2>2, <2>3 DEF CliInv, Carried, Propose
  <2>6. Launches' = Launches
    BY DEF Launches, Propose
  <2>7. Acceptances'
    BY <1>2, <2>1, <2>3, <2>6 DEF CliInv, Acceptances, Propose
  <2> QED
    BY <2>4, <2>5, <2>7 DEF CliInv
<1> QED
  BY <1>1, <1>2 DEF Propose

LEMMA GoKeeps ==
    ASSUME CliInv, Go
    PROVE  CliInv'
<1>1. <<ladder.plan, at>> \in AllRungs /\ <<ladder.plan, at>> \notin goes
  BY ProposedRung DEF Go, CliInv, Acceptances
<1>2. TypeOK'
  BY <1>1 DEF CliInv, TypeOK, Go
<1>3. BoxesMatch' /\ Accounted' /\ Carried'
  BY DEF CliInv, TypeOK, BoxesMatch, Accounted, Carried, Known, Go
<1>4. Acceptances'
  BY <1>1 DEF CliInv, Acceptances, Launches, Go
<1> QED
  BY <1>2, <1>3, <1>4 DEF CliInv

\* Nothing but the program counter moves.
LEMMA EndKeeps ==
    ASSUME CliInv, Decline \/ ApproveFails \/ Stop
    PROVE  CliInv'
BY DEF CliInv, TypeOK, BoxesMatch, Accounted, Carried, Acceptances, Known,
       Launches, Decline, ApproveFails, Stop, trail

LEMMA LaunchKeeps ==
    ASSUME CliInv, NEW b \in Boxes, pc = "approving", LaunchBox(b),
           ran' = [ran EXCEPT ![b] = <<ladder.plan, at>>]
    PROVE  /\ ran[b] = NoRung
           /\ box' \in [Boxes -> BoxStates]
           /\ ran' \in [Boxes -> AllRungs \cup {NoRung}]
           /\ \A c \in Boxes : box'[c] = "none" <=> ran'[c] = NoRung
           /\ Launches' = Launches \cup {<<ladder.plan, at>>}
<1>1. <<ladder.plan, at>> \in AllRungs
  BY ProposedRung
<1>2. ran[b] = NoRung /\ box' = [box EXCEPT ![b] = "up"]
  BY DEF LaunchBox, CliInv, BoxesMatch
<1>3. box' \in [Boxes -> BoxStates] /\ ran' \in [Boxes -> AllRungs \cup {NoRung}]
  BY <1>1, <1>2 DEF CliInv, TypeOK
<1>4. \A c \in Boxes : box'[c] = "none" <=> ran'[c] = NoRung
  BY <1>1, <1>2, CliNone DEF CliInv, TypeOK, BoxesMatch
<1>5. \A c \in Boxes : ran'[c] = IF c = b THEN <<ladder.plan, at>> ELSE ran[c]
  BY DEF CliInv, TypeOK
<1>6. Launches' = Launches \cup {<<ladder.plan, at>>}
  BY <1>1, <1>2, <1>5, CliNone DEF Launches
<1> QED
  BY <1>2, <1>3, <1>4, <1>6

LEMMA ApproveKeeps ==
    ASSUME CliInv, NEW b \in Boxes, Approve(b)
    PROVE  CliInv'
<1>1. /\ ran[b] = NoRung
      /\ box' \in [Boxes -> BoxStates]
      /\ ran' \in [Boxes -> AllRungs \cup {NoRung}]
      /\ \A c \in Boxes : box'[c] = "none" <=> ran'[c] = NoRung
      /\ Launches' = Launches \cup {<<ladder.plan, at>>}
  BY LaunchKeeps DEF Approve
<1>2. /\ ladder \in Ladder
      /\ at \in RungsOf(ladder.plan)
      /\ at = ladder.cursor
      /\ <<ladder.plan, at>> \in AllRungs
      /\ at \in Nat
  BY ProposedRung DEF Approve, CliInv, TypeOK
<1>3. /\ \A c \in Boxes \ {b} : box'[c] = box[c] /\ ran'[c] = ran[c]
      /\ ran'[b] = <<ladder.plan, at>>
  BY DEF Approve, LaunchBox, CliInv, TypeOK
<1>4. cur = NoBox /\ tunnel = NoPort
  BY DEF Approve, CliInv, BoxesMatch
<1>5. CASE ladder' = Booked(ladder, at) /\ cur' = b /\ pc' = "registering"
            /\ UNCHANGED lost
  <2>1. /\ ladder' \in Ladder
        /\ ladder'.plan = ladder.plan
        /\ ladder'.cursor = ladder.cursor + 1
    BY <1>2, <1>5, BookedLadder
  <2>2. TypeOK'
    BY <1>1, <1>5, <2>1 DEF Approve, CliInv, TypeOK
  <2>3. BoxesMatch'
    BY <1>1, <1>2, <1>3, <1>4, <1>5, CliNone DEF Approve, CliInv, TypeOK, BoxesMatch
  <2>4. Accounted'
    BY <1>1, <1>3, <1>5 DEF Approve, CliInv, Accounted, Known
  <2>5. Carried'
    BY <1>2, <1>5, <2>1, CliNone DEF Approve, CliInv, Carried
  <2>6. Acceptances'
    BY <1>1, <1>5, <2>1 DEF Approve, CliInv, Acceptances
  <2> QED
    BY <2>2, <2>3, <2>4, <2>5, <2>6 DEF CliInv
<1>6. CASE lost' = lost \cup {b} /\ pc' = "ended" /\ UNCHANGED <<ladder, cur>>
  <2>1. TypeOK'
    BY <1>1, <1>6 DEF Approve, CliInv, TypeOK
  <2>2. BoxesMatch'
    BY <1>1, <1>2, <1>3, <1>4, <1>6, CliNone DEF Approve, CliInv, TypeOK, BoxesMatch
  <2>3. Accounted'
    BY <1>1, <1>3, <1>6 DEF Approve, CliInv, Accounted, Known
  <2>4. Carried'
    BY <1>2, <1>6, CliNone DEF Approve, CliInv, Carried
  <2>5. Acceptances'
    BY <1>1, <1>6 DEF Approve, CliInv, Acceptances
  <2> QED
    BY <2>1, <2>2, <2>3, <2>4, <2>5 DEF CliInv
<1> QED
  BY <1>5, <1>6 DEF Approve

LEMMA CrashLaunchingKeeps ==
    ASSUME CliInv, NEW b \in Boxes, CrashLaunching(b)
    PROVE  CliInv'
<1>1. /\ ran[b] = NoRung
      /\ box' \in [Boxes -> BoxStates]
      /\ ran' \in [Boxes -> AllRungs \cup {NoRung}]
      /\ \A c \in Boxes : box'[c] = "none" <=> ran'[c] = NoRung
      /\ Launches' = Launches \cup {<<ladder.plan, at>>}
  BY LaunchKeeps DEF CrashLaunching
<1>2. /\ ladder.plan = ladder.plan
      /\ <<ladder.plan, at>> \in AllRungs
  BY ProposedRung DEF CrashLaunching
<1>3. /\ \A c \in Boxes \ {b} : box'[c] = box[c] /\ ran'[c] = ran[c]
      /\ ran'[b] = <<ladder.plan, at>>
  BY DEF CrashLaunching, LaunchBox, CliInv, TypeOK
<1>4. TypeOK'
  BY <1>1 DEF CrashLaunching, CliInv, TypeOK
<1>5. BoxesMatch'
  BY <1>1, <1>2, <1>3, CliNone DEF CrashLaunching, CliInv, TypeOK, BoxesMatch
<1>6. Accounted'
  BY <1>1, <1>3 DEF CrashLaunching, CliInv, Accounted, Known
<1>7. Carried'
  BY DEF CrashLaunching, CliInv, Carried
<1>8. Acceptances'
  BY <1>1 DEF CrashLaunching, CliInv, Acceptances
<1> QED
  BY <1>4, <1>5, <1>6, <1>7, <1>8 DEF CliInv

\* From the tunnel to its end: the rung and the books stay what they are.
LEMMA RungKeeps ==
    ASSUME CliInv, ServeReady \/ ServeFails \/ Trace \/ CloseTunnel
    PROVE  CliInv'
<1>1. TypeOK'
  BY DEF CliInv, TypeOK, ServeReady, ServeFails, Trace, CloseTunnel, trail
<1>2. BoxesMatch'
  BY DEF CliInv, BoxesMatch, ServeReady, ServeFails, Trace, CloseTunnel, trail
<1>3. Accounted'
  BY DEF CliInv, Accounted, Known, ServeReady, ServeFails, Trace, CloseTunnel, trail
<1>4. Carried'
  BY DEF CliInv, Carried, ServeReady, ServeFails, Trace, CloseTunnel, trail
<1>5. Acceptances'
  BY DEF CliInv, Acceptances, Launches, ServeReady, ServeFails, Trace,
         CloseTunnel, trail
<1> QED
  BY <1>1, <1>2, <1>3, <1>4, <1>5 DEF CliInv

\* The clean-up: what it leaves billing was kept, or is reported.
LEMMA ReapKeeps ==
    ASSUME CliInv, Reap
    PROVE  CliInv'
<1>1. cur \in Boxes /\ box[cur] # "none"
  BY DEF Reap, CliInv, BoxesMatch
<1>2. TypeOK'
  BY <1>1 DEF Reap, TerminateBox, CliInv, TypeOK
<1>3. BoxesMatch'
  BY <1>1 DEF Reap, TerminateBox, CliInv, TypeOK, BoxesMatch
<1>4. Accounted'
  BY <1>1 DEF Reap, TerminateBox, CliInv, TypeOK, Accounted, Known
<1>5. Carried' /\ Acceptances'
  BY DEF Reap, CliInv, Carried, Acceptances, Launches
<1> QED
  BY <1>2, <1>3, <1>4, <1>5 DEF CliInv

LEMMA ClimbKeeps ==
    ASSUME CliInv, Climb
    PROVE  CliInv'
<1>1. ladder \in Ladder /\ at < ladder.cursor /\ pc = "reading"
  BY DEF Climb, CliInv, Carried
<1>2. /\ ladder.plan \in Plans
      /\ ladder.cursor \in RungsOf(ladder.plan)
      /\ <<ladder.plan, ladder.cursor>> \in AllRungs
      /\ ladder.cursor \in Nat
  BY <1>1, LadderFields, RungOfPlan DEF Climb, HasNext
<1>3. TypeOK'
  BY <1>2 DEF Climb, NextRung, CliInv, TypeOK
<1>4. BoxesMatch' /\ Accounted'
  BY DEF Climb, CliInv, BoxesMatch, Accounted, Known
<1>5. Carried'
  BY <1>1, <1>2 DEF Climb, NextRung, CliInv, Carried
<1>6. Acceptances'
  <2>1. /\ UNCHANGED <<ladder, goes, Launches>>
        /\ pc' = "prompt"
        /\ at' = ladder.cursor
        /\ offered' = offered \cup {<<ladder.plan, ladder.cursor>>}
    BY DEF Climb, NextRung, Launches
  <2>2. \A r \in offered : r[1] = ladder.plan /\ r[2] <= at /\ r[2] \in Int
    BY RungPair DEF CliInv, TypeOK, Acceptances, RungsOf
  <2>3. \A r \in offered' : r[1] = ladder.plan /\ r[2] <= ladder.cursor
    BY <1>1, <1>2, <2>1, <2>2 DEF CliInv, TypeOK
  <2>4. <<ladder.plan, ladder.cursor>> \notin offered
    BY <1>1, <1>2, <2>2 DEF CliInv, TypeOK
  <2> QED
    BY <2>1, <2>3, <2>4 DEF CliInv, Acceptances
<1> QED
  BY <1>3, <1>4, <1>5, <1>6 DEF CliInv

\* A kill moves the counter only; the tunnel may survive it.
LEMMA CrashKeeps ==
    ASSUME CliInv, Crash
    PROVE  CliInv'
<1>1. TypeOK' /\ BoxesMatch'
  BY DEF Crash, CliInv, TypeOK, BoxesMatch, trail
<1>2. Accounted' /\ Carried' /\ Acceptances'
  BY DEF Crash, CliInv, Accounted, Carried, Acceptances, Known, Launches, trail,
         BoxesMatch
<1> QED
  BY <1>1, <1>2 DEF CliInv

\* What spawn does by itself only ends what was running.
LEMMA BoxKeeps ==
    ASSUME CliInv, NEW b \in Boxes, Idles(b) \/ Ends(b)
    PROVE  CliInv'
<1>1. /\ box[b] # "none"
      /\ \/ box[b] = "up" /\ box' = [box EXCEPT ![b] = "stopped"]
         \/ box' = [box EXCEPT ![b] = "terminated"]
      /\ UNCHANGED <<flags, pc, ladder, at, cur, tunnel, outcome, ran, offered,
                     goes, lost, unreaped>>
  BY DEF Idles, Ends, IdleStops, BoxEnds, TerminateBox, trail
<1>2. TypeOK'
  BY <1>1 DEF CliInv, TypeOK
<1>3. BoxesMatch'
  BY <1>1 DEF CliInv, TypeOK, BoxesMatch
<1>4. Accounted'
  BY <1>1 DEF CliInv, TypeOK, Accounted, Known
<1>5. Carried' /\ Acceptances'
  BY <1>1 DEF CliInv, Carried, Acceptances, Launches
<1> QED
  BY <1>2, <1>3, <1>4, <1>5 DEF CliInv

LEMMA CliStep == CliInv /\ [Next]_vars => CliInv'
<1> SUFFICES ASSUME CliInv, [Next]_vars PROVE CliInv'
  OBVIOUS
<1>1. CASE Command
  BY <1>1, ProposeKeeps, GoKeeps, EndKeeps, ApproveKeeps, RungKeeps, ReapKeeps,
     ClimbKeeps DEF Command
<1>2. CASE Crash
  BY <1>2, CrashKeeps
<1>3. ASSUME NEW b \in Boxes, CrashLaunching(b) \/ Idles(b) \/ Ends(b)
      PROVE  CliInv'
  BY <1>3, CrashLaunchingKeeps, BoxKeeps
<1>4. CASE UNCHANGED vars
  BY <1>4 DEF vars, trail, CliInv, TypeOK, BoxesMatch, Accounted, Carried,
              Acceptances, Known, Launches
<1> QED
  BY <1>1, <1>2, <1>3, <1>4 DEF Next

THEOREM CliInvariant == Spec => []CliInv
<1> QED
  BY CliInit, CliStep, PTL DEF Spec

-----------------------------------------------------------------------------

(***************************************************************************)
(* The variables of a run of the command stay in their ranges.             *)
(***************************************************************************)
THEOREM CliTypeCorrect == Spec => []TypeOK
<1>1. CliInv => TypeOK
  BY DEF CliInv
<1> QED
  BY <1>1, CliInvariant, PTL

(***************************************************************************)
(* However a rung ends, the command leaves no tunnel open and no instance  *)
(* billing that it could have terminated (runRung's defers, reap).         *)
(***************************************************************************)
THEOREM LeavesNothingRunning == Spec => []NothingLeftRunning
<1>1. CliInv => NothingLeftRunning
  BY DEF CliInv, BoxesMatch, Accounted, NothingLeftRunning, AtRest
<1> QED
  BY <1>1, CliInvariant, PTL

-----------------------------------------------------------------------------
(***************************************************************************)
(* The receipt is exact.                                                   *)
(***************************************************************************)

\* What a known box was charged for.
LEMMA ChargeOfKnown ==
    ASSUME CliInv, NEW b \in Known
    PROVE  Charges[b] = Cost[ran[b][1]][ran[b][2]] /\ Charges[b] \in Nat
<1>1. ran[b] \in AllRungs
  BY DEF CliInv, TypeOK, Known
<1> QED
  BY <1>1, RungPair, RungOfPlan DEF Charges

LEMMA BooksInit == Init => Books
<1> SUFFICES ASSUME Init PROVE Books
  OBVIOUS
<1>1. Known = {} /\ ladder = NoLadder
  BY DEF Init, Known
<1> QED
  BY <1>1, CliInit, FS_EmptySet DEF Books, SpentIsExact

\* A step that launches nothing and books nothing.
LEMMA QuietBooks ==
    ASSUME Books, UNCHANGED <<ladder, ran, lost>>
    PROVE  IsFiniteSet(Known)' /\ SpentIsExact'
BY DEF Books, Known, SpentIsExact, Charges

LEMMA BooksPropose ==
    ASSUME Books, Propose
    PROVE  IsFiniteSet(Known)' /\ SpentIsExact'
<1>1. CASE UNCHANGED ladder
  BY <1>1, QuietBooks DEF Propose
<1>2. ASSUME NEW p \in Plans, ladder' = Proposed(p)
      PROVE  IsFiniteSet(Known)' /\ SpentIsExact'
  <2>1. Launches = {} /\ UNCHANGED <<ran, lost>>
    BY DEF Propose, Books, CliInv, Carried, Acceptances
  <2>2. Known' = {} /\ DOMAIN Charges' = {}
    BY <2>1 DEF Launches, Known, Charges
  <2>3. SumFunction(Charges') = 0
    BY <2>2, SumOfNothing DEF SumFunction
  <2> QED
    BY <1>2, <2>2, <2>3, ProposedLadder, FS_EmptySet DEF SpentIsExact
<1> QED
  BY <1>1, <1>2 DEF Propose

\* A launch whose answer was lost is not a launch the command knows of.
LEMMA BooksLost ==
    ASSUME Books, NEW b \in Boxes, pc = "approving", LaunchBox(b),
           ran' = [ran EXCEPT ![b] = <<ladder.plan, at>>],
           lost' = lost \cup {b}, UNCHANGED ladder
    PROVE  IsFiniteSet(Known)' /\ SpentIsExact'
<1>1. ran[b] = NoRung
  BY LaunchKeeps DEF Books
<1>2. \A c \in Boxes \ {b} : ran'[c] = ran[c]
  BY DEF Books, CliInv, TypeOK
<1>3. Known' = Known
  BY <1>1, <1>2 DEF Known
<1>4. b \notin Known
  BY <1>1 DEF Known
<1>5. Charges' = Charges
  BY <1>2, <1>3, <1>4 DEF Charges, Known
<1> QED
  BY <1>3, <1>5 DEF Books, SpentIsExact

\* The launch and the booking are one step, and add the same amount.
LEMMA BooksApprove ==
    ASSUME Books, NEW b \in Boxes, Approve(b)
    PROVE  IsFiniteSet(Known)' /\ SpentIsExact'
<1> DEFINE r == <<ladder.plan, at>>
<1>1. CASE lost' = lost \cup {b} /\ UNCHANGED ladder
  BY <1>1, BooksLost DEF Approve
<1>2. CASE ladder' = Booked(ladder, at) /\ cur' = b /\ UNCHANGED lost
  <2>1. /\ ladder \in Ladder /\ ladder # NoLadder
        /\ at \in RungsOf(ladder.plan) /\ r \in AllRungs /\ r # NoRung
    BY ProposedRung, CliNone DEF Approve, Books
  <2>2. ran[b] = NoRung /\ b \notin lost
    BY LaunchKeeps DEF Approve, Books, CliInv, BoxesMatch
  <2>3. ran'[b] = r /\ \A c \in Boxes \ {b} : ran'[c] = ran[c]
    BY DEF Approve, Books, CliInv, TypeOK
  <2>4. b \notin Known /\ Known' = Known \cup {b}
    BY <1>2, <2>1, <2>2, <2>3 DEF Known
  <2>5. /\ \A c \in Known : Charges'[c] = Charges[c] /\ Charges[c] \in Nat
        /\ Charges'[b] = Cost[ladder.plan][at]
        /\ Charges'[b] \in Nat
    <3>1. \A c \in Known : ran'[c] = ran[c]
      BY <2>3, <2>4 DEF Known
    <3>2. \A c \in Known : Charges[c] = Cost[ran[c][1]][ran[c][2]] /\ Charges[c] \in Nat
      BY ChargeOfKnown DEF Books
    <3>3. \A c \in Known' : Charges'[c] = Cost[ran'[c][1]][ran'[c][2]]
      BY DEF Charges
    <3>4. Cost[ladder.plan][at] \in Nat
      BY <2>1, LadderFields, RungOfPlan
    <3> QED
      BY <2>3, <2>4, <3>1, <3>2, <3>3, <3>4
  <2>6. IsFiniteSet(Known)
    BY DEF Books
  <2>7. /\ SumFunctionOnSet(Charges', Known) \in Nat
        /\ SumFunctionOnSet(Charges', Known \cup {b})
              = Charges'[b] + SumFunctionOnSet(Charges', Known)
    BY <2>4, <2>5, <2>6, SumWithOneMore
  <2>8. SumFunctionOnSet(Charges', Known) = SumFunctionOnSet(Charges, Known)
    BY <2>5, <2>6, SumOfEqual
  <2>9. SumFunction(Charges) = SumFunctionOnSet(Charges, Known)
    BY DEF SumFunction, Charges
  <2>10. SumFunction(Charges)' = SumFunctionOnSet(Charges', Known \cup {b})
    BY <2>4 DEF SumFunction, Charges
  <2>11. ladder.spent = SumFunction(Charges)
    BY <2>1 DEF Books, SpentIsExact
  <2>12. ladder'.spent = ladder.spent + Cost[ladder.plan][at]
    BY <1>2, <2>1, BookedLadder
  <2>13. SpentIsExact'
    BY <2>5, <2>7, <2>8, <2>9, <2>10, <2>11, <2>12 DEF SpentIsExact
  <2> QED
    BY <2>4, <2>6, <2>13, FS_AddElement
<1> QED
  BY <1>1, <1>2 DEF Approve

LEMMA BooksStep == Books /\ [Next]_vars => Books'
<1> SUFFICES ASSUME Books, [Next]_vars PROVE IsFiniteSet(Known)' /\ SpentIsExact'
  BY CliStep DEF Books
<1>1. CASE UNCHANGED <<ladder, ran, lost>>
  BY <1>1, QuietBooks
<1>2. CASE Propose
  BY <1>2, BooksPropose
<1>3. ASSUME NEW b \in Boxes, Approve(b) \/ CrashLaunching(b)
      PROVE  IsFiniteSet(Known)' /\ SpentIsExact'
  BY <1>3, BooksApprove, BooksLost DEF CrashLaunching
<1>4. CASE \/ Go \/ Decline \/ ApproveFails \/ Climb \/ Stop \/ Crash
           \/ ServeReady \/ ServeFails \/ Trace \/ CloseTunnel \/ Reap
           \/ \E b \in Boxes : Idles(b) \/ Ends(b)
           \/ UNCHANGED vars
  BY <1>1, <1>4 DEF Go, Decline, ApproveFails, Climb, Stop, Crash, ServeReady, ServeFails,
     Trace, CloseTunnel, Reap, Idles, Ends, vars, trail
<1> QED
  BY <1>2, <1>3, <1>4 DEF Next, Command

(***************************************************************************)
(* What the command says was spent is, to the cent, what the launches it   *)
(* knows of committed, whatever failed and wherever it was killed          *)
(* (Brain.Approve books, runLoop prints).                                  *)
(***************************************************************************)
THEOREM ReceiptIsExact == Spec => []SpentIsExact
<1>1. Books => SpentIsExact
  BY DEF Books
<1> QED
  BY <1>1, BooksInit, BooksStep, PTL DEF Spec

-----------------------------------------------------------------------------
(***************************************************************************)
(* The command implements the acceptance node.                             *)
(***************************************************************************)

LEMMA CliAcceptanceInit == Init => HITL!Init
BY CliNone DEF Init, HITL!Init, Launches

LEMMA CliAcceptanceStep ==
    ASSUME CliInv, [Next]_vars
    PROVE  [HITL!Next]_(HITL!loopVars)
<1>1. CASE Propose
  <2>1. offered = {} /\ UNCHANGED <<goes, Launches>>
    BY <1>1 DEF Propose, CliInv, Carried, Launches
  <2>2. CASE UNCHANGED offered
    BY <2>1, <2>2 DEF HITL!loopVars
  <2>3. ASSUME NEW p \in Plans, offered' = {<<p, 0>>}
        PROVE  HITL!Next
    <3>1. <<p, 0>> \in AllRungs
      BY FirstRung, RungOfPlan
    <3>2. HITL!Offer(<<p, 0>>)
      BY <2>1, <2>3 DEF HITL!Offer
    <3> QED
      BY <3>1, <3>2 DEF HITL!Next
  <2> QED
    BY <1>1, <2>2, <2>3 DEF Propose
<1>2. CASE Go
  <2>1. <<ladder.plan, at>> \in AllRungs
    BY <1>2, ProposedRung DEF Go
  <2>2. HITL!Go(<<ladder.plan, at>>)
    BY <1>2 DEF Go, CliInv, Acceptances, HITL!Go, Launches
  <2> QED
    BY <2>1, <2>2 DEF HITL!Next
<1>3. ASSUME NEW b \in Boxes, Approve(b) \/ CrashLaunching(b)
      PROVE  HITL!Next
  <2>1. /\ pc = "approving"
        /\ Launches' = Launches \cup {<<ladder.plan, at>>}
        /\ UNCHANGED <<offered, goes>>
    BY <1>3, LaunchKeeps DEF Approve, CrashLaunching
  <2>2. <<ladder.plan, at>> \in AllRungs
    BY <2>1, ProposedRung
  <2>3. HITL!Launch(<<ladder.plan, at>>)
    BY <2>1 DEF CliInv, Acceptances, HITL!Launch
  <2> QED
    BY <2>2, <2>3 DEF HITL!Next
<1>4. CASE Climb
  <2>1. ladder \in Ladder /\ at < ladder.cursor
    BY <1>4 DEF Climb, CliInv, Carried
  <2>2. ladder.plan \in Plans /\ ladder.cursor \in RungsOf(ladder.plan)
    BY <1>4, <2>1, LadderFields DEF Climb, HasNext
  <2>3. <<ladder.plan, ladder.cursor>> \in AllRungs /\ ladder.cursor \in Nat
    BY <2>2, RungOfPlan
  <2>4. <<ladder.plan, ladder.cursor>> \notin offered
    BY <2>1, <2>3 DEF CliInv, TypeOK, Acceptances
  <2>5. HITL!Offer(<<ladder.plan, ladder.cursor>>)
    BY <1>4, <2>4 DEF Climb, NextRung, HITL!Offer, Launches
  <2> QED
    BY <2>3, <2>5 DEF HITL!Next
<1>5. CASE \/ Decline \/ ApproveFails \/ Stop \/ Crash
           \/ ServeReady \/ ServeFails \/ Trace \/ CloseTunnel \/ Reap
           \/ \E b \in Boxes : Idles(b) \/ Ends(b)
           \/ UNCHANGED vars
  <2>1. UNCHANGED <<offered, goes, ran>>
    BY <1>5 DEF Decline, ApproveFails, Stop, Crash, ServeReady, ServeFails, Trace,
                CloseTunnel, Reap, Idles, Ends, vars, trail
  <2> QED
    BY <2>1 DEF HITL!loopVars, Launches
<1> QED
  BY <1>1, <1>2, <1>3, <1>4, <1>5 DEF Next, Command

(***************************************************************************)
(* Nothing launches that was not shown to the human and got a Go of its    *)
(* own, whatever fails and wherever the command is killed.                 *)
(***************************************************************************)
THEOREM CommandImplementsAcceptance == Spec => HITLSpec
<1> QED
  BY CliInvariant, CliAcceptanceInit, CliAcceptanceStep, PTL
     DEF Spec, HITLSpec, HITL!Spec

=============================================================================
