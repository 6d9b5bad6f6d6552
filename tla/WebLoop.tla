------------------------------- MODULE WebLoop -------------------------------
(***************************************************************************)
(* The deployed loop: the page (web/app.js), the stateless web API         *)
(* (internal/webapi) and the brain, over one browser tab.  The server      *)
(* keeps no ladder; the page carries one in currentLadder and echoes it    *)
(* with every request.  Every await of the page is a point where another   *)
(* of its callbacks may run, and every call the approve handler makes is a *)
(* point where it may fail with the earlier calls already done.            *)
(*                                                                         *)
(* A card is one rung put in front of the human, with the asynchronous     *)
(* runRung its Go button starts; it outlives its removal from the page.    *)
(***************************************************************************)
EXTENDS Brain, FiniteSets

CONSTANTS
    MaxCards,   \* bound: how many cards the page ever creates
    NoLadder,   \* currentLadder = null
    NoRung,     \* nothing launched
    Patient,    \* the human asks again only once every started rung has ended
    Faults      \* which outside failures may happen, out of FaultKinds

\* Cards are numbered in the order the page creates them.
CardIds == 1 .. MaxCards

FaultKinds == {"plan", "launch", "orphan", "store", "receipt", "reply"}

ASSUME LoopAssumption ==
    /\ MaxCards \in Nat
    /\ Patient \in BOOLEAN
    /\ Faults \subseteq FaultKinds
    /\ NoLadder \notin Ladder
    /\ NoRung \notin AllRungs

VARIABLES
    current,    \* the page's currentLadder
    asking,     \* the page's propose: idle, asking, or seeding the meter
    tip,        \* the plan the last submitted question gets
    planned,    \* the plans the planner has returned so far
    shown,      \* the cards in the #rungs list
    card,       \* the plan and rung a card displays
    ui,         \* how far the card's runRung is
    held,       \* the ladder in the card's closure: sent, then started.ladder
    rpc,        \* how far the server is with the card's approve request
    ran,        \* the rung the approve request launched
    trace,      \* what the worker made of it
    meter,      \* the header's cost meter
    bill,       \* what was really committed per plan: every launch that happened
    receipts    \* the receipt rows of the sessions table

pageVars   == <<current, asking, tip, planned, shown, card, ui, held, meter>>
serverVars == <<rpc, ran, bill, receipts>>
vars       == <<pageVars, serverVars, trace>>

-----------------------------------------------------------------------------

Idle    == {"none", "fresh"}
Busy    == {"approving", "polling", "climbing"}
Settled == {"done", "refused", "failed", "gone"}

\* A row is keyed by question and rung; plan is the launch behind it.
ReceiptRow == [question : {Asks[p] : p \in Plans}, rung : Nat,
               plan : Plans, spent : Nat]

TypeOK ==
    /\ current \in Ladder \cup {NoLadder}
    /\ asking \in {"idle", "asking", "seeding"}
    /\ tip \in Plans
    /\ planned \subseteq Plans
    /\ shown \subseteq CardIds
    /\ card \in [CardIds -> AllRungs \cup {NoRung}]
    /\ ui \in [CardIds -> Idle \cup Busy \cup Settled]
    /\ held \in [CardIds -> Ladder \cup {NoLadder}]
    /\ rpc \in [CardIds -> {"none", "posted", "launched", "handed", "ok", "failed"}]
    /\ ran \in [CardIds -> AllRungs \cup {NoRung}]
    /\ trace \in [CardIds -> {"running", "ok", "failed"}]
    /\ meter \in Nat
    /\ bill \in [Plans -> Nat]
    /\ receipts \subseteq ReceiptRow

Init ==
    /\ current = NoLadder
    /\ asking = "idle"
    /\ tip \in Plans
    /\ planned = {}
    /\ shown = {}
    /\ card = [c \in CardIds |-> NoRung]
    /\ ui = [c \in CardIds |-> "none"]
    /\ held = [c \in CardIds |-> NoLadder]
    /\ rpc = [c \in CardIds |-> "none"]
    /\ ran = [c \in CardIds |-> NoRung]
    /\ trace = [c \in CardIds |-> "running"]
    /\ meter = 0
    /\ bill = [p \in Plans |-> 0]
    /\ receipts = {}

-----------------------------------------------------------------------------
(***************************************************************************)
(* Receipts: PutItem on (question, rung), and the read-side summary.       *)
(***************************************************************************)
RowsOf(q) == {r \in receipts : r.question = q}

\* SummarizeReceipts: SpentUSD is the largest cumulative figure among the
\* rows of the question, and 0 without rows.
Figures(q) == {0} \cup {r.spent : r \in RowsOf(q)}

Summary(q, m) ==
    /\ m \in Figures(q)
    /\ \A s \in Figures(q) : s <= m

\* PutReceipt: a row already there for the question and rung is replaced.
PutReceipt(p, i, spent) ==
    receipts' = {r \in receipts : ~(r.question = Asks[p] /\ r.rung = i)}
                \cup {[question |-> Asks[p], rung |-> i, plan |-> p,
                       spent |-> spent]}

-----------------------------------------------------------------------------
(***************************************************************************)
(* The page: propose.                                                      *)
(***************************************************************************)

\* A bug this model would catch: the list is not emptied.
SubmitKeepingList(p) ==
    /\ asking = "idle"
    /\ p \notin planned
    /\ Patient => \A c \in CardIds : ui[c] \notin Busy
    /\ asking' = "asking"
    /\ tip' = p
    /\ planned' = planned \cup {p}
    /\ current' = NoLadder
    /\ UNCHANGED <<shown, card, ui, held, meter, serverVars, trace>>

\* The form is submitted: the list is emptied and the carried ladder dropped,
\* but nothing stops the cards whose rung is still running.  The button is
\* disabled until the answer, so there is one propose at a time.
Submit(p) ==
    /\ asking = "idle"
    /\ p \notin planned
    /\ Patient => \A c \in CardIds : ui[c] \notin Busy
    /\ asking' = "asking"
    /\ tip' = p
    /\ planned' = planned \cup {p}
    /\ shown' = {}
    /\ current' = NoLadder
    /\ UNCHANGED <<card, ui, held, meter, serverVars, trace>>

\* The planner failed, or asked a clarifying question back: no ladder.
ProposeEnds ==
    /\ "plan" \in Faults
    /\ asking = "asking"
    /\ asking' = "idle"
    /\ UNCHANGED <<current, tip, planned, shown, card, ui, held, meter,
                   serverVars, trace>>

ProposeAnswered ==
    /\ asking = "asking"
    /\ current' = Proposed(tip)
    /\ asking' = "seeding"
    /\ UNCHANGED <<tip, planned, shown, card, ui, held, meter, serverVars, trace>>

\* A new card for rung i of plan p at the end of the list.
AddCard(p, i, c) ==
    /\ ui[c] = "none"
    /\ \A d \in 1 .. c - 1 : ui[d] # "none"
    /\ card' = [card EXCEPT ![c] = <<p, i>>]
    /\ shown' = shown \cup {c}

\* The meter is seeded from the question's receipts ($0 if that read fails)
\* before the first card appears; the page was free to run other callbacks
\* while it waited.
Seeded(c) ==
    /\ asking = "seeding"
    /\ asking' = "idle"
    /\ \/ \E m \in Figures(Asks[tip]) : Summary(Asks[tip], m) /\ meter' = m
       \/ "receipt" \in Faults /\ meter' = 0
    /\ AddCard(tip, 0, c)
    /\ ui' = [ui EXCEPT ![c] = "fresh"]
    /\ UNCHANGED <<current, tip, planned, held, serverVars, trace>>

\* The tab is reloaded: every card, closure and timer of the page goes with
\* it, while a request the server already has runs on.
Reload ==
    /\ asking' = "idle"
    /\ current' = NoLadder
    /\ shown' = {}
    /\ meter' = 0
    /\ ui' = [c \in CardIds |-> IF ui[c] = "none" THEN "none" ELSE "gone"]
    /\ UNCHANGED <<tip, planned, card, held, serverVars, trace>>

(***************************************************************************)
(* The page: one card's runRung.                                           *)
(***************************************************************************)

\* Go: the button is disabled and the request carries whatever ladder the
\* page holds now, with the index of the rung on the card.
ClickGo(c) ==
    /\ c \in shown
    /\ ui[c] = "fresh"
    /\ ui' = [ui EXCEPT ![c] = "approving"]
    /\ held' = [held EXCEPT ![c] = current]
    /\ rpc' = [rpc EXCEPT ![c] = "posted"]
    /\ UNCHANGED <<current, asking, tip, planned, shown, card, meter, ran,
                   bill, receipts, trace>>

\* A bug: the meter adds up on the client what the server sums.
ApproveAnsweredClientSum(c) ==
    /\ ui[c] = "approving"
    /\ rpc[c] = "ok"
    /\ LET l == Booked(held[c], card[c][2])
       IN  /\ current' = l
           /\ held' = [held EXCEPT ![c] = l]
           /\ meter' = meter + Cost[l.plan][card[c][2]]
    /\ ui' = [ui EXCEPT ![c] = "polling"]
    /\ UNCHANGED <<asking, tip, planned, shown, card, serverVars, trace>>

\* The approve answer arrives: the booked ladder replaces the carried one.
ApproveAnswered(c) ==
    /\ ui[c] = "approving"
    /\ rpc[c] = "ok"
    /\ LET l == Booked(held[c], card[c][2])
       IN  /\ current' = l
           /\ held' = [held EXCEPT ![c] = l]
           /\ meter' = l.spent
    /\ ui' = [ui EXCEPT ![c] = "polling"]
    /\ UNCHANGED <<asking, tip, planned, shown, card, serverVars, trace>>

\* An error answer, or no answer in time: the card says "denied" and "not
\* launched".  The carried ladder stays what it was, the button disabled.
ApproveRefused(c) ==
    /\ ui[c] = "approving"
    /\ rpc[c] = "failed" \/ "reply" \in Faults
    /\ ui' = [ui EXCEPT ![c] = "refused"]
    /\ UNCHANGED <<current, asking, tip, planned, shown, card, held, meter,
                   serverVars, trace>>

\* A poll finds the result: the server interprets it (the effect is the
\* model's reading of it), assesses, and echoes the ladder it was sent.
PollDone(c) ==
    /\ ui[c] = "polling"
    /\ trace[c] = "ok"
    /\ current' = held[c]
    /\ meter' = held[c].spent
    /\ \E effect \in BOOLEAN :
          ui' = [ui EXCEPT ![c] =
                    IF Climbs(held[c], card[c][2], effect) /\ HasNext(held[c])
                    THEN "climbing" ELSE "done"]
    /\ UNCHANGED <<asking, tip, planned, shown, card, held, serverVars, trace>>

\* A bug: the poll has no deadline of its own.
PollFailsOnReport(c) ==
    /\ ui[c] = "polling"
    /\ trace[c] = "failed"
    /\ ui' = [ui EXCEPT ![c] = "failed"]
    /\ UNCHANGED <<current, asking, tip, planned, shown, card, held, meter,
                   serverVars, trace>>

\* The worker reported a failure, a request failed, or twenty minutes passed.
PollFails(c) ==
    /\ ui[c] = "polling"
    /\ ui' = [ui EXCEPT ![c] = "failed"]
    /\ UNCHANGED <<current, asking, tip, planned, shown, card, held, meter,
                   serverVars, trace>>

\* A bug: the climb goes on by itself, without a Go for the next rung.
NextCardAuto(c, d) ==
    /\ ui[c] = "climbing"
    /\ AddCard(held[c].plan, NextRung(held[c]), d)
    /\ ui' = [ui EXCEPT ![c] = "done", ![d] = "approving"]
    /\ held' = [held EXCEPT ![d] = current]
    /\ rpc' = [rpc EXCEPT ![d] = "posted"]
    /\ UNCHANGED <<current, asking, tip, planned, meter, ran, bill, receipts,
                   trace>>

\* After the settle timer the proposed next rung is appended to the list, to
\* whatever list the page shows by then.
NextCard(c, d) ==
    /\ ui[c] = "climbing"
    /\ AddCard(held[c].plan, NextRung(held[c]), d)
    /\ ui' = [ui EXCEPT ![c] = "done", ![d] = "fresh"]
    /\ UNCHANGED <<current, asking, tip, planned, held, meter, serverVars, trace>>

-----------------------------------------------------------------------------
(***************************************************************************)
(* The server: handleApprove for the request of card c.  What it works on  *)
(* is the ladder in the request, never the card.                           *)
(***************************************************************************)

\* A bug: the receipt is written before the launch is known to have happened.
ApproveRejectsWithReceipt(c) ==
    /\ rpc[c] = "posted"
    /\ held[c] # NoLadder
    /\ card[c][2] \in RungsOf(held[c].plan)
    /\ "launch" \in Faults
    /\ PutReceipt(held[c].plan, card[c][2], Booked(held[c], card[c][2]).spent)
    /\ rpc' = [rpc EXCEPT ![c] = "failed"]
    /\ UNCHANGED <<pageVars, ran, bill, trace>>

\* Rejected before anything starts: no ladder or no such rung (400), Cedar's
\* denial, or a launch that failed (403).
ApproveRejects(c) ==
    /\ rpc[c] = "posted"
    /\ \/ held[c] = NoLadder
       \/ held[c] # NoLadder /\ card[c][2] \notin RungsOf(held[c].plan)
       \/ /\ held[c] # NoLadder
          /\ ~Permit(held[c].plan, card[c][2])
       \/ "launch" \in Faults
    /\ rpc' = [rpc EXCEPT ![c] = "failed"]
    /\ UNCHANGED <<pageVars, ran, bill, receipts, trace>>

\* Brain.Approve: the instance is running.  An "orphan" is a launch whose
\* answer from spawn could not be read: it runs, and Approve returns an error.
ApproveLaunches(c) ==
    /\ rpc[c] = "posted"
    /\ held[c] # NoLadder
    /\ LET p == held[c].plan
           i == card[c][2]
       IN  /\ i \in RungsOf(p)
           /\ Permit(p, i)
           /\ ran' = [ran EXCEPT ![c] = <<p, i>>]
           /\ bill' = [bill EXCEPT ![p] = @ + Cost[p][i]]
    /\ \/ rpc' = [rpc EXCEPT ![c] = "launched"]
       \/ "orphan" \in Faults /\ rpc' = [rpc EXCEPT ![c] = "failed"]
    /\ UNCHANGED <<pageVars, receipts, trace>>

\* register (Store.Put) and HandOff (PutGraph, Store.Touch); a failure of
\* either ends the request with 502, the instance running.
ApproveHandsOver(c) ==
    /\ rpc[c] = "launched"
    /\ \/ rpc' = [rpc EXCEPT ![c] = "handed"]
       \/ "store" \in Faults /\ rpc' = [rpc EXCEPT ![c] = "failed"]
    /\ UNCHANGED <<pageVars, ran, bill, receipts, trace>>

\* RecordReceipt is best-effort: the answer is `running` either way.
ApproveRecords(c) ==
    /\ rpc[c] = "handed"
    /\ \/ PutReceipt(held[c].plan, card[c][2],
                     Booked(held[c], card[c][2]).spent)
       \/ "receipt" \in Faults /\ UNCHANGED receipts
    /\ rpc' = [rpc EXCEPT ![c] = "ok"]
    /\ UNCHANGED <<pageVars, ran, bill, trace>>

Serve(c) ==
    \/ ApproveRejects(c)
    \/ ApproveLaunches(c)
    \/ ApproveHandsOver(c)
    \/ ApproveRecords(c)

\* The worker found its graph and wrote a result, or a failure.
TraceEnds(c) ==
    /\ rpc[c] \in {"handed", "ok"}
    /\ trace[c] = "running"
    /\ \E outcome \in {"ok", "failed"} : trace' = [trace EXCEPT ![c] = outcome]
    /\ UNCHANGED <<pageVars, serverVars>>

-----------------------------------------------------------------------------

\* The page's own callbacks, as opposed to what the human does.
Callback(c) ==
    \/ Seeded(c)
    \/ ApproveAnswered(c)
    \/ ApproveRefused(c)
    \/ PollDone(c)
    \/ PollFails(c)
    \/ \E d \in CardIds : NextCard(c, d)

Next ==
    \/ \E p \in Plans : Submit(p)
    \/ Reload
    \/ ProposeEnds
    \/ ProposeAnswered
    \/ \E c \in CardIds : ClickGo(c) \/ Callback(c) \/ Serve(c) \/ TraceEnds(c)

Spec == Init /\ [][Next]_vars

(***************************************************************************)
(* A request in flight runs to its end and the page's timers fire.  No     *)
(* fairness on the human, nor on the worker: a trace may never end, and    *)
(* then it is PollFails, the page's deadline, that ends the wait.          *)
(***************************************************************************)
Fairness ==
    /\ WF_vars(ProposeAnswered)
    /\ \A c \in CardIds :
          /\ WF_vars(Serve(c))
          /\ WF_vars(Seeded(c))
          /\ WF_vars(ApproveAnswered(c) \/ ApproveRefused(c))
          /\ WF_vars(PollDone(c) \/ PollFails(c))
          /\ WF_vars(\E d \in CardIds : NextCard(c, d))

FairSpec == Spec /\ Fairness

=============================================================================
