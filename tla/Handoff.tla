-------------------------------- MODULE Handoff --------------------------------
(***************************************************************************)
(* One rung in the deployed control plane, from the Go to its end on the   *)
(* page: POST /api/approve launches the instance, records the session and  *)
(* hands the graph over; the worker on the instance answers through the    *)
(* bucket; the page polls POST /api/result, which collects the answer.     *)
(* Time passes in ticks.  The page waits for an answer until CloudFront's  *)
(* read timeout; the handler behind it may go on after that.               *)
(***************************************************************************)
EXTENDS BatchWorker, SessionRow, SpawnBox

CONSTANTS
    Session,        \* the instance, whose id is the session's id
    OriginTimeout,  \* CloudFront's OriginReadTimeout, in ticks
    PollEvery,      \* POLL_MS
    PageWait        \* POLL_TIMEOUT_MS

ASSUME HandoffAssumption ==
    /\ Session \in Boxes
    /\ OriginTimeout \in Nat /\ PollEvery \in Nat /\ PageWait \in Nat
    /\ GraphWait \in Nat /\ IdleGrace \in Nat
    /\ OriginTimeout < GraphWait                            \* 30 s, 120 s
    /\ OriginTimeout + PollEvery + OriginTimeout < IdleGrace  \* 63 s, 300 s

VARIABLES
    page,       \* what the page shows of the rung
    since,      \* ticks since the page sent its request, or got the last answer
    polledFor,  \* ticks since it started to poll
    approve,    \* where the approve handler is
    collect     \* where the handler of the poll is

pageVars == <<page, since, polledFor>>
vars == <<pageVars, approve, collect, workerVars, prefixVars, rowVars, box>>

Requesting == page \in {"go", "asking"}
Polling == page \in {"resting", "asking"}
Ended == page \in {"done", "told", "lost", "denied", "left"}

Init ==
    /\ page = "ready" /\ since = 0 /\ polledFor = 0
    /\ approve = "none" /\ collect = "none"
    /\ WorkerInit /\ PrefixInit /\ RowInit /\ BoxInit

Shows(p) == page' = p /\ since' = 0 /\ polledFor' = 0

\* How long ago the request now being served can have read its clock.
RequestAge == IF Requesting THEN since ELSE IdleGrace

-----------------------------------------------------------------------------
(* The approve handler. *)

\* The human's Go on the card: one POST /api/approve.
ClickGo ==
    /\ page = "ready"
    /\ Shows("go")
    /\ approve' = "launching"
    /\ UNCHANGED <<collect, workerVars, prefixVars, rowVars, box>>

\* Brain.Approve: spawn launches the instance, whose worker boots.
Launch ==
    /\ approve = "launching"
    /\ LaunchBox(Session) /\ Summoned
    /\ approve' = "registering"
    /\ UNCHANGED <<pageVars, collect, prefixVars, rowVars>>

\* The handler's error answer; a page that gave up does not hear it.
Refuses ==
    /\ approve' = "over"
    /\ IF page = "go" THEN Shows("denied") ELSE UNCHANGED pageVars

\* Cedar's denial, or a launch that failed, with or without an instance.
LaunchFails ==
    /\ approve = "launching"
    /\ Refuses
    /\ \/ LaunchBox(Session) /\ Summoned
       \/ UNCHANGED <<box, workerVars>>
    /\ UNCHANGED <<collect, prefixVars, rowVars>>

\* register: the row Collect resolves the session through.
Register ==
    /\ approve = "registering"
    /\ PutRow(RequestAge)
    /\ approve' = "handing"
    /\ UNCHANGED <<pageVars, collect, workerVars, prefixVars, box>>

\* HandOff: PutGraph, under the id of the instance that is already booting ...
PutGraph ==
    /\ approve = "handing"
    /\ Put("graph.json")
    /\ approve' = "stamping"
    /\ UNCHANGED <<pageVars, collect, workerVars, result, rowVars, box>>

\* ... and then the activity stamp.
StampHandOff ==
    /\ approve = "stamping"
    /\ TouchRow(RequestAge)
    /\ approve' = "answering"
    /\ UNCHANGED <<pageVars, collect, workerVars, prefixVars, box>>

\* Each of the three calls can fail, with or without its effect, and ends it.
ApproveFails ==
    /\ Refuses
    /\ \/ approve = "registering" /\ PutRow(RequestAge) /\ UNCHANGED stored
       \/ approve = "handing" /\ PutFails("graph.json") /\ UNCHANGED rowVars
       \/ approve = "stamping" /\ TouchRow(RequestAge) /\ UNCHANGED stored
       \/ /\ approve \in {"registering", "stamping"}
          /\ UNCHANGED <<stored, rowVars>>
    /\ UNCHANGED <<collect, workerVars, result, box>>

\* 200, status running: the page starts to poll.
ApproveAnswers ==
    /\ approve = "answering"
    /\ approve' = "over"
    /\ IF page = "go" THEN Shows("resting") ELSE UNCHANGED pageVars
    /\ UNCHANGED <<collect, workerVars, prefixVars, rowVars, box>>

\* The Lambda dies or times out: what it did so far stays.
ApproveDies ==
    /\ approve \notin {"none", "over"}
    /\ Refuses
    /\ UNCHANGED <<collect, workerVars, prefixVars, rowVars, box>>

-----------------------------------------------------------------------------
(* The poll. *)

\* pollResult: POLL_MS after the last answer.
Poll ==
    /\ page = "resting" /\ since >= PollEvery
    /\ page' = "asking" /\ since' = 0
    /\ collect' = "row"
    /\ UNCHANGED <<polledFor, approve, workerVars, prefixVars, rowVars, box>>

\* The poll's handler answers and the page, if it still waits, shows p.
Answers(p) ==
    /\ collect' = "none"
    /\ IF page = "asking" THEN Shows(p) ELSE UNCHANGED pageVars

CollectRow ==
    /\ collect = "row" /\ row = "there"
    /\ collect' = "result"
    /\ UNCHANGED <<pageVars, approve, workerVars, prefixVars, rowVars, box>>

\* GetResult: an absent key is a trace that still runs.
ResultPending ==
    /\ collect = "result" /\ result = "absent"
    /\ collect' = "touch"
    /\ UNCHANGED <<pageVars, approve, workerVars, prefixVars, rowVars, box>>

\* ErrTraceFailed: the page shows the worker's own message.
ResultIsError ==
    /\ collect = "result" /\ result = "error"
    /\ Answers("told")
    /\ UNCHANGED <<approve, workerVars, prefixVars, rowVars, box>>

\* Interpret, Assess, NextProposal, and the answer that ends the rung.
ResultIsOk ==
    /\ collect = "result" /\ result = "ok"
    /\ Answers("done")
    /\ UNCHANGED <<approve, workerVars, prefixVars, rowVars, box>>

\* mutant: a page that polls for as long as it is told to
StillRunningForever ==
    /\ collect' = "none"
    /\ IF page # "asking" THEN UNCHANGED pageVars
       ELSE page' = "resting" /\ since' = 0 /\ UNCHANGED polledFor

\* The page looks at its own clock only after an answer that said running.
StillRunning ==
    /\ collect' = "none"
    /\ IF page # "asking" THEN UNCHANGED pageVars
       ELSE IF polledFor >= PageWait THEN Shows("lost")
       ELSE page' = "resting" /\ since' = 0 /\ UNCHANGED polledFor

\* mutant: a Collect that answers pending without the stamp
AnswerPending ==
    /\ collect = "touch"
    /\ StillRunning
    /\ UNCHANGED <<approve, workerVars, prefixVars, rowVars, box>>

\* Collect keeps the session awake, and answers that it is still running.
TouchPending ==
    /\ collect = "touch"
    /\ TouchRow(RequestAge)
    /\ StillRunning
    /\ UNCHANGED <<approve, workerVars, prefixVars, box>>

\* Any call of the poll fails, or its Lambda dies: the rung is over on the page.
PollFails ==
    /\ collect # "none"
    /\ Answers("lost")
    /\ \/ collect = "touch" /\ TouchRow(RequestAge)
       \/ UNCHANGED rowVars
    /\ UNCHANGED <<approve, workerVars, prefixVars, box>>

-----------------------------------------------------------------------------
(* The network, the human, the instance and the clock. *)

\* The connection breaks, or CloudFront gives up on the origin.
RequestLost ==
    /\ Requesting
    /\ Shows(IF page = "go" THEN "denied" ELSE "lost")
    /\ UNCHANGED <<approve, collect, workerVars, prefixVars, rowVars, box>>

\* A reload or a closed tab: nothing on the page remembers the session.
Leave ==
    /\ page # "ready" /\ ~Ended
    /\ Shows("left")
    /\ UNCHANGED <<approve, collect, workerVars, prefixVars, rowVars, box>>

\* CloudFront gives up on the origin.
OriginTimesOut == since >= OriginTimeout /\ RequestLost

WorkerActs ==
    /\ WorkerStep
    /\ UNCHANGED <<pageVars, approve, collect, rowVars, box>>

\* Nothing ever connects to the worker's port here, so spawn's daemon may
\* stop the instance in the middle of a trace.
InstanceStops ==
    /\ IdleStops(Session, {}) /\ WorkerLost
    /\ UNCHANGED <<pageVars, approve, collect, prefixVars, rowVars>>

InstanceEnds ==
    /\ BoxEnds(Session) /\ WorkerLost
    /\ UNCHANGED <<pageVars, approve, collect, prefixVars, rowVars>>

\* A waiting page does not wait longer than its limits.
Patient ==
    /\ Requesting => since < OriginTimeout
    /\ page = "resting" => since < PollEvery

Older(age, limit) == IF age < limit THEN age + 1 ELSE limit

Tick ==
    /\ Patient
    /\ since' = IF Requesting \/ page = "resting" THEN since + 1 ELSE 0
    /\ polledFor' = IF Polling THEN Older(polledFor, PageWait) ELSE 0
    /\ waitAge' = IF worker = "waiting" THEN Older(waitAge, GraphWait) ELSE 0
    /\ RowAges
    /\ UNCHANGED <<page, approve, collect, worker, reason, prefixVars, row, box>>

Control ==
    \/ Launch \/ LaunchFails \/ Register \/ PutGraph \/ StampHandOff
    \/ ApproveFails \/ ApproveAnswers \/ ApproveDies
    \/ CollectRow \/ ResultPending \/ ResultIsError \/ ResultIsOk
    \/ TouchPending \/ PollFails

Next ==
    \/ ClickGo \/ Control
    \/ Poll \/ RequestLost \/ Leave
    \/ WorkerActs \/ InstanceStops \/ InstanceEnds
    \/ Tick

=============================================================================
