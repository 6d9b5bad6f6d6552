------------------------------ MODULE CliSession ------------------------------
(***************************************************************************)
(* One `foray run` (cmd/foray/main.go): the loop of propose, Go, launch,   *)
(* tunnel, trace, close, terminate, read, climb.  The command is a single  *)
(* thread, but it dies by os.Exit, which runs no defers; it may be killed  *)
(* at any point; and the instance lives, idles and ends on its own clock.  *)
(*                                                                         *)
(* The expert path (--model) is a plan with one rung.                      *)
(***************************************************************************)
EXTENDS Brain, SpawnBox

CONSTANTS
    Ports,      \* the ports the operating system may give the worker (:0)
    NoLadder,   \* before the planner answered
    NoBox,
    NoPort,     \* no tunnel
    NoRung      \* nothing launched on this box

ASSUME CliAssumption ==
    /\ NoLadder \notin Ladder
    /\ NoBox \notin Boxes
    /\ NoPort \notin Ports
    /\ NoRung \notin AllRungs

VARIABLES
    flags,      \* --yes and --keep
    pc,         \* where the command is
    ladder,     \* the *brain.Ladder it carries
    at,         \* prop: the index of the proposed rung
    cur,        \* sid: the instance of the rung under way
    tunnel,     \* tracer.svc: the worker's port at the far end
    outcome,    \* what runRung is about to return: a result, or an error
    ran,        \* the rung a box was launched for (history)
    offered,    \* the rungs put in front of the human (history)
    goes,       \* the rungs that got a Go (history)
    lost,       \* boxes launched whose id foray never learned
    unreaped    \* boxes whose terminate failed, reported to the user

trail == <<ran, offered, goes, lost, unreaped>>
vars  == <<box, flags, pc, ladder, at, cur, tunnel, outcome, trail>>

-----------------------------------------------------------------------------

\* Inside runRung, where the deferred clean-up is due.
InRung == {"registering", "tracing", "closing", "reaping"}

Over == {"ended", "crashed"}

TypeOK ==
    /\ box \in [Boxes -> BoxStates]
    /\ flags \in [yes : BOOLEAN, keep : BOOLEAN]
    /\ pc \in InRung \cup Over \cup {"start", "prompt", "approving", "reading"}
    /\ ladder \in Ladder \cup {NoLadder}
    /\ at \in Nat
    /\ cur \in Boxes \cup {NoBox}
    /\ tunnel \in Ports \cup {NoPort}
    /\ outcome \in {"none", "result", "error"}
    /\ ran \in [Boxes -> AllRungs \cup {NoRung}]
    /\ offered \subseteq AllRungs
    /\ goes \subseteq AllRungs
    /\ lost \subseteq Boxes
    /\ unreaped \subseteq Boxes

Init ==
    /\ BoxInit
    /\ flags \in [yes : BOOLEAN, keep : BOOLEAN]
    /\ pc = "start"
    /\ ladder = NoLadder
    /\ at = 0
    /\ cur = NoBox
    /\ tunnel = NoPort
    /\ outcome = "none"
    /\ ran = [b \in Boxes |-> NoRung]
    /\ offered = {}
    /\ goes = {}
    /\ lost = {}
    /\ unreaped = {}

-----------------------------------------------------------------------------
(***************************************************************************)
(* Propose and the acceptance node.                                        *)
(***************************************************************************)

\* The planner returns a ladder, or the command ends: an error, or a
\* clarifying question back.
Propose ==
    /\ pc = "start"
    /\ \/ \E p \in Plans :
             /\ ladder' = Proposed(p)
             /\ offered' = {<<p, 0>>}
             /\ pc' = "prompt"
       \/ pc' = "ended" /\ UNCHANGED <<ladder, offered>>
    /\ UNCHANGED <<box, flags, at, cur, tunnel, outcome, ran, goes, lost, unreaped>>

\* A Go at the prompt, or --yes, which stands for one at every prompt.
Go ==
    /\ pc = "prompt"
    /\ pc' = "approving"
    /\ goes' = goes \cup {<<ladder.plan, at>>}
    /\ UNCHANGED <<box, flags, ladder, at, cur, tunnel, outcome, ran, offered,
                   lost, unreaped>>

\* A bug: the end of the input reads as a bare Enter, which means yes.
DeclineOnEofApproves ==
    /\ pc = "prompt"
    /\ ~flags.yes
    /\ pc' \in {"ended", "approving"}
    /\ UNCHANGED <<box, flags, ladder, at, cur, tunnel, outcome, trail>>

\* "no", or a standard input with nothing to give.
Decline ==
    /\ pc = "prompt"
    /\ ~flags.yes
    /\ pc' = "ended"
    /\ UNCHANGED <<box, flags, ladder, at, cur, tunnel, outcome, trail>>

\* Cedar denies the rung or spawn refuses the launch: die.
ApproveFails ==
    /\ pc = "approving"
    /\ pc' = "ended"
    /\ UNCHANGED <<box, flags, ladder, at, cur, tunnel, outcome, trail>>

\* The launch; its answer may be unreadable, and then foray dies without the id.
Approve(b) ==
    /\ pc = "approving"
    /\ Permit(ladder.plan, at)
    /\ LaunchBox(b)
    /\ ran' = [ran EXCEPT ![b] = <<ladder.plan, at>>]
    /\ \/ /\ ladder' = Booked(ladder, at)
          /\ cur' = b
          /\ pc' = "registering"
          /\ UNCHANGED lost
       \/ /\ lost' = lost \cup {b}
          /\ pc' = "ended"
          /\ UNCHANGED <<ladder, cur>>
    /\ UNCHANGED <<flags, at, tunnel, outcome, offered, goes, unreaped>>

-----------------------------------------------------------------------------
(***************************************************************************)
(* runRung.                                                                *)
(***************************************************************************)

\* register: spawn service announced the worker on a port of its choosing.
\* The row goes into the command's own MemStore, which cannot fail.
ServeReady ==
    /\ pc = "registering"
    /\ box[cur] = "up"
    /\ tunnel' \in Ports
    /\ pc' = "tracing"
    /\ UNCHANGED <<box, flags, ladder, at, cur, outcome, trail>>

\* A bug: no boot timeout, so only the end of the service's output is seen.
ServeFailsOnExit ==
    /\ pc = "registering"
    /\ box[cur] # "up"
    /\ outcome' = "error"
    /\ pc' = "reaping"
    /\ UNCHANGED <<box, flags, ladder, at, cur, tunnel, trail>>

\* A bug: the failure is fatal on the spot, before the reap was deferred.
ServeFailsFatally ==
    /\ pc = "registering"
    /\ outcome' = "error"
    /\ pc' = "ended"
    /\ UNCHANGED <<box, flags, ladder, at, cur, tunnel, trail>>

\* The service ended, or the boot timeout passed, without a readiness line;
\* Serve stops the process itself, so there is no tunnel to close.
ServeFails ==
    /\ pc = "registering"
    /\ outcome' = "error"
    /\ pc' = "reaping"
    /\ UNCHANGED <<box, flags, ladder, at, cur, tunnel, trail>>

\* Route: a reference came back, or the worker, the tunnel or the client's
\* ten minutes failed.
Trace ==
    /\ pc = "tracing"
    /\ \/ box[cur] = "up" /\ outcome' = "result"
       \/ outcome' = "error"
    /\ pc' = "closing"
    /\ UNCHANGED <<box, flags, ladder, at, cur, tunnel, trail>>

\* The deferred clean-up, last in first out: the tunnel, then the instance.
CloseTunnel ==
    /\ pc = "closing"
    /\ tunnel' = NoPort
    /\ pc' = "reaping"
    /\ UNCHANGED <<box, flags, ladder, at, cur, outcome, trail>>

\* reap.  A failed terminate is reported and not fatal.  With the error of the
\* rung the command then dies, with its result it goes on.
Reap ==
    /\ pc = "reaping"
    /\ \/ flags.keep /\ UNCHANGED <<box, unreaped>>
       \/ ~flags.keep /\ TerminateBox(cur) /\ UNCHANGED unreaped
       \/ ~flags.keep /\ unreaped' = unreaped \cup {cur} /\ UNCHANGED box
    /\ pc' = IF outcome = "result" THEN "reading" ELSE "ended"
    /\ cur' = NoBox
    /\ outcome' = "none"
    /\ UNCHANGED <<flags, ladder, at, tunnel, ran, offered, goes, lost>>

-----------------------------------------------------------------------------
(***************************************************************************)
(* Interpret, Assess, NextProposal.                                        *)
(***************************************************************************)

\* The finding warrants the next rung: it is proposed, and waits for its Go.
Climb ==
    /\ pc = "reading"
    /\ Climbs(ladder, at, TRUE)
    /\ HasNext(ladder)
    /\ at' = NextRung(ladder)
    /\ offered' = offered \cup {<<ladder.plan, NextRung(ladder)>>}
    /\ pc' = "prompt"
    /\ UNCHANGED <<box, flags, ladder, cur, tunnel, outcome, ran, goes, lost,
                   unreaped>>

\* No effect, no room, the top of the ladder, or an error of the interpreter.
Stop ==
    /\ pc = "reading"
    /\ pc' = "ended"
    /\ UNCHANGED <<box, flags, ladder, at, cur, tunnel, outcome, trail>>

-----------------------------------------------------------------------------
(***************************************************************************)
(* The command is killed.  The child that holds the tunnel may die with it *)
(* or survive it; a launch under way goes through.                         *)
(***************************************************************************)
Crash ==
    /\ pc \notin Over
    /\ pc' = "crashed"
    /\ tunnel' \in {tunnel, NoPort}
    /\ UNCHANGED <<box, flags, ladder, at, cur, outcome, trail>>

CrashLaunching(b) ==
    /\ pc = "approving"
    /\ Permit(ladder.plan, at)
    /\ LaunchBox(b)
    /\ ran' = [ran EXCEPT ![b] = <<ladder.plan, at>>]
    /\ lost' = lost \cup {b}
    /\ pc' = "crashed"
    /\ UNCHANGED <<flags, ladder, at, cur, tunnel, outcome, offered, goes,
                   unreaped>>

\* Where something is connected to the box: the trace in flight.
Connected(b) == IF pc = "tracing" /\ cur = b THEN {tunnel} ELSE {}

Idles(b) ==
    /\ IdleStops(b, Connected(b))
    /\ UNCHANGED <<flags, pc, ladder, at, cur, tunnel, outcome, trail>>

Ends(b) ==
    /\ BoxEnds(b)
    /\ UNCHANGED <<flags, pc, ladder, at, cur, tunnel, outcome, trail>>

Command ==
    \/ Propose \/ Go \/ Decline
    \/ ApproveFails \/ \E b \in Boxes : Approve(b)
    \/ ServeReady \/ ServeFails \/ Trace \/ CloseTunnel \/ Reap
    \/ Climb \/ Stop

Next ==
    \/ Command
    \/ Crash
    \/ \E b \in Boxes : CrashLaunching(b) \/ Idles(b) \/ Ends(b)

Spec == Init /\ [][Next]_vars

(***************************************************************************)
(* Inside runRung the command always moves on: the boot timer fires if no  *)
(* worker announces itself, the client's timeout bounds the trace, and the *)
(* clean-up does not block.  No fairness on the human, on the worker, on   *)
(* spawn's daemon or on the TTL.                                           *)
(***************************************************************************)
Fairness ==
    /\ WF_vars(ServeFails)
    /\ WF_vars(Trace)
    /\ WF_vars(CloseTunnel)
    /\ WF_vars(Reap)

FairSpec == Spec /\ Fairness

=============================================================================
