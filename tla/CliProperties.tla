---------------------------- MODULE CliProperties ----------------------------
(***************************************************************************)
(* What one `foray run` promises.                                          *)
(***************************************************************************)
EXTENDS CliSession, FiniteSets, Functions

\* The boxes the command was told about and could not be blamed for.
Known == {b \in Boxes : ran[b] # NoRung /\ b \notin lost}

\* What the launch of each of them committed.
Charges == [b \in Known |-> Cost[ran[b][1]][ran[b][2]]]

\* Nobody is at work: waiting for the human, or gone of its own accord.
AtRest == pc \in {"prompt", "reading", "ended"}

(***************************************************************************)
(* Whichever way a rung ended (no tunnel, a failed trace, a result, a      *)
(* denial, a die), the command neither waits for the human nor exits with  *)
(* an instance still billing or a tunnel still open, unless --keep asked   *)
(* for it or the terminate itself failed (runRung's defers, reap, die).    *)
(***************************************************************************)
NothingLeftRunning ==
    AtRest =>
        /\ tunnel = NoPort
        /\ ~flags.keep => \A b \in Known : Billing(b) => b \in unreaped

(***************************************************************************)
(* The receipt the command prints is exactly what its launches committed,  *)
(* rung by rung, over every failure but a launch whose answer was lost     *)
(* (Brain.Approve books, runLoop prints).                                  *)
(***************************************************************************)
SpentIsExact ==
    ladder # NoLadder => ladder.spent = SumFunction(Charges)

(***************************************************************************)
(* Every launch was shown and got a Go of its own, --yes standing for it.  *)
(***************************************************************************)
Launches == {ran[b] : b \in {c \in Boxes : ran[c] # NoRung}}

HITL == INSTANCE HumanInTheLoop WITH
    Proposals <- AllRungs,
    accepted  <- goes,
    launched  <- Launches

HITLSpec == HITL!Spec

(***************************************************************************)
(* foray terminates the instance itself when the rung ends: a launched box *)
(* is terminated, or its failed terminate reported, without waiting for    *)
(* idle or TTL, if the command lives on (ARCHITECTURE.md, "Who reaches     *)
(* $0").                                                                   *)
(***************************************************************************)
RungReapsItself ==
    \A b \in Boxes :
        cur = b ~> \/ box[b] = "terminated"
                   \/ b \in unreaped
                   \/ flags.keep
                   \/ pc = "crashed"

(***************************************************************************)
(* A trace in flight is activity: the idle daemon does not stop the box    *)
(* under it.  Meant by SpawnExecutor's ActivePorts; the worker listens on  *)
(* a port of the system's choosing, so the code does not do it.            *)
(***************************************************************************)
BusyBoxIsNotIdle ==
    [][\A b \in Boxes :
          pc = "tracing" /\ cur = b /\ box[b] = "up" => box'[b] # "stopped"]_vars

=============================================================================
