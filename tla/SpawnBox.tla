------------------------------- MODULE SpawnBox -------------------------------
(***************************************************************************)
(* The instances spawn runs for foray, as internal/spore sees them: foray  *)
(* starts one with a TTL, an idle window and a list of active ports, and   *)
(* asks for it to be terminated.  What spawn does by itself is external:   *)
(* its daemon stops a box that looks idle (it never terminates one), and   *)
(* the TTL, a Spot reclaim or another terminal ends it at any time.        *)
(***************************************************************************)
EXTENDS Integers

CONSTANTS
    Boxes,          \* bound: the instances that can be launched
    ActivePorts     \* LaunchSpec.ActivePorts: connections on these are activity

VARIABLE box        \* the state of each instance, as Instance.State reports it

BoxStates == {"none", "up", "stopped", "terminated"}

\* A box costs something until it is terminated: a stopped one keeps its volumes.
Billing(b) == box[b] \in {"up", "stopped"}

BoxInit == box = [b \in Boxes |-> "none"]

\* spawn launch: a fresh instance.
LaunchBox(b) ==
    /\ box[b] = "none"
    /\ box' = [box EXCEPT ![b] = "up"]

\* spawn terminate; on a box that is gone already there is nothing to do.
TerminateBox(b) == box' = [box EXCEPT ![b] = "terminated"]

\* The idle daemon counts established connections on the active ports only.
\* ports is where something is connected to the box.
IdleStops(b, ports) ==
    /\ box[b] = "up"
    /\ ports \cap ActivePorts = {}
    /\ box' = [box EXCEPT ![b] = "stopped"]

\* The TTL, a Spot reclaim, or `foray stop` in another terminal.
BoxEnds(b) ==
    /\ Billing(b)
    /\ TerminateBox(b)

=============================================================================
