---------------------------- MODULE CliInvariants ----------------------------
(***************************************************************************)
(* The inductive invariant of one `foray run`, by what its parts are for.  *)
(***************************************************************************)
EXTENDS CliProperties

\* A box and its history agree; the command knows a box only while a rung runs.
BoxesMatch ==
    /\ \A b \in Boxes : box[b] = "none" <=> ran[b] = NoRung
    /\ \A b \in lost : ran[b] # NoRung
    /\ pc \in InRung => cur \in Boxes /\ box[cur] # "none"
    /\ pc \notin InRung \cup {"crashed"} => cur = NoBox
    /\ pc \notin {"tracing", "closing", "crashed"} => tunnel = NoPort

\* Whatever still bills is under way, or was kept, or could not be terminated.
Accounted ==
    ~flags.keep =>
        \A b \in Known :
            Billing(b) => b \in unreaped \/ (b = cur /\ pc \in InRung \cup {"crashed"})

\* Before the planner's answer there is nothing; after it, a rung in its place.
Carried ==
    /\ pc \in InRung \cup {"prompt", "approving", "reading"} => ladder \in Ladder
    /\ pc \in {"prompt", "approving"} =>
          /\ at = ladder.cursor
          /\ at \in RungsOf(ladder.plan)
    /\ pc \in InRung \cup {"reading"} => at < ladder.cursor
    /\ pc = "start" => at = 0 /\ offered = {}

\* The acceptance node's books: what was offered lies at or below the rung
\* under consideration, and a Go is pending exactly while it is being approved.
Acceptances ==
    /\ Launches \subseteq goes
    /\ goes \subseteq offered
    /\ \A r \in offered : r[1] = ladder.plan /\ r[2] <= at
    /\ pc \in {"prompt", "approving"} => <<ladder.plan, at>> \in offered
    /\ pc = "prompt" => <<ladder.plan, at>> \notin goes
    /\ pc = "approving" => <<ladder.plan, at>> \in goes \ Launches

CliInv == TypeOK /\ BoxesMatch /\ Accounted /\ Carried /\ Acceptances

\* The receipt is exact, over the finitely many launches so far.
Books == CliInv /\ IsFiniteSet(Known) /\ SpentIsExact

=============================================================================
