------------------------------ MODULE LayerProbe ------------------------------
(***************************************************************************)
(* How New finds the newest version of the Lambda Web Adapter layer        *)
(* (internal/deploy/lwa.go): the versions of another account's layer cannot *)
(* be listed, only tried one at a time, so it doubles until one is missing *)
(* and then halves the interval.                                           *)
(***************************************************************************)
EXTENDS Integers

CONSTANTS
    Ceiling,    \* lwaProbeCeiling
    Histories   \* the sets of versions a region may offer

ASSUME ProbeAssumption ==
    /\ Ceiling \in Nat
    /\ Histories \subseteq SUBSET (Nat \ {0})

VARIABLES
    phase,      \* which loop of resolveLWALayerARN is running
    published,  \* the versions this account may attach, while anybody asks
    lo,         \* known available
    hi          \* the version under test, then one known unavailable

probeVars == <<phase, published, lo, hi>>

ProbeInit ==
    /\ phase = "idle"
    /\ published = {}
    /\ lo = 1
    /\ hi = 2

\* GetLayerVersion answers for a version that exists, and AccessDenied otherwise.
Available(v) == v \in published

StartProbe ==
    /\ phase = "idle"
    /\ phase' = "first"
    /\ published' \in Histories
    /\ lo' = 1
    /\ hi' = 2

\* Version 1 is missing where the layer is not published at all.
ProbeFirst ==
    /\ phase = "first"
    /\ phase' = IF Available(1) THEN "doubling" ELSE "refused"
    /\ UNCHANGED <<published, lo, hi>>

ProbeUp ==
    /\ phase = "doubling"
    /\ \/ /\ hi <= Ceiling
          /\ Available(hi)
          /\ lo' = hi
          /\ hi' = 2 * hi
          /\ UNCHANGED phase
       \/ /\ hi <= Ceiling
          /\ ~Available(hi)
          /\ phase' = "halving"
          /\ UNCHANGED <<lo, hi>>
       \/ /\ hi > Ceiling
          /\ phase' = "refused"
          /\ UNCHANGED <<lo, hi>>
    /\ UNCHANGED published

Halve ==
    /\ phase = "halving"
    /\ hi - lo > 1
    /\ LET mid == lo + (hi - lo) \div 2
       IN  IF Available(mid) THEN lo' = mid /\ UNCHANGED hi
                             ELSE hi' = mid /\ UNCHANGED lo
    /\ UNCHANGED <<phase, published>>

\* Mutant: an interval of two is taken for settled.
SettleEarly ==
    /\ phase = "halving"
    /\ hi - lo <= 2
    /\ phase' = "resolved"
    /\ UNCHANGED <<published, lo, hi>>

Settle ==
    /\ phase = "halving"
    /\ hi - lo <= 1
    /\ phase' = "resolved"
    /\ UNCHANGED <<published, lo, hi>>

\* The caller has the answer, or has gone away; what the region offers the next time
\* may be something else.
Forget ==
    /\ phase' = "idle"
    /\ published' = {}
    /\ lo' = 1
    /\ hi' = 2

Probe == ProbeFirst \/ ProbeUp \/ Halve \/ Settle

ProbeNext == StartProbe \/ Probe \/ Forget

ProbeSpec == ProbeInit /\ [][ProbeNext]_probeVars

\* What is resolved exists and its successor does not: the newest version when
\* versions have no gaps, and never one that a deploy could not attach.
ResolvedIsNewest ==
    phase = "resolved" => Available(lo) /\ ~Available(lo + 1)

=============================================================================
