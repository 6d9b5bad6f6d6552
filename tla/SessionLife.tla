------------------------------ MODULE SessionLife ------------------------------
(***************************************************************************)
(* A session's whole life in the deployed control plane: its rung, from Go *)
(* to result, and the exports somebody makes of it meanwhile.  The two     *)
(* share the objects under the session's prefix and nothing else.          *)
(***************************************************************************)
EXTENDS Handoff, Exporter

lifeVars == <<vars, exportVars>>

LifeInit == Init /\ ExportInit

RungStep == Next /\ UNCHANGED exportVars

Exporting ==
    /\ ExportStep
    /\ UNCHANGED <<pageVars, approve, collect, workerVars, rowVars, box>>

LifeNext == RungStep \/ Exporting

LifeSpec == LifeInit /\ [][LifeNext]_lifeVars

\* The clock goes on, the page's timer fires, and so does CloudFront's: nothing is
\* assumed of the handlers, the worker, the instance or the exporter.
FairLifeSpec ==
    /\ LifeSpec
    /\ WF_vars(Tick) /\ WF_vars(Poll) /\ WF_vars(OriginTimesOut)

=============================================================================
