--------------------------- MODULE HandoffProperties ---------------------------
(***************************************************************************)
(* What makes the handoff and the export of its results correct.           *)
(***************************************************************************)
EXTENDS SessionLife

\* Every variable keeps its type; a bundle never holds a bundle.
TypeOK ==
    /\ page \in {"ready", "go", "resting", "asking", "done", "told", "lost",
                 "denied", "left"}
    /\ since \in Nat /\ polledFor \in 0..PageWait
    /\ approve \in {"none", "launching", "registering", "handing", "stamping",
                    "answering", "over"}
    /\ collect \in {"none", "row", "result", "touch"}
    /\ worker \in WorkerPhases /\ waitAge \in 0..GraphWait /\ reason \in Reasons
    /\ stored \subseteq Keys /\ result \in {"absent", "ok", "error"}
    /\ row \in {"missing", "there"} /\ stampAge \in 0..IdleGrace
    /\ box \in [Boxes -> BoxStates]
    /\ export \in ExportPhases /\ exports \in 0..MaxExports
    /\ todo \subseteq Keys
    /\ packed \subseteq Keys \ Zips /\ dropped \subseteq Keys \ Zips
    /\ inside \in [Zips -> SUBSET (Keys \ Zips)]
    /\ leftOut \in [Zips -> SUBSET (Keys \ Zips)]

\* The page's view of the result is a promise: result.json is written once, the
\* page shows a finding only for a trace that ended well and the worker's message
\* only for one that did not, and what it has shown it does not take back
\* (batch.py:166-196, handoff.go:133-169, app.js:61-85).
TheResult == INSTANCE Promise WITH
    value <- CASE result = "absent" -> "open"
               [] result = "ok" -> "kept"
               [] result = "error" -> "broken",
    holder <- CASE page = "done" -> "paid"
                [] page = "told" -> "refused"
                [] page \in {"denied", "lost", "left"} -> "gone"
                [] OTHER -> "waiting"

ImplementsPromise == TheResult!Spec

\* A finding on the page has its activations in the bucket, so that the export
\* offered under it has something to export (engine.py:122, saves.py:47).
DoneIsSaved == page = "done" => "saves" \in stored

\* A rung the page was told is running has its graph where the worker looks, in
\* time: the worker of such a rung never gives up for the want of one, though the
\* graph is written only after the launch (handoff.go:191-197, batch.py:75-81).
GraphReachesWorker ==
    page \in {"resting", "asking", "done", "told"} =>
        "graph.json" \in stored /\ reason # "unhanded"

\* While a page polls, the idle signal is never older than the idle window, however
\* late a handler's clock reading is written (handoff.go:231-236, dynamo.go:155).
PollingKeepsAwake == Polling => stampAge < IdleGrace

\* A bundle that holds a good result holds the activations it refers to, or says in
\* its manifest that they did not fit, whatever the worker wrote while the bundle was
\* being made (s3.go:169-242).
BundleIsWhole ==
    \A z \in Zips :
        "result.json" \in inside[z] /\ result = "ok" => "saves" \in inside[z] \cup leftOut[z]

\* No bundle grows beyond the cap that bounds the exporter's memory (s3.go:187-192).
BundleIsCapped == \A z \in Zips : BytesOf(inside[z]) <= MaxBytes

\* Every Go ends on the page, with a finding or with a reason, though handlers hang,
\* instances stop and the worker may never answer (app.js:61-85).
EveryGoEnds == page = "go" ~> Ended

=============================================================================
