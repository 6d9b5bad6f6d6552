------------------------------ MODULE BatchWorker ------------------------------
(***************************************************************************)
(* worker/batch.py: the process the instance runs.  It waits for the graph *)
(* of its session, runs the one trace in it, saves the activations, writes *)
(* result.json and exits.  The model itself (loading, the forward pass) is *)
(* a step that succeeds or raises.                                         *)
(***************************************************************************)
EXTENDS SessionPrefix

CONSTANT GraphWait      \* GRAPH_WAIT_SECONDS, in ticks

VARIABLES
    worker,         \* where main() is
    waitAge,        \* ticks since fetch_graph started to wait
    reason          \* why the worker has to report a failure, if it does

workerVars == <<worker, waitAge, reason>>

WorkerPhases == {"none", "booting", "waiting", "tracing", "saving",
                 "reporting", "failing", "exited"}
Reasons == {"none", "unhanded", "other"}

WorkerInit == worker = "none" /\ waitAge = 0 /\ reason = "none"

\* The instance was launched; the process is not there yet.
Summoned == worker' = "booting" /\ UNCHANGED <<waitAge, reason>>

Boots ==
    /\ worker = "booting"
    /\ worker' = "waiting" /\ waitAge' = 0
    /\ UNCHANGED <<reason, stored, result>>

\* An exception that main() catches: _fail reports it.
Raises(why) == worker' = "failing" /\ reason' = why /\ waitAge' = 0

\* get_object answered with the graph; parse_envelope may refuse it.
FetchGraph ==
    /\ worker = "waiting" /\ "graph.json" \in stored
    /\ \/ worker' = "tracing" /\ waitAge' = 0 /\ UNCHANGED reason
       \/ Raises("other")
    /\ UNCHANGED <<stored, result>>

\* mutant: a worker that gives up on the first miss
GiveUpOnFirstMiss ==
    /\ worker = "waiting" /\ "graph.json" \notin stored
    /\ Raises("unhanded")
    /\ UNCHANGED <<stored, result>>

\* The key is missing: nap and look again, until the deadline has passed.
GiveUpOnGraph ==
    /\ worker = "waiting" /\ "graph.json" \notin stored
    /\ waitAge >= GraphWait
    /\ Raises("unhanded")
    /\ UNCHANGED <<stored, result>>

\* Any other S3 error is raised at once.
FetchFails ==
    /\ worker = "waiting"
    /\ Raises("other")
    /\ UNCHANGED <<stored, result>>

\* engine.run: routing, the device, the model, the trace.
Trace ==
    /\ worker = "tracing"
    /\ \/ worker' = "saving" /\ UNCHANGED <<waitAge, reason>>
       \/ Raises("other")
    /\ UNCHANGED <<stored, result>>

\* mutant: an upload whose failure is logged and forgotten
SaveShrugged ==
    /\ worker = "saving"
    /\ PutFails("saves")
    /\ worker' = "reporting" /\ UNCHANGED <<waitAge, reason, result>>

\* saves.put: the activations are in the bucket before there is a reference.
Save ==
    /\ worker = "saving"
    /\ \/ Put("saves") /\ worker' = "reporting" /\ UNCHANGED <<waitAge, reason>>
       \/ PutFails("saves") /\ Raises("other")
    /\ UNCHANGED result

\* mutant: the success is written inside the try, so that its failure is reported
ReportInsideTry ==
    /\ worker = "reporting"
    /\ \/ WriteResult("ok") /\ worker' = "exited" /\ UNCHANGED <<waitAge, reason>>
       \/ TryResult("ok") /\ Raises("other")

\* The success is written outside the try: if the write raises, the process ends.
Report ==
    /\ worker = "reporting"
    /\ TryResult("ok")
    /\ worker' = "exited"
    /\ UNCHANGED <<waitAge, reason>>

\* _fail: the error is the result; when it cannot be written it is only printed.
ReportFailure ==
    /\ worker = "failing"
    /\ TryResult("error")
    /\ worker' = "exited"
    /\ UNCHANGED <<waitAge, reason>>

WorkerStep ==
    \/ Boots \/ FetchGraph \/ GiveUpOnGraph \/ FetchFails
    \/ Trace \/ Save \/ Report \/ ReportFailure

\* The instance went away under the process.
WorkerLost ==
    /\ worker' = IF worker = "none" THEN "none" ELSE "exited"
    /\ waitAge' = 0
    /\ UNCHANGED reason

=============================================================================
