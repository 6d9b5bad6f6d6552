----------------------------- MODULE SessionPrefix -----------------------------
(***************************************************************************)
(* The objects under sessions/<id>/ in the user's own bucket: the graph    *)
(* the control plane hands over, what the worker saves and answers, and    *)
(* the zips an export leaves there.  The bucket itself is S3: a write is   *)
(* seen by every read that starts after it, and a failed call may or may   *)
(* not have written.                                                       *)
(***************************************************************************)
EXTENDS Integers, Sequences

CONSTANT Zips       \* bound: the names a bundle can get, exports/bundle-<second>.zip

VARIABLES
    stored,         \* the keys that exist
    result          \* what result.json says: nothing yet, a reference, or an error

prefixVars == <<stored, result>>

\* What the handoff and the worker write, and what an export does.
Objects == {"graph.json", "saves", "result.json"}
Keys == Objects \cup Zips

ASSUME PrefixAssumption == Zips \cap Objects = {}

PrefixInit == stored = {} /\ result = "absent"

\* PutObject, answered.
Put(k) == stored' = stored \cup {k}

\* PutObject that ended in an error: written or not, the caller cannot tell.
PutFails(k) == stored' \in {stored, stored \cup {k}}

\* result.json: "ok" carries save_ref, "error" the worker's message.
WriteResult(r) ==
    /\ result' = r
    /\ Put("result.json")

\* The same, by a caller who goes on whether it was written or not.
TryResult(r) == WriteResult(r) \/ UNCHANGED prefixVars

=============================================================================
