------------------------------- MODULE Exporter -------------------------------
(***************************************************************************)
(* internal/export, a bundle: the user's own session, whoever asks (page   *)
(* or `foray export`), at any time.  The gate asks whether the session     *)
(* exists; then one listing, each object read in turn under a size cap,    *)
(* and one zip written next to what it holds.  A single-object export only *)
(* signs a URL and changes nothing.                                        *)
(***************************************************************************)
EXTENDS SessionPrefix, Functions

CONSTANTS
    SizeOf,         \* the bytes of each object
    MaxBytes,       \* DefaultMaxBundleBytes
    MaxExports      \* bound: how often somebody asks

ASSUME ExportAssumption ==
    /\ SizeOf \in [Keys -> Nat]
    /\ MaxBytes \in Nat /\ MaxExports \in Nat

VARIABLES
    export,         \* where presignBundle is
    exports,        \* how often it was asked
    todo,           \* the listing, what the walk has not come to yet
    packed,         \* manifest.Objects so far
    dropped,        \* manifest.Dropped so far
    inside,         \* what each zip in the bucket holds
    leftOut         \* what each zip's manifest says was dropped

exportVars == <<export, exports, todo, packed, dropped, inside, leftOut>>

ExportPhases == {"none", "permitting", "listing", "packing"}

BytesOf(S) == SumFunctionOnSet(SizeOf, S)

ExportInit ==
    /\ export = "none" /\ exports = 0
    /\ todo = {} /\ packed = {} /\ dropped = {}
    /\ inside = [z \in Zips |-> {}] /\ leftOut = [z \in Zips |-> {}]

AskExport ==
    /\ export = "none" /\ exports < MaxExports
    /\ export' = "permitting" /\ exports' = exports + 1
    /\ UNCHANGED <<todo, packed, dropped, inside, leftOut, stored, result>>

\* Owner: the session is its user's as soon as anything lies under its prefix.
Owned == stored # {}

\* PermitExport, where the organisation's policy lets exports out.
Permitted ==
    /\ export = "permitting" /\ Owned
    /\ export' = "listing"
    /\ UNCHANGED <<exports, todo, packed, dropped, inside, leftOut, stored, result>>

\* An error anywhere, or a denial: whatever was packed is gone.
ExportEnds ==
    /\ export' = "none"
    /\ todo' = {} /\ packed' = {} /\ dropped' = {}
    /\ UNCHANGED exports

ExportFails ==
    /\ export # "none"
    /\ ExportEnds
    /\ UNCHANGED <<inside, leftOut, stored, result>>

\* listSession: what the prefix holds now.
ListSession ==
    /\ export = "listing"
    /\ todo' = stored
    /\ export' = "packing"
    /\ UNCHANGED <<exports, packed, dropped, inside, leftOut, stored, result>>

\* A listing is in the order of the keys: activations/, exports/, graph.json, result.json.
KeyOrder(k) == CASE k = "saves" -> 0
                 [] k \in Zips -> 1
                 [] k = "graph.json" -> 2
                 [] k = "result.json" -> 3

ComesNext(k) == \A other \in todo : KeyOrder(k) <= KeyOrder(other)

\* mutant: a cap on what is in the zip already
FitsSoFar(k) == BytesOf(packed) <= MaxBytes

\* The cap is checked before the object is read.
Fits(k) == BytesOf(packed) + SizeOf[k] <= MaxBytes

\* mutant: a walk that takes the older bundles along
PackNextOfAll ==
    /\ export = "packing"
    /\ \E k \in todo :
         /\ ComesNext(k)
         /\ todo' = todo \ {k}
         /\ packed' = IF Fits(k) THEN packed \cup {k} ELSE packed
         /\ dropped' = IF ~Fits(k) THEN dropped \cup {k} ELSE dropped
    /\ UNCHANGED <<export, exports, inside, leftOut, stored, result>>

\* mutant: an object that cannot be read is logged and passed over
PackNextReadable ==
    /\ export = "packing"
    /\ \E k \in todo :
         /\ ComesNext(k)
         /\ todo' = todo \ {k}
         /\ packed' \in IF k \notin Zips /\ Fits(k) THEN {packed, packed \cup {k}} ELSE {packed}
         /\ dropped' = IF k \notin Zips /\ ~Fits(k) THEN dropped \cup {k} ELSE dropped
    /\ UNCHANGED <<export, exports, inside, leftOut, stored, result>>

\* One object: an older bundle is passed over, one that does not fit is dropped
\* and named in the manifest, any other is read into the zip.
PackNext ==
    /\ export = "packing"
    /\ \E k \in todo :
         /\ ComesNext(k)
         /\ todo' = todo \ {k}
         /\ packed' = IF k \notin Zips /\ Fits(k) THEN packed \cup {k} ELSE packed
         /\ dropped' = IF k \notin Zips /\ ~Fits(k) THEN dropped \cup {k} ELSE dropped
    /\ UNCHANGED <<export, exports, inside, leftOut, stored, result>>

\* The zip, manifest and all, under the second it was made in; a failed upload
\* may have written it, and signing may still fail.
Upload ==
    /\ export = "packing" /\ todo = {}
    /\ \E z \in Zips :
         /\ Put(z)
         /\ inside' = [inside EXCEPT ![z] = packed]
         /\ leftOut' = [leftOut EXCEPT ![z] = dropped]
    /\ ExportEnds
    /\ UNCHANGED result

ExportStep ==
    \/ AskExport \/ Permitted \/ ListSession \/ PackNext \/ Upload \/ ExportFails

=============================================================================
