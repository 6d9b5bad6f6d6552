----------------------------- MODULE HandoffProofs -----------------------------
(***************************************************************************)
(* The handoff keeps its promise for every value of the time limits that   *)
(* HandoffAssumption admits.  One invariant, in named parts: what each     *)
(* phase of the handlers, the page and the worker says of the others.      *)
(***************************************************************************)
EXTENDS HandoffProperties, SumProofs

Pages == {"ready", "go", "resting", "asking", "done", "told", "lost", "denied", "left"}
Approves == {"none", "launching", "registering", "handing", "stamping", "answering", "over"}
Collects == {"none", "row", "result", "touch"}

\* The ranges the argument needs.
Types ==
    /\ page \in Pages /\ approve \in Approves /\ collect \in Collects
    /\ worker \in WorkerPhases /\ reason \in Reasons
    /\ result \in {"absent", "ok", "error"}
    /\ since \in Nat /\ waitAge \in Nat /\ stampAge \in Nat

\* Before the Go nothing runs, and before the launch no worker does.
NotYet ==
    /\ page = "ready" => approve = "none" /\ collect = "none"
    /\ approve \in {"none", "launching"} =>
          worker = "none" /\ reason = "none" /\ result = "absent"

\* Only an approve in flight, and only a poll in flight, is answered.
OneRequest ==
    /\ page \in {"go", "resting"} => collect = "none"
    /\ page \in {"resting", "asking", "done", "told"} => approve = "over"

\* The approve handler goes past PutGraph only with the graph in the bucket.
GraphIsUp == approve \in {"stamping", "answering"} => "graph.json" \in stored

\* The worker cannot have waited longer than the page has.
InTime ==
    page = "go" =>
        /\ since <= OriginTimeout
        /\ reason # "unhanded"
        /\ worker = "waiting" => waitAge <= since

\* result.json is there only after the worker's last write.
WrittenLast == result # "absent" => worker = "exited"

\* A good result has its activations; the page knows what the bucket knows.
Saved ==
    /\ worker = "reporting" => "saves" \in stored
    /\ result = "ok" => "saves" \in stored
    /\ page = "done" => result = "ok"

\* The parts that hold together.
HInv ==
    /\ Types /\ NotYet /\ OneRequest /\ GraphIsUp /\ InTime
    /\ GraphReachesWorker /\ WrittenLast /\ Saved

USE HandoffAssumption DEF HandoffAssumption

\* Before the Go all of it holds.
LEMMA InvInit == LifeInit => HInv
  BY DEF LifeInit, Init, WorkerInit, PrefixInit, RowInit, HInv, Types, NotYet,
     OneRequest, GraphIsUp, InTime, GraphReachesWorker, WrittenLast, Saved,
     Pages, Approves, Collects, WorkerPhases, Reasons

\* The steps of the approve handler, and the Go that starts it, keep it.
LEMMA ApproveKeeps ==
  ASSUME HInv,
         ClickGo \/ Launch \/ LaunchFails \/ Register \/ PutGraph \/ StampHandOff
           \/ ApproveFails \/ ApproveAnswers \/ ApproveDies
  PROVE  HInv'
  <1> USE DEF HInv, Types, NotYet, OneRequest, GraphIsUp, InTime, GraphReachesWorker,
              WrittenLast, Saved, Pages, Approves, Collects, WorkerPhases, Reasons,
              pageVars, workerVars, prefixVars, rowVars, Shows, Refuses, Summoned
  <1>1. CASE ClickGo BY <1>1 DEF ClickGo
  <1>2. CASE Launch BY <1>2 DEF Launch
  <1>3. CASE LaunchFails BY <1>3 DEF LaunchFails
  <1>4. CASE Register BY <1>4 DEF Register, PutRow
  <1>5. CASE PutGraph BY <1>5 DEF PutGraph, Put
  <1>6. CASE StampHandOff BY <1>6 DEF StampHandOff, TouchRow
  <1>7. CASE ApproveFails BY <1>7 DEF ApproveFails, PutRow, TouchRow, PutFails
  <1>8. CASE ApproveAnswers BY <1>8 DEF ApproveAnswers
  <1>9. CASE ApproveDies BY <1>9 DEF ApproveDies
  <1> QED BY <1>1, <1>2, <1>3, <1>4, <1>5, <1>6, <1>7, <1>8, <1>9

\* So do the steps of a poll.
LEMMA PollKeeps ==
  ASSUME HInv,
         Poll \/ CollectRow \/ ResultPending \/ ResultIsError \/ ResultIsOk
           \/ TouchPending \/ PollFails
  PROVE  HInv'
  <1> USE DEF HInv, Types, NotYet, OneRequest, GraphIsUp, InTime, GraphReachesWorker,
              WrittenLast, Saved, Pages, Approves, Collects, WorkerPhases, Reasons,
              pageVars, workerVars, prefixVars, rowVars, Shows, Answers
  <1>1. CASE Poll BY <1>1 DEF Poll
  <1>2. CASE CollectRow BY <1>2 DEF CollectRow
  <1>3. CASE ResultPending BY <1>3 DEF ResultPending
  <1>4. CASE ResultIsError BY <1>4 DEF ResultIsError
  <1>5. CASE ResultIsOk BY <1>5 DEF ResultIsOk
  <1>6. CASE TouchPending BY <1>6 DEF TouchPending, TouchRow, StillRunning
  <1>7. CASE PollFails BY <1>7 DEF PollFails, TouchRow
  <1> QED BY <1>1, <1>2, <1>3, <1>4, <1>5, <1>6, <1>7

\* So do the steps of the worker.
LEMMA WorkerKeeps ==
  ASSUME HInv, WorkerActs
  PROVE  HInv'
  <1> USE DEF HInv, Types, NotYet, OneRequest, GraphIsUp, InTime, GraphReachesWorker,
              WrittenLast, Saved, Pages, Approves, Collects, WorkerPhases, Reasons,
              pageVars, prefixVars, rowVars, Raises, WorkerActs
  <1>1. CASE Boots BY <1>1 DEF Boots
  <1>2. CASE FetchGraph BY <1>2 DEF FetchGraph
  <1>3. CASE GiveUpOnGraph BY <1>3 DEF GiveUpOnGraph
  <1>4. CASE FetchFails BY <1>4 DEF FetchFails
  <1>5. CASE Trace BY <1>5 DEF Trace
  <1>6. CASE Save BY <1>6 DEF Save, Put, PutFails
  <1>7. CASE Report BY <1>7 DEF Report, TryResult, WriteResult, Put
  <1>8. CASE ReportFailure BY <1>8 DEF ReportFailure, TryResult, WriteResult, Put
  <1> QED BY <1>1, <1>2, <1>3, <1>4, <1>5, <1>6, <1>7, <1>8 DEF WorkerStep

\* So do the network, the human, the instance, the clock and an exporter.
LEMMA WorldKeeps ==
  ASSUME HInv,
         RequestLost \/ Leave \/ InstanceStops \/ InstanceEnds \/ Tick \/ Exporting
  PROVE  HInv'
  <1> USE DEF HInv, Types, NotYet, OneRequest, GraphIsUp, InTime, GraphReachesWorker,
              WrittenLast, Saved, Pages, Approves, Collects, WorkerPhases, Reasons,
              pageVars, workerVars, prefixVars, rowVars, Shows, WorkerLost
  <1>1. CASE RequestLost BY <1>1 DEF RequestLost, Requesting
  <1>2. CASE Leave BY <1>2 DEF Leave, Ended
  <1>3. CASE InstanceStops BY <1>3 DEF InstanceStops
  <1>4. CASE InstanceEnds BY <1>4 DEF InstanceEnds
  <1>5. CASE Tick BY <1>5 DEF Tick, Patient, Older, RowAges, Requesting
  <1>6. CASE Exporting
    <2>1. UNCHANGED result /\ stored \subseteq stored'
      BY <1>6 DEF Exporting, ExportStep, AskExport, Permitted, ListSession, PackNext,
         Upload, ExportFails, Put
    <2> QED BY <1>6, <2>1 DEF Exporting
  <1> QED BY <1>1, <1>2, <1>3, <1>4, <1>5, <1>6

\* The invariant of the whole session.
THEOREM HandoffInvariant == LifeSpec => []HInv
  <1>1. HInv /\ [LifeNext]_lifeVars => HInv'
    <2> SUFFICES ASSUME HInv, [LifeNext]_lifeVars PROVE HInv' OBVIOUS
    <2>1. CASE RungStep
      BY <2>1, ApproveKeeps, PollKeeps, WorkerKeeps, WorldKeeps DEF RungStep, Next, Control
    <2>2. CASE Exporting BY <2>2, WorldKeeps
    <2>3. CASE UNCHANGED lifeVars
      BY <2>3 DEF lifeVars, vars, pageVars, workerVars, prefixVars, rowVars, HInv, Types,
         NotYet, OneRequest, GraphIsUp, InTime, GraphReachesWorker, WrittenLast, Saved
    <2> QED BY <2>1, <2>2, <2>3 DEF LifeNext
  <1> QED BY InvInit, <1>1, PTL DEF LifeSpec

\* GraphReachesWorker, for all limits: the worker outlasts the page's own request.
THEOREM GraphIsThereInTime == LifeSpec => []GraphReachesWorker
  <1>1. HInv => GraphReachesWorker BY DEF HInv
  <1> QED BY HandoffInvariant, <1>1, PTL

\* DoneIsSaved, for all limits.
THEOREM DoneHasItsSaves == LifeSpec => []DoneIsSaved
  <1>1. HInv => DoneIsSaved BY DEF HInv, Saved, DoneIsSaved
  <1> QED BY HandoffInvariant, <1>1, PTL

-----------------------------------------------------------------------------
(* The idle signal. *)

\* How old the stamp can be, from the moment the page is told its rung runs: the
\* request that wrote it, the pause, the request in flight.
Awake ==
    /\ page = "go" /\ approve \in {"handing", "stamping", "answering"} => stampAge <= since
    /\ page = "resting" => since <= PollEvery /\ stampAge <= OriginTimeout + since
    /\ page = "asking" =>
          /\ since <= OriginTimeout
          /\ stampAge <= OriginTimeout + PollEvery + since

\* Every step keeps the bound; the stamp is at most as old as the request that writes it.
LEMMA AwakeKept == HInv /\ Awake /\ [LifeNext]_lifeVars => Awake'
  <1> SUFFICES ASSUME HInv, Awake, [LifeNext]_lifeVars PROVE Awake' OBVIOUS
  <1> USE DEF HInv, Types, NotYet, OneRequest, InTime, Awake, Pages, Approves, Collects,
              pageVars, rowVars, Shows
  <1>1. CASE RungStep
    <2>1. CASE ClickGo BY <2>1 DEF ClickGo
    <2>2. CASE Launch BY <2>2 DEF Launch
    <2>3. CASE LaunchFails BY <2>3 DEF LaunchFails, Refuses
    <2>4. CASE Register BY <2>4 DEF Register, PutRow, RequestAge, Requesting
    <2>5. CASE PutGraph BY <2>5 DEF PutGraph
    <2>6. CASE StampHandOff BY <2>6 DEF StampHandOff, TouchRow, RequestAge, Requesting
    <2>7. CASE ApproveFails BY <2>7 DEF ApproveFails, Refuses
    <2>8. CASE ApproveAnswers BY <2>8 DEF ApproveAnswers
    <2>9. CASE ApproveDies BY <2>9 DEF ApproveDies, Refuses
    <2>10. CASE Poll BY <2>10 DEF Poll
    <2>11. CASE CollectRow BY <2>11 DEF CollectRow
    <2>12. CASE ResultPending BY <2>12 DEF ResultPending
    <2>13. CASE ResultIsError \/ ResultIsOk
      BY <2>13 DEF ResultIsError, ResultIsOk, Answers
    <2>14. CASE TouchPending
      BY <2>14 DEF TouchPending, StillRunning, TouchRow, RequestAge, Requesting
    <2>15. CASE PollFails BY <2>15 DEF PollFails, Answers
    <2>16. CASE RequestLost \/ Leave BY <2>16 DEF RequestLost, Leave
    <2>17. CASE WorkerActs \/ InstanceStops \/ InstanceEnds
      BY <2>17 DEF WorkerActs, InstanceStops, InstanceEnds
    <2>18. CASE Tick BY <2>18 DEF Tick, Patient, RowAges, Requesting
    <2> QED
      BY <1>1, <2>1, <2>2, <2>3, <2>4, <2>5, <2>6, <2>7, <2>8, <2>9, <2>10, <2>11, <2>12,
         <2>13, <2>14, <2>15, <2>16, <2>17, <2>18 DEF RungStep, Next, Control
  <1>2. CASE Exporting BY <1>2 DEF Exporting
  <1>3. CASE UNCHANGED lifeVars BY <1>3 DEF lifeVars, vars
  <1> QED BY <1>1, <1>2, <1>3 DEF LifeNext

\* PollingKeepsAwake, for all limits: a polling page's stamp is always fresh.
THEOREM PollingIsActivity == LifeSpec => []PollingKeepsAwake
  <1>1. LifeInit => Awake BY DEF LifeInit, Init, Awake
  <1>2. HInv /\ Awake => PollingKeepsAwake
    BY DEF HInv, Types, Awake, PollingKeepsAwake, Polling
  <1> QED BY HandoffInvariant, AwakeKept, <1>1, <1>2, PTL DEF LifeSpec

-----------------------------------------------------------------------------
(* The exports. *)

\* What the exporter keeps, and the bucket.
ExportTypes ==
    /\ stored \subseteq Keys
    /\ export \in ExportPhases /\ exports \in 0..MaxExports
    /\ todo \subseteq Keys
    /\ packed \subseteq Keys \ Zips /\ dropped \subseteq Keys \ Zips
    /\ inside \in [Zips -> SUBSET (Keys \ Zips)]
    /\ leftOut \in [Zips -> SUBSET (Keys \ Zips)]

\* Nothing is taken out of the bucket again, and result.json says something.
OnlyWhatIsThere ==
    /\ todo \subseteq stored /\ packed \subseteq stored
    /\ \A z \in Zips : inside[z] \subseteq stored
    /\ "result.json" \in stored => result # "absent"

\* A walk that has come across a good result has come, or will come, across its
\* activations: the result was written after them, and before the listing.
SavesGoAlong ==
    result = "ok" /\ "result.json" \in todo \cup packed => "saves" \in todo \cup packed \cup dropped

\* The cap holds at every moment of the walk.
CappedSoFar == BytesOf(packed) <= MaxBytes

Bundles ==
    /\ ExportTypes /\ OnlyWhatIsThere /\ SavesGoAlong /\ CappedSoFar
    /\ BundleIsWhole /\ BundleIsCapped

\* What an object costs; a bundle has finitely many, and an empty one costs nothing.
LEMMA BundleSizes ==
  /\ \A k \in Keys : SizeOf[k] \in Nat
  /\ MaxBytes \in Nat
  /\ \A S \in SUBSET (Keys \ Zips) : IsFiniteSet(S)
  /\ BytesOf({}) = 0
  <1>1. (\A k \in Keys : SizeOf[k] \in Nat) /\ MaxBytes \in Nat
    BY ExportAssumption
  <1>2. IsFiniteSet(Objects)
    <2>1. Objects = (({} \cup {"graph.json"}) \cup {"saves"}) \cup {"result.json"}
      BY DEF Objects
    <2> QED BY <2>1, FS_EmptySet, FS_AddElement
  <1>3. Keys \ Zips \subseteq Objects BY DEF Keys
  <1>4. \A S \in SUBSET (Keys \ Zips) : IsFiniteSet(S) BY <1>2, <1>3, FS_Subset
  <1>5. BytesOf({}) = 0 BY SumOfNothing DEF BytesOf
  <1> QED BY <1>1, <1>4, <1>5

LEMMA BundlesInit == LifeInit => Bundles
  <1> SUFFICES ASSUME LifeInit PROVE Bundles OBVIOUS
  <1>1. /\ stored = {} /\ result = "absent" /\ export = "none" /\ exports = 0
        /\ todo = {} /\ packed = {} /\ dropped = {}
        /\ inside = [z \in Zips |-> {}] /\ leftOut = [z \in Zips |-> {}]
    BY DEF LifeInit, Init, PrefixInit, ExportInit
  <1>2. ExportTypes
    <2>1. exports \in 0..MaxExports BY <1>1, ExportAssumption
    <2>2. inside \in [Zips -> SUBSET (Keys \ Zips)] /\ leftOut \in [Zips -> SUBSET (Keys \ Zips)]
      BY <1>1
    <2> QED BY <1>1, <2>1, <2>2 DEF ExportTypes, ExportPhases
  <1>3. OnlyWhatIsThere /\ SavesGoAlong /\ BundleIsWhole
    BY <1>1 DEF OnlyWhatIsThere, SavesGoAlong, BundleIsWhole
  <1>4. CappedSoFar
    <2>1. BytesOf(packed) = 0 BY <1>1, BundleSizes
    <2> QED BY <2>1, BundleSizes DEF CappedSoFar
  <1>5. BundleIsCapped
    <2>1. \A z \in Zips : BytesOf(inside[z]) = 0 BY <1>1, BundleSizes
    <2>2. 0 <= MaxBytes BY BundleSizes
    <2> QED BY <2>1, <2>2 DEF BundleIsCapped
  <1> QED BY <1>2, <1>3, <1>4, <1>5 DEF Bundles

\* One more object that fits keeps the bundle under the cap.
LEMMA OneMoreFits ==
  ASSUME Bundles, NEW k \in Keys \ Zips, Fits(k)
  PROVE  BytesOf(packed \cup {k}) <= MaxBytes
  <1>1. packed \in SUBSET (Keys \ Zips) /\ IsFiniteSet(packed)
    BY BundleSizes DEF Bundles, ExportTypes
  <1>2. CASE k \in packed
    <2>1. packed \cup {k} = packed BY <1>2
    <2> QED BY <2>1 DEF Bundles, CappedSoFar
  <1>3. CASE k \notin packed
    <2>1. \A j \in packed \cup {k} : SizeOf[j] \in Nat BY <1>1, BundleSizes
    <2>2. /\ BytesOf(packed) \in Nat
          /\ BytesOf(packed \cup {k}) = SizeOf[k] + BytesOf(packed)
      BY <1>1, <1>3, <2>1, SumWithOneMore DEF BytesOf
    <2> QED BY <2>1, <2>2 DEF Fits
  <1> QED BY <1>2, <1>3

\* Every step of an exporter keeps its bundles whole and capped.
LEMMA BundlesExport ==
  ASSUME HInv, Bundles, ExportStep
  PROVE  Bundles'
  <1> USE DEF Bundles, ExportTypes, OnlyWhatIsThere, SavesGoAlong, CappedSoFar,
              BundleIsWhole, BundleIsCapped, ExportPhases
  <1>1. CASE AskExport BY <1>1, ExportAssumption DEF AskExport
  <1>2. CASE Permitted BY <1>2 DEF Permitted
  <1>3. CASE ExportFails BY <1>3, BundleSizes DEF ExportFails, ExportEnds
  <1>4. CASE ListSession BY <1>4 DEF ListSession, HInv, Saved
  <1>5. CASE PackNext
    <2>1. PICK k \in todo :
             /\ todo' = todo \ {k}
             /\ packed' = IF k \notin Zips /\ Fits(k) THEN packed \cup {k} ELSE packed
             /\ dropped' = IF k \notin Zips /\ ~Fits(k) THEN dropped \cup {k} ELSE dropped
      BY <1>5 DEF PackNext
    <2>2. UNCHANGED <<export, exports, inside, leftOut, stored, result>>
      BY <1>5 DEF PackNext
    <2>3. k \notin Zips => k \in Keys \ Zips OBVIOUS
    <2>4. CappedSoFar' BY <2>1, <2>3, OneMoreFits DEF BytesOf
    <2>5. "saves" \notin Zips BY PrefixAssumption DEF Objects
    <2>6. SavesGoAlong' BY <2>1, <2>2, <2>5
    <2>7. ExportTypes' /\ OnlyWhatIsThere' BY <2>1, <2>2, <2>3
    <2>8. BundleIsWhole' /\ BundleIsCapped' BY <2>2 DEF BytesOf
    <2> QED BY <2>4, <2>6, <2>7, <2>8
  <1>6. CASE Upload
    <2>1. PICK z \in Zips :
             /\ stored' = stored \cup {z}
             /\ inside' = [inside EXCEPT ![z] = packed]
             /\ leftOut' = [leftOut EXCEPT ![z] = dropped]
      BY <1>6 DEF Upload, Put
    <2>2. /\ todo = {} /\ todo' = {} /\ packed' = {} /\ dropped' = {} /\ export' = "none"
          /\ UNCHANGED <<exports, result>>
      BY <1>6 DEF Upload, ExportEnds
    <2>3. z # "result.json" /\ z \in Keys BY PrefixAssumption DEF Objects, Keys
    <2>4. ExportTypes' BY <2>1, <2>2, <2>3
    <2>5. OnlyWhatIsThere' BY <2>1, <2>2, <2>3
    <2>6. SavesGoAlong' /\ CappedSoFar' BY <2>2, BundleSizes DEF BytesOf
    <2>7. BundleIsWhole' BY <2>1, <2>2
    <2>8. BundleIsCapped' BY <2>1, <2>2 DEF BytesOf
    <2> QED BY <2>4, <2>5, <2>6, <2>7, <2>8
  <1> QED BY <1>1, <1>2, <1>3, <1>4, <1>5, <1>6 DEF ExportStep

\* What the rung does to the bucket: it adds objects, and settles the result once.
LEMMA RungStores ==
  ASSUME HInv, OnlyWhatIsThere, RungStep
  PROVE  /\ stored \subseteq stored' /\ stored' \subseteq stored \cup Objects
         /\ "result.json" \in stored' => result' # "absent"
         /\ result' = result \/ result = "absent"
  <1> USE DEF prefixVars, Objects, OnlyWhatIsThere
  <1>1. CASE UNCHANGED prefixVars BY <1>1
  <1>2. CASE PutGraph \/ ApproveFails
    BY <1>2 DEF PutGraph, ApproveFails, Put, PutFails
  <1>3. CASE WorkerActs
    BY <1>3 DEF WorkerActs, WorkerStep, Boots, FetchGraph, GiveUpOnGraph, FetchFails, Trace,
       Save, Report, ReportFailure, TryResult, WriteResult, Put, PutFails, HInv, WrittenLast
  <1>4. CASE \/ ClickGo \/ Launch \/ LaunchFails \/ Register \/ StampHandOff \/ ApproveAnswers
             \/ ApproveDies \/ CollectRow \/ ResultPending \/ ResultIsError \/ ResultIsOk
             \/ TouchPending \/ PollFails \/ Poll \/ RequestLost \/ Leave
             \/ InstanceStops \/ InstanceEnds \/ Tick
    BY <1>1, <1>4 DEF ClickGo, Launch, LaunchFails, Register, StampHandOff, ApproveAnswers,
       ApproveDies, CollectRow, ResultPending, ResultIsError, ResultIsOk, TouchPending,
       PollFails, Poll, RequestLost, Leave, InstanceStops, InstanceEnds, Tick
  <1> QED BY <1>2, <1>3, <1>4 DEF RungStep, Next, Control

\* No step of the rung takes anything from a bundle.
LEMMA BundlesRung ==
  ASSUME HInv, Bundles, RungStep
  PROVE  Bundles'
  <1>1. UNCHANGED exportVars BY DEF RungStep
  <1>2. /\ stored \subseteq stored' /\ stored' \subseteq stored \cup Objects
        /\ "result.json" \in stored' => result' # "absent"
        /\ result' = result \/ result = "absent"
    BY RungStores DEF Bundles
  <1>3. ExportTypes' /\ OnlyWhatIsThere'
    BY <1>1, <1>2 DEF Bundles, ExportTypes, OnlyWhatIsThere, exportVars, Keys
  <1>4. SavesGoAlong' /\ BundleIsWhole'
    BY <1>1, <1>2 DEF Bundles, OnlyWhatIsThere, SavesGoAlong, BundleIsWhole, exportVars
  <1>5. CappedSoFar' /\ BundleIsCapped'
    BY <1>1 DEF Bundles, CappedSoFar, BundleIsCapped, exportVars, BytesOf
  <1> QED BY <1>3, <1>4, <1>5 DEF Bundles

\* The invariant of the exports.
LEMMA BundlesInvariant == LifeSpec => []Bundles
  <1>1. HInv /\ Bundles /\ [LifeNext]_lifeVars => Bundles'
    <2> SUFFICES ASSUME HInv, Bundles, [LifeNext]_lifeVars PROVE Bundles' OBVIOUS
    <2>1. CASE RungStep BY <2>1, BundlesRung
    <2>2. CASE Exporting BY <2>2, BundlesExport DEF Exporting
    <2>3. CASE UNCHANGED lifeVars
      BY <2>3 DEF lifeVars, vars, exportVars, prefixVars, Bundles, ExportTypes, OnlyWhatIsThere,
         SavesGoAlong, CappedSoFar, BundleIsWhole, BundleIsCapped, BytesOf
    <2> QED BY <2>1, <2>2, <2>3 DEF LifeNext
  <1> QED BY HandoffInvariant, BundlesInit, <1>1, PTL DEF LifeSpec

\* BundleIsWhole, for all sizes, any cap, and any number of exports at any time.
THEOREM BundlesAreWhole == LifeSpec => []BundleIsWhole
  <1>1. Bundles => BundleIsWhole BY DEF Bundles
  <1> QED BY BundlesInvariant, <1>1, PTL

\* BundleIsCapped, for all sizes and any cap.
THEOREM BundlesAreCapped == LifeSpec => []BundleIsCapped
  <1>1. Bundles => BundleIsCapped BY DEF Bundles
  <1> QED BY BundlesInvariant, <1>1, PTL

-----------------------------------------------------------------------------
(* The types. *)

\* What no other part says: how far the clocks run, the row and the instance.
Ranges ==
    /\ polledFor \in 0..PageWait /\ waitAge \in 0..GraphWait /\ stampAge \in 0..IdleGrace
    /\ row \in {"missing", "there"}
    /\ box \in [Boxes -> BoxStates]

\* A handler's clock reading is no older than the idle window.
LEMMA RequestIsYoung ==
  ASSUME HInv, Awake
  PROVE  RequestAge \in 0..IdleGrace
  BY DEF HInv, Types, InTime, Awake, RequestAge, Requesting

\* What happens to an instance leaves it in one of its states.
LEMMA BoxesKeep ==
  ASSUME box \in [Boxes -> BoxStates],
         \/ LaunchBox(Session) \/ BoxEnds(Session) \/ IdleStops(Session, {}) \/ UNCHANGED box
  PROVE  box' \in [Boxes -> BoxStates]
  BY DEF LaunchBox, BoxEnds, TerminateBox, IdleStops, BoxStates

\* The clocks saturate at their limits.
LEMMA RangesTick ==
  ASSUME HInv, Ranges, Tick
  PROVE  Ranges'
  <1>1. /\ polledFor' = IF Polling THEN Older(polledFor, PageWait) ELSE 0
        /\ waitAge' = IF worker = "waiting" THEN Older(waitAge, GraphWait) ELSE 0
        /\ stampAge' = IF stampAge < IdleGrace THEN stampAge + 1 ELSE IdleGrace
        /\ UNCHANGED <<row, box>>
    BY DEF Tick, RowAges
  <1>2. \A limit \in Nat : \A age \in 0..limit : Older(age, limit) \in 0..limit
    BY DEF Older
  <1>3. PageWait \in Nat /\ GraphWait \in Nat /\ IdleGrace \in Nat OBVIOUS
  <1>4. polledFor' \in 0..PageWait BY <1>1, <1>2, <1>3 DEF Ranges
  <1>5. waitAge' \in 0..GraphWait BY <1>1, <1>2, <1>3 DEF Ranges
  <1>6. stampAge' \in 0..IdleGrace BY <1>1, <1>3 DEF Ranges
  <1> QED BY <1>1, <1>4, <1>5, <1>6 DEF Ranges

\* Every step keeps the ranges; Awake keeps the stamp of a late handler in its own.
LEMMA RangesKept ==
  ASSUME HInv, Awake, Ranges, [LifeNext]_lifeVars
  PROVE  Ranges'
  <1> USE DEF Ranges, pageVars, workerVars, rowVars, Shows
  <1>0. RequestAge \in 0..IdleGrace BY RequestIsYoung
  <1>1. CASE RungStep
    <2>1. CASE ClickGo BY <2>1 DEF ClickGo
    <2>2. CASE Launch BY <2>2, BoxesKeep DEF Launch, Summoned
    <2>3. CASE LaunchFails BY <2>3, BoxesKeep DEF LaunchFails, Refuses, Summoned
    <2>4. CASE Register BY <2>4, <1>0 DEF Register, PutRow
    <2>5. CASE PutGraph BY <2>5 DEF PutGraph
    <2>6. CASE StampHandOff BY <2>6, <1>0 DEF StampHandOff, TouchRow
    <2>7. CASE ApproveFails BY <2>7, <1>0 DEF ApproveFails, Refuses, PutRow, TouchRow
    <2>8. CASE ApproveAnswers BY <2>8 DEF ApproveAnswers
    <2>9. CASE ApproveDies BY <2>9 DEF ApproveDies, Refuses
    <2>10. CASE Poll BY <2>10 DEF Poll
    <2>11. CASE CollectRow \/ ResultPending BY <2>11 DEF CollectRow, ResultPending
    <2>12. CASE ResultIsError \/ ResultIsOk BY <2>12 DEF ResultIsError, ResultIsOk, Answers
    <2>13. CASE TouchPending BY <2>13, <1>0 DEF TouchPending, StillRunning, TouchRow
    <2>14. CASE PollFails BY <2>14, <1>0 DEF PollFails, Answers, TouchRow
    <2>15. CASE RequestLost \/ Leave BY <2>15 DEF RequestLost, Leave
    <2>16. CASE WorkerActs
      BY <2>16 DEF WorkerActs, WorkerStep, Boots, FetchGraph, GiveUpOnGraph, FetchFails, Trace,
         Save, Report, ReportFailure, Raises
    <2>17. CASE InstanceStops \/ InstanceEnds
      BY <2>17, BoxesKeep DEF InstanceStops, InstanceEnds, WorkerLost
    <2>18. CASE Tick BY <2>18, RangesTick
    <2> QED
      BY <1>1, <2>1, <2>2, <2>3, <2>4, <2>5, <2>6, <2>7, <2>8, <2>9, <2>10, <2>11, <2>12,
         <2>13, <2>14, <2>15, <2>16, <2>17, <2>18 DEF RungStep, Next, Control
  <1>2. CASE Exporting BY <1>2 DEF Exporting
  <1>3. CASE UNCHANGED lifeVars BY <1>3 DEF lifeVars, vars
  <1> QED BY <1>1, <1>2, <1>3 DEF LifeNext

\* TypeOK, for all limits, sizes and instances: every clock saturates and, whatever is
\* late, no zip ever holds a zip.
THEOREM HandoffTypeCorrect == LifeSpec => []TypeOK
  <1>1. LifeInit => Awake BY DEF LifeInit, Init, Awake
  <1>2. LifeInit => Ranges
    BY DEF LifeInit, Init, WorkerInit, RowInit, BoxInit, Ranges, BoxStates
  <1>3. HInv /\ Awake /\ Ranges /\ [LifeNext]_lifeVars => Ranges' BY RangesKept
  <1>4. HInv /\ Ranges /\ Bundles => TypeOK
    BY DEF HInv, Types, Ranges, Bundles, ExportTypes, TypeOK, Pages, Approves, Collects
  <1> QED BY HandoffInvariant, BundlesInvariant, AwakeKept, <1>1, <1>2, <1>3, <1>4, PTL
    DEF LifeSpec

-----------------------------------------------------------------------------
(* The refinement. *)

\* Nothing is settled and nobody was told anything before the Go.
LEMMA PromiseInit == LifeInit => TheResult!Init
  BY DEF LifeInit, Init, PrefixInit, TheResult!Init

\* A step that leaves the result and the page alone is no step of the promise.
LEMMA Stutters ==
  ASSUME UNCHANGED <<page, result>>
  PROVE  UNCHANGED TheResult!vars
  BY DEF TheResult!vars

\* Whoever gives up waiting has not been told yet.
LEMMA GivingUp ==
  ASSUME page \in {"ready", "go", "resting", "asking"},
         page' \in {"denied", "lost", "left"}, UNCHANGED result,
         result \in {"absent", "ok", "error"}
  PROVE  TheResult!WalkAway
  BY DEF TheResult!WalkAway

\* A page that goes on waiting changes nothing of the promise.
LEMMA GoingOn ==
  ASSUME page \in {"ready", "go", "resting", "asking"},
         page' \in {"ready", "go", "resting", "asking"}, UNCHANGED result
  PROVE  UNCHANGED TheResult!vars
  BY DEF TheResult!vars

\* The worker's write settles it, once.
LEMMA Settling ==
  ASSUME result = "absent", result' \in {"ok", "error"}, UNCHANGED page
  PROVE  TheResult!Settle
  BY DEF TheResult!Settle

\* Every step is a step of the promise, or none.
LEMMA PromiseStep ==
  ASSUME HInv, [LifeNext]_lifeVars
  PROVE  [TheResult!Next]_TheResult!vars
  <1> USE DEF HInv, Types, Pages, Shows, pageVars, prefixVars
  <1>1. CASE RungStep
    <2>1. CASE ClickGo BY <2>1, GoingOn DEF ClickGo
    <2>2. CASE Launch \/ Register \/ PutGraph \/ StampHandOff \/ CollectRow \/ ResultPending
      BY <2>2, Stutters DEF Launch, Register, PutGraph, StampHandOff, CollectRow, ResultPending
    <2>3. CASE LaunchFails \/ ApproveFails \/ ApproveDies
      BY <2>3, Stutters, GivingUp
      DEF LaunchFails, ApproveFails, ApproveDies, Refuses, TheResult!Next
    <2>4. CASE ApproveAnswers BY <2>4, Stutters, GoingOn DEF ApproveAnswers
    <2>5. CASE Poll BY <2>5, GoingOn DEF Poll
    <2>6. CASE ResultIsError
      <3>1. CASE page = "asking"
        <4>1. TheResult!Refuse BY <2>6, <3>1 DEF ResultIsError, Answers, TheResult!Refuse
        <4> QED BY <4>1 DEF TheResult!Next
      <3> QED BY <2>6, <3>1, Stutters DEF ResultIsError, Answers
    <2>7. CASE ResultIsOk
      <3>1. CASE page = "asking"
        <4>1. TheResult!Pay BY <2>7, <3>1 DEF ResultIsOk, Answers, TheResult!Pay
        <4> QED BY <4>1 DEF TheResult!Next
      <3> QED BY <2>7, <3>1, Stutters DEF ResultIsOk, Answers
    <2>8. CASE TouchPending
      BY <2>8, Stutters, GoingOn, GivingUp DEF TouchPending, StillRunning, TheResult!Next
    <2>9. CASE PollFails
      BY <2>9, Stutters, GivingUp DEF PollFails, Answers, TheResult!Next
    <2>10. CASE RequestLost
      BY <2>10, GivingUp DEF RequestLost, Requesting, TheResult!Next
    <2>11. CASE Leave
      BY <2>11, GivingUp DEF Leave, Ended, TheResult!Next
    <2>12. CASE WorkerActs
      <3>1. UNCHANGED page BY <2>12 DEF WorkerActs
      <3>2. UNCHANGED result \/ (result = "absent" /\ result' \in {"ok", "error"})
        BY <2>12 DEF WorkerActs, WorkerStep, Boots, FetchGraph, GiveUpOnGraph, FetchFails,
           Trace, Save, Report, ReportFailure, TryResult, WriteResult, WrittenLast
      <3> QED BY <3>1, <3>2, Stutters, Settling DEF TheResult!Next
    <2>13. CASE InstanceStops \/ InstanceEnds \/ Tick
      BY <2>13, Stutters DEF InstanceStops, InstanceEnds, Tick
    <2> QED
      BY <1>1, <2>1, <2>2, <2>3, <2>4, <2>5, <2>6, <2>7, <2>8, <2>9, <2>10, <2>11, <2>12,
         <2>13 DEF RungStep, Next, Control
  <1>2. CASE Exporting
    <2>1. UNCHANGED <<page, result>>
      BY <1>2 DEF Exporting, ExportStep, AskExport, Permitted, ListSession, PackNext,
         Upload, ExportFails
    <2> QED BY <2>1, Stutters
  <1>3. CASE UNCHANGED lifeVars BY <1>3, Stutters DEF lifeVars, vars
  <1> QED BY <1>1, <1>2, <1>3 DEF LifeNext

\* ImplementsPromise, for all limits: the handoff is a promise kept, broken or left.
THEOREM HandoffKeepsThePromise == LifeSpec => ImplementsPromise
  BY HandoffInvariant, PromiseInit, PromiseStep, PTL
  DEF LifeSpec, ImplementsPromise, TheResult!Spec

=============================================================================
