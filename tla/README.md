# foray, modelled in TLA+

foray takes a research question, lets a planner propose a *ladder* of GPU
experiments (cheapest first), launches one rung per explicit human "Go", reads
the result and recommends to climb or to stop. This directory holds TLA+ models
of that system, the TLC runs that check them and the TLAPS proofs about them.
All paths below are relative to the repository root.

## 1. Inventory

| Component | State it keeps | Operations | Talks to | What makes it correct |
|---|---|---|---|---|
| Brain (`internal/brain/brain.go`) | none; works on the `Ladder` it is given (plan, `Cursor`, `Spent`) | Propose, Approve, Interpret, Assess, NextProposal | planner, Cedar, executor | books exactly what it launched; climbs only inside the envelope; never accepts for the human |
| Planner, pricing (`agentcore.go`, `pricing.go`, `expert.go`, `bedrock.go`) | none | PlanLadder, buildRung, SessionCostUSD | Bedrock, sizing, truffle | ladder sorted by cost and re-indexed; positive envelope |
| Cedar (`cedar.go`, `policy/`) | none | Permit, PermitExport | brain, export | default deny |
| Web API (`internal/webapi`) | none between requests | propose, approve, result, receipt, export | brain, gateway, table, bucket | a failed approve must be honest about what it started; receipts show committed spend |
| Page (`web/app.js`) | `currentLadder`, the cards, their closures and timers, the meter | propose, runRung, pollResult, reload | web API | Go runs the rung on the card; the meter never claims too much; every Go settles |
| Receipts (`gateway/receipt.go`, `dynamo.go`) | rows keyed (question, rung) | PutReceipt, Receipts, SummarizeReceipts | web API | the total of a question is what it cost |
| Handoff and worker (`gateway/handoff.go`, `worker/batch.py`) | objects `graph.json`, `result.json`, saves | PutGraph, HandOff, Collect, fetch_graph, run, write_result, `_fail` | web API, instance | the worker finds the graph in time; the page shows the one result there is or says there is none; a success result has its saves |
| CLI rung lifecycle (`cmd/foray/main.go`) | instance, tunnel, session row | runLoop, runRung, register, trace, close, reap, stop | brain, spawn, gateway | every exit path terminates the instance; each launch had its own Go |
| Gateway (`gateway.go`, `worker.go`, `http.go`) | session rows, `last_request` | Route, bridgeIdle, Touch | worker, table | an active session is not reaped |
| spore adapters (`internal/spore`) | child processes | Launch, Status, List, Terminate, Serve, Stop, task Run | spawn, lagotto, truffle CLIs | no launch is lost; the readiness wait always ends |
| Deploy (`internal/deploy`, `cmd/foray/deploy.go`) | the AWS account, no state file | Apply, Teardown, ensure/remove of each resource, the layer probe | AWS | what is reported is true; a re-run gets out of any half-finished run; nothing is made twice; teardown leaves nothing billing |
| Export (`internal/export`) | bundles under `exports/` | Export, Presign, Owner, Exists | bucket, Cedar | only the owner's existing saves; a bundle holds what it says, under its cap |
| Sizing, catalog, device | none | Size, routeEngine, lookups | planner | the smallest hardware that fits |

The hard behaviour is where a launch (which spends money) is separated from the
bookkeeping about it: the server is stateless, the ladder lives in a browser tab
whose callbacks interleave, every call after the launch can fail, answers get
lost, and a tab can be reloaded at any time. The deployed handoff adds three
clocks that nobody synchronises (the page's, the Lambda's and the worker's), and
deploy a walk over fifteen resources that may die anywhere and remembers nothing.

`PROJECT.json` lists every component with its status, and every hazard with its
source line and the properties that cover it.

## 2. Modules

* **Brain** — the ladder as pure operators over constants `Plans`, `Rungs`,
  `Cost`, `Budget`, `Asks`, `Denied`. `PlanAssumption` states what `PlanLadder`
  guarantees of what it returns. Money is counted in whole cents, which is what
  `roundCents` makes of every estimate.
* **HumanInTheLoop** — the abstract acceptance node: a proposal is offered, a
  human says Go to it, it launches, once. It says nothing about who drives it.
* **WebLoop** — the page, `handleApprove`/`handleResult`/`handlePropose`/
  `handleReceipt`, the receipts table and the worker's outcome, over one tab.
* **WebLoopProperties** — the properties. **WebLoopInvariants** — the inductive
  invariants. **WebLoopProofs** (any user), **PatientProofs** (a user who waits) — the proofs.
* **SpawnBox** — the instances as spawn keeps them: launched, stopped when idle,
  ended. What foray calls is translated from `internal/spore`; what spawn's daemon
  and its TTL do is external.
* **CliSession** — one `foray run`, over Brain and SpawnBox.
  **CliProperties**, **CliInvariants**, **CliProofs** — as above.
* **BrainProofs** — lemmas about the ladder's operators, used by both sets of proofs.
  **SumProofs** — lemmas about sums over finite sets, for the books of the command line
  and the size of a bundle.
* **Promise** — the abstract handoff: one answer, which its holder is paid, is
  refused, or no longer waits for.
* **SessionPrefix** (the objects of a session), **BatchWorker** (`worker/batch.py`),
  **SessionRow** (the session's durable row), **Handoff** (one deployed rung from Go
  to its end, over those three and SpawnBox), **Exporter** (bundles of the same
  objects), **SessionLife** (the last two side by side).
  **HandoffProperties**, **HandoffProofs** — as above.
* **Deployer** — what Apply and Teardown promise of *any* list of resources.
  **DeployerProofs** — the proofs about it.
* **DeployCommand** — the command that walks the list. **SessionsTable**, **Buckets**,
  **IamRoles**, **Lambdas**, **HttpApi**, **Distribution** — ensure and remove of each
  resource, with the part of the AWS service they meet, in the order of their
  dependencies. **LayerProbe** — `resolveLWALayerARN`. **DeployStack** — all of it.
  **DeployProperties**, **DeployInvariants**, **DeployProofs** — as above, the layer
  probe's included.
* **MCWebLoop**, **MCCli**, **MCHandoff**, **MCDeploy** — the instances TLC checks.

HumanInTheLoop is the abstract specification of both drivers: WebLoop and
CliSession each instantiate it with a refinement mapping. Promise is the one of
Handoff, Deployer the one of DeployStack.

### How WebLoop corresponds to the code

| Model | Code |
|---|---|
| `current` | the page's global `currentLadder` |
| `asking` | where `propose` is: not running, awaiting `/api/propose`, awaiting `/api/receipt` |
| `tip`, `planned` | the plan of the running or last propose; the plans already returned |
| `shown`, `card` | the `<li>` cards in `#rungs` and the rung each was made from |
| `ui[c]` | how far the `runRung` of card `c` is; `climbing` is the settle timer, `refused` the "denied … not launched" exit, `failed` the "failed … no result" exit, `gone` a reload |
| `held[c]` | the ladder in that closure: what it sent, then `resp.ladder` |
| `rpc[c]` | how far `handleApprove` is with the request: posted, launched, handed over, answered ok or with an error |
| `ran[c]` | the rung its launch started (history) |
| `trace[c]` | what the worker made of it |
| `meter` | the header's cost meter |
| `bill[p]` | what was really committed for plan `p` (history) |
| `receipts` | the rows `QUESTION#<id>` / `RECEIPT#<rung>` |

Each `await` of the page is a point where any other callback may run; the code
between two awaits is one action. Each call of `handleApprove` that changes
something outside is one action, because the next one may fail: `ApproveLaunches`
(Cedar, spawn), `ApproveHandsOver` (session row, graph, activity stamp),
`ApproveRecords` (receipt, answer). `handlePropose` and `handleResult` change
nothing on the server and are part of the page's action that receives the answer.
Interpreting a result is a language model's reading, so the effect is a
nondeterministic Boolean. Failures are the constant `Faults`:

* `plan` — the planner fails or asks back; `launch` — spawn refuses;
* `orphan` — spawn launched and its answer cannot be parsed (`spawn.go:203`);
* `store` — a table or bucket write after the launch fails;
* `receipt` — the receipt is not written, or cannot be read;
* `reply` — the approve answer is lost or cut off while the handler goes on.

`Patient` says whether the human may submit a question while a started rung still
runs. The form allows it; the constant separates what the code guarantees to
everybody from what it guarantees only to somebody who waits.

Left out: the illustration, wording and layout, `/api/export` and `/healthz`
(they change nothing), a second tab (the server keeps nothing per tab, and the
receipts of one question are exercised by asking it twice), the expiry of
receipt rows after 24 hours.

### How CliSession corresponds to the code

| Model | Code (`cmd/foray/main.go` unless named) |
|---|---|
| `flags` | `--yes` and `--keep` |
| `pc` | where the command is: `start` (planning), `prompt` (`approve`), `approving` (`Brain.Approve`), `registering`, `tracing`, `closing`, `reaping` (`runRung` and its two defers), `reading` (Interpret, Assess, NextProposal), `ended` (return or `die`), `crashed` (killed) |
| `ladder`, `at` | the `*brain.Ladder` and `prop.Rung.Index` |
| `cur` | `sid`, while `runRung` holds it |
| `tunnel` | `tracer.svc`: the port the worker bound on the instance |
| `outcome` | what `runRung` is about to return |
| `box[b]`, `ran[b]` | an instance, and the rung it was launched for (history) |
| `lost`, `unreaped` | instances whose launch answer was unreadable or never arrived; instances whose terminate failed and was reported |
| `offered`, `goes` | what was put in front of the human, and what got a Go (history) |

The command is one thread; what interleaves with it is the life of its instances
(`Idles`, `Ends`) and a kill (`Crash`, and `CrashLaunching`, where spawn goes on
with the launch). `die` is `os.Exit`: it ends the command without any clean-up,
so only what `runRung` deferred has happened by then, in its order: tunnel, then
instance. `Reap` has three outcomes: kept, terminated, or failed and reported. The
session row goes into the command's own `MemStore`, whose Put cannot fail and
which nothing else reads. A prompt's answer is a free choice; which line of a
shared standard input it reads is left out.

### How Handoff and SessionLife correspond to the code

| Model | Code |
|---|---|
| `page`, `since`, `polledFor` | `runRung` and `pollResult` of one card (`web/app.js`): waiting for the approve answer (`go`), between polls (`resting`), in a poll (`asking`), and its ends: a finding (`done`), the worker's message (`told`), no result (`lost`), "not launched" (`denied`), a reload (`left`); ticks since the request or the last answer, and since polling began |
| `approve` | `handleApprove` after the policy: launching, `register`, `PutGraph`, `Touch`, answering |
| `collect` | `handleResult` up to its answer: `Collect`'s read of the row, `GetResult`, `Touch` |
| `worker`, `waitAge`, `reason` | `main` of `worker/batch.py`, its wait in `fetch_graph`, and the exception `_fail` reports |
| `stored`, `result` | the objects under `sessions/<id>/` and what `result.json` says |
| `row`, `stampAge` | the META row and the age of `last_request` |
| `export`, `todo`, `packed`, `dropped` | `presignBundle`: what is left of its listing, walked in key order, and the manifest it is writing |
| `inside`, `leftOut` | what each zip under `exports/` holds, and what its manifest says did not fit |

A page that stops waiting does not stop the handler: `OriginTimesOut` and
`RequestLost` end the request on the page only, and the handler goes on, which is
what a Lambda behind CloudFront does (600 s against 30 s). So a graph may be
written and an answer computed for nobody, and a row may be stamped with an old
clock: `RequestAge` is any moment of the request the handler serves, and, once
nobody waits for the request, as old as the window. Every call that changes
something outside can fail, with or without its effect, and either handler can
die between any two of them. Where the code asks for a clock the model counts
ticks, and `HandoffAssumption` keeps the order of the code's limits: 30 s read
timeout under the worker's 120 s wait, and two requests with the 3 s pause
between them under the 300 s idle window.

Left out: what a trace computes, the policy check before the launch (in WebLoop),
the ladder (in WebLoop), an export of one object (it presigns a URL and changes
nothing), more than one page of a listing, a second session (sessions share
nothing but the table, by key, and the bucket, by prefix).

### How DeployStack corresponds to the code

| Model | Code (`internal/deploy`) |
|---|---|
| `run[o]` | the process at terminal `o`: verb, the resource it is at, the step inside its `ensure` or `remove`, the id it found, retries, the worst error so far, what it reported |
| `table`, `bucket`, `role`, `profile`, `logs`, `function` | the resources by their fixed names, with the settings `ensure` makes |
| `apis`, `dists` | HTTP APIs and distributions by their *generated* id: names and comments are not unique in AWS |
| `function[f].allows`, `bucket[b].names`, `dists[d].host` | who refers to whom, by id; `Gone` is an id that is no more |
| `phase`, `lo`, `hi` | the three loops of `resolveLWALayerARN` |

One step is one call that changes something, with the reads whose answers it uses
at once: an answer may be lost after it (`Complete`), the next call may fail
(`CallFails`), and the process may be killed before it (`Killed`). Settings made
by a run of calls with nothing between them to tell apart are one step
(the public-access block, encryption, tags and lifecycle of a bucket; the
integrations, routes and stage of an API, which serves nothing before the last). What a service does by
itself (a table becoming active, a distribution reaching the edges) shows only
to a command that looks, and happens at the step that looks. Between the calls
the lab is at work: a worker saves (`WorkerSaves`), an invoked function logs and
so makes its log group again (`FunctionLogs`); between commands somebody builds
new packages or edits the page (`Rebuild`).

The page has two ways to succeed. Where `web/` has files, `Upload` and `RemoveStale` mirror
them and the report is `"applied"`. Where it has none, or is not there, `webSync.ensure`
returns at `websync.go:70` without looking at the bucket (`NothingToUpload`): what an
earlier run uploaded stays, whatever it is, and the report is `"applied bare"`, the one
whose last line says "nothing to upload". Either may happen in any run. `PageWhole` is
promised of the first report only.

The services' own rules (what refuses to be deleted while something uses it, what
a second create answers) are translated from `fake.go`, the repository's
statement of them; that an invoked function makes its missing log group is the
one rule it does not have, and is marked external.

Bounds: `Mishaps` is how many failed calls one command meets (one; the next
command may meet another, so a state can have gone through any number of them);
`Ids` how many ids AWS can generate (two suffice to make a second API);
`Attempts` the retries for a new role; `Ceiling` and `Histories` the probe's ceiling
and the sets of versions a region may offer; `Resources` is the list that is walked,
the code's fifteen (`AllResources`) or one that lacks resources of a kind of which
another is there (`ListAssumption`). The runs leave out one Lambda role and two log groups,
which only lengthen the walk; the theorems hold for every such list.

What counts as a mishap, for `FailureNeedsAMishap`: a failed call or a lost answer, a
worker's save that is in the way of a bucket's delete (`InTheWay`: anything else in the way is
a refusal), a service slower than the command waits. A table that is still being
created when the TTL is set is of the last kind, also when it was an earlier run that
began it and this one does not wait at all (`EnsureTTL`; see the hazards): of that case
the property says only that the run after gets through once the table is there.

Left out: `--dry-run` and the prompt before a teardown (they change nothing), the
text of the policies, content types, a table made by hand in another billing mode,
two commands at once (see the hazards).

## 3. Runs

The constants of the runs: plan `Cheap` has three rungs (1, 2, 2 cents, envelope 4:
the second fits and the third does not), `Dear` two rungs (3, 4, envelope 2: the
first alone is too dear), `Again` two rungs and answers the question `Cheap`
answered, its second rung denied by Cedar. `MaxCards` (5, or 6 for an impatient
human) is never reached: `CardsSuffice` in MCWebLoop was checked as an invariant
of both passing runs.

| Run | Question it answers |
|---|---|
| `web_patient` | two questions, every failure, reloads, a patient human: `LaunchIsTheCard`, `CheapestFirst`, `NoRungTwice`, `ClimbStaysInEnvelope`, `ReceiptsAddUp`, the refinement `HITLSpec`, and `EveryGoSettles` all hold |
| `web_any` | one question asked twice by a human who does not wait, every failure: `SpentNeverOverstated` and `MeterIsBacked` hold |
| `web_stale_ladder` | `LaunchIsTheCard` fails for a human who does not wait, without any failure |
| `web_envelope` | `EnvelopeCaps` fails: nothing compares the first rung with the envelope |
| `web_receipt` | `ReceiptShowsCommitted` fails: a re-ask overwrites the first ladder's rows |
| `web_not_launched` | `NotLaunchedIsTrue` fails: a store failure after the launch |
| `cli_run` | every flag, every failure, a kill at any point: `NothingLeftRunning`, `SpentIsExact`, the refinement `HITLSpec` and `RungReapsItself` hold |
| `cli_idle` | `BusyBoxIsNotIdle` fails: the active port is 8000, the worker's port is the system's choice |
| `handoff` | one session with every failure and two exports: `DoneIsSaved`, `GraphReachesWorker`, `PollingKeepsAwake`, `BundleIsWhole`, `BundleIsCapped`, the refinement `ImplementsPromise` and `EveryGoEnds` hold (336,454 distinct states) |
| `deploy_any` | deploy and teardown in any order, each failing or killed anywhere: `AppliedIsWhole`, `TornDownIsEmpty`, `FailureNeedsAMishap`, `NeverTwo`, `NoStrandedPermission`, `ResolvedIsNewest`, the refinement `ImplementsDeployer` and `EveryRunEnds` hold (368,832 distinct states, two minutes) |
| `deploy_disabled` | `AppliedServes` fails: a distribution disabled by a teardown that died is never enabled again |
| `deploy_pinned` | `TeardownCanStart` fails: where the probe finds no layer, `teardown` cannot get past it, though nothing failed |

Two plans are enough for the interleavings (an old ladder and a new one), three
rungs for a climb that goes on and then meets the envelope.

The CLI runs have three plans: `Tall` (three rungs, all inside the envelope), `Expert`
(one rung, the `--model` path) and `Steep` (two rungs, the second denied by Cedar).
Three instances are enough: a ladder of three rungs launches at most three. One worker
port that is not 8000 stands for all of them, since the model only compares ports with
the active one.

The handoff's limits are the smallest numbers in the code's order: read timeout 2
ticks, pause 1, worker's wait 3, idle window 6, page's patience 4, so every limit
is reached and every pair of them is told apart. Two exports make the second one
meet the first one's zip; a cap of 5 against sizes 1, 3 and 3 lets the result and
one other object in. The deploy runs have twelve of the fifteen resources, regions with no
version, three versions and one more than the ceiling reaches.

Fairness (`WebLoop!Fairness`): a request in flight is served to its end, an
answered promise resolves, a timer fires. Nothing is assumed of the human, nor of
the worker: a trace may never end, and the page's own deadline ends the wait.
`CliSession!Fairness`: `ServeFails` (the boot timer of `awaitServiceReady`), `Trace`
(the HTTP client's ten minutes), `CloseTunnel` and `Reap` (deferred calls that return).
Nothing is assumed of the human, of the worker, of spawn's daemon or of the TTL.
`SessionLife!FairLifeSpec`: time passes, the page's timer fires (`Poll`), and
CloudFront gives up on an origin that does not answer (`OriginTimesOut`). Nothing is
assumed of the two handlers, the worker, the instance or the exporter: any of them
may hang for ever, and every Go still ends on the page. `DeployStack!FairSpec`: a
process that is not killed runs (`Proceed`), whichever of its answers come; how long a
service takes is left open, because each of the command's waits has a limit.

## 4. Findings

The seven violations are disagreements between the code and what the repository
says of it; `PROJECT.json` quotes the lines. In short: a late answer restores a
dropped ladder under a new card (`app.js:245`, `261`); the envelope does not bind
the first rung; a re-asked question forgets its earlier spend; "not launched"
is shown for an instance that runs; the active port that should keep a busy box
from reading as idle (`real.go:77`) is not the port the CLI's worker listens on;
`converge` sees that a distribution is disabled but does not enable it
(`cloudfront.go:213`); and `teardown` has to resolve a layer it does not need and
offers no flag for it (`cmd/foray/deploy.go:110`).

Met while modelling and not settled by a run, because the answer is a service's or
nothing in this repository: nothing here
starts `worker/batch.py` on a launched instance (`real.go:70`); the instance's role
has no `ListBucket`, without which S3 answers 403 for a missing key, a code
`fetch_graph` does not wait on (`batch.py:111`); a single-object export signs a key the
worker does not write (`export/s3.go:112`); and a deploy right after a teardown may
take a table on its way out for an existing one (`dynamodb.go:116`). An emptied `web/` is not
mirrored: the deploy succeeds and the old page stays (`websync.go:70`, with the comment
at 208 that wants a deploy without a page to succeed).

## 5. Proofs

Every safety property and every refinement a run checks is also a theorem, for every
value of the constants that the named assumptions allow; TLC evaluates those assumptions
on every run. The inductive invariants were first checked by TLC on the instances of
the runs. What is liveness stays with TLC (see the end of this section).

**The deployed loop**, for any plans, rungs, cards, costs, envelopes and failures
(`PlanAssumption`: a plan's costs are naturals in ascending order, its envelope positive).
In `WebLoopProofs`, for every user:

* `TypeCorrect`: `Spec => []TypeOK`.
* `SpendIsBacked`: `Spec => []SpentNeverOverstated`. The property is not inductive:
  when the approve answer arrives the page replaces its ladder by the booked one, and
  nothing in the property says the booking was billed. `LaunchIsBilled` adds it: from
  the launch until the page takes the booked ladder, the bill of the plan already
  contains the rung on top of what the request's ladder says. `WellFormed` relates a
  card's progress to its other fields. `Money` is the conjunction (`MoneyInvariant`), with
  one lemma per action.
* `MeterNeverOverstates`: `Spec => []MeterIsBacked`, also from `Money`.

In `PatientProofs`, for a user who waits for a rung to end (`Patient`):

* `GoRunsTheCard`: `[]LaunchIsTheCard`. The strengthening is `OnePlanAtATime`: every card
  that can still act belongs to the plan the page carries, and while a propose is
  under way no card can act.
* `LoopImplementsAcceptance`: `Spec => HITLSpec`. An offer is a card with its rung; `Seeded`
  and `NextCard` map to `Offer`, `ClickGo` to `Go`, `ApproveLaunches` to `Launch`,
  everything else to a stutter.
* `CheapestRungFirst`, `EachRungOnce`, `ClimbWithinEnvelope`: from `Climb`. At most one card
  of a plan can still act (`OneActor`), no dealt card of the plan lies above it
  (`ActorIsTop`), no rung is dealt twice (`DealtOnce`), and the ladder that card carries
  stands at its rung with exactly what the plan has been billed (`LadderInStep`): without
  the last, nothing says that what `HasNext` found affordable still is when the next Go
  launches it.
* `SummaryIsTheBill`: `[]ReceiptsAddUp`, from `Totals`: a receipt row is a running total, and
  the row of the highest launch of a plan carries its whole bill.

**`foray run`** (`CliProofs`), for any plans, any set of instances and ports, and with a
kill at any point:

* `CliTypeCorrect`: `Spec => []TypeOK`.
* `LeavesNothingRunning`: `Spec => []NothingLeftRunning`. The property speaks only
  of the places where the command is at rest; `Accounted` carries it through a rung
  (what still bills is the current instance or was reported), and `BoxesMatch` says
  that the command knows an instance exactly while `runRung` holds it.
* `ReceiptIsExact`: `Spec => []SpentIsExact`. `Books` adds that the launches so far are
  finitely many; one more adds its cost to the sum (`SumProofs`).
* `CommandImplementsAcceptance`: `Spec => HITLSpec`. A Go must be new to the rung it
  is given for and an offer new to the ladder: `Acceptances` has the offers at or
  below the rung under consideration and `Carried` the cursor above it once the
  rung is booked, so a climb always offers something new.

`CliInv` is the conjunction, `CliInvariant` the theorem that it is invariant, with
one lemma per part of the command.

`SumProofs` shows what a sum over a finite set is when an element is added. The
library's induction theorems cannot be used (they take an operator as a parameter);
the lemmas argue by a least counterexample instead, from the well-foundedness of `<`.

**The handoff** (`HandoffProofs`), for all time limits in the order `HandoffAssumption`
gives them, any object sizes, any cap and any number of exports (`PrefixAssumption`: a
bundle's key is none of the session's own). Two things lie outside what is shown: time
passes only as the page's timers allow, so a suspended laptop, whose page does not
poll when it should, is not covered by `PollingKeepsAwake`; and a bundle's size is that of
the objects in it, without the manifest and what the zip format adds:

* `HandoffTypeCorrect`: `LifeSpec => []TypeOK`; the clocks stay in range (`Ranges`) though
  a late handler writes an old reading, because `Awake` bounds it.
* `GraphIsThereInTime`, `DoneHasItsSaves`: both are parts of, or follow from, `HInv`
  (`HandoffInvariant`). `GraphReachesWorker` is not inductive: what keeps the worker
  from giving up is that it cannot have waited longer than the page has (`InTime`:
  it boots after the request was sent, and its wait is longer than the
  read timeout), and that an approve handler past `PutGraph` has put the graph there
  (`GraphIsUp`). `Saved` follows the activations from the upload to the page.
* `PollingIsActivity`: `Awake` bounds the stamp's age by the request that wrote it,
  the pause after it and the request in flight; the bound is under the idle window.
* `BundlesAreWhole`, `BundlesAreCapped`: from `Bundles`. What an export lists is there
  (`OnlyWhatIsThere`); it walks the listing in key order, and the worker saves before it
  reports, so a listing with a good result has the activations, still to come, packed
  or dropped (`SavesGoAlong`); and the cap holds after each object (`CappedSoFar`).
* `HandoffKeepsThePromise`: `LifeSpec => ImplementsPromise`. It needs `WrittenLast`: the
  worker writes its result last and then exits, so no result is ever replaced.

**The walk of any list** (`DeployerProofs`), for any number of resources, whatever was
there before, with kills, failures, drift, and resources that come back while a later
one stands; the last resource may be one that lives inside an earlier one, and then an apply may
have nothing to put there and say so (`NothingToPut`): `WalkInvariant`, with `BehindApply` (everything passed is whole) and
`BehindTeardown` (everything passed is gone, or an error was noted), carries the two
reports, `ApplyTellsTheTruth` and `TeardownTellsTheTruth`.

**Deploy and teardown over the real resources** (`DeployProofs`), for any list in the code's
order that has everything but perhaps some role or log group (`ListAssumption`;
`TheWholeList`: the code's own fifteen are one), any set of ids, any number of
retries, with or without mishaps, and one terminal (`Alone`: with two, two APIs can be
made, see the hazards):

* `StackInvariant`: `Spec => []StackInv`. What the command does next rests on what it found
  some calls ago; `Knows` says, step by step, that this is still so: while it creates an
  API there is none, the id it saw is the one there is, the permissions are gone before
  the API is. `Granted` (a permission names an API that is there), `OneOfEach` and `Kept` are
  about the services alone and hold after any death. There is one lemma per resource,
  each with one case per call: it moves the command on as `Moves` says, spares the other
  resources (`Spared`: it can change only one that it leads to, and make none), and keeps
  what is known.
* `DeployTypeCorrect`, `OneApiOneDistribution`, `NothingStranded`: `TypeOK`, `NeverTwo` and
  `NoStrandedPermission`, from `StackInv`.
* `LeaveInvariant`: behind an apply all is whole, behind a teardown without an error all is
  gone (`Behind`); nothing is refused to a command that met no mishap (`NeverRefused`),
  because a refusal needs something standing that `Behind` says is gone, or gone that it
  says is whole; a report is so until something changes (`Reported`): `"applied"` of every
  resource, `"applied bare"` of every one but the page. The order of the
  list is what the proof needs: a step changes only later resources (`LeadsOn`), and
  a function that logs again stands behind its log group (`LogsComeFirst`).
* `DeployReportIsTrue`, `TeardownReportIsTrue`, `ReRunningIsTheWayOut`: `AppliedIsWhole`,
  `TornDownIsEmpty` and `FailureNeedsAMishap`, from `LeaveInv`.
* `DeployImplementsTheWalk`: `Spec => ImplementsDeployer`. A step inside an `ensure` or
  `remove` maps to `Work`, its last one to `Ensured`, `EnsureFails`, `Removed` or
  `RemoveFails`, an apply that ends without a page to `NothingToPut` (the page is the last of
  the list, `SyncIsLast`), the end of the layer's resolution to `Begin`, a kill to `Dies`, `Rebuild` to
  `Drift`, `FunctionLogs` to `Revive`, a new command to `Forget`, the rest to a stutter.
* `LayerIsNewest`: `Spec => []ResolvedIsNewest`, for any number of terminals, any region and
  any ceiling: what `resolveLWALayerARN` returns is available and its successor is not.
  `ProbeInv` is the loops' invariant: `lo` is available, `hi` is twice `lo` while doubling
  and unavailable while halving. `ProbeFindsNewest` says it of the probe alone, and
  `NoGapsMeansNewest` adds that without gaps this is the newest.

Only model-checked: liveness, which the installed provers cannot reason about under
fairness: `EveryGoSettles`, `RungReapsItself`, `EveryGoEnds` and `EveryRunEnds`; and the seven
violations, each a behaviour TLC finds and not a theorem.

## 6. Plan

Done: the web loop, the command line's loop, the deployed handoff with its exports, and
deploy, each with its runs and its proofs.

Not modelled, and why: Terraform and the scripts (declarative configuration); forayd
(nothing in the deployed path calls it); the worker's HTTP form beyond what the CLI
sees of it; sizing, catalog, device and pricing (pure formulas over tables of hardware,
without state, covered by table tests; see point 4 below); what a trace or a planner
answers (models of a model). Readiness of `spawn service`, lagotto and truffle are child
processes whose only effect on foray is the answer the models already choose freely.

Next:

1. **Two operators** at once: which of deploy's properties survive a concurrent run
   (`NeverTwo` and `NoStrandedPermission` do not; `LayerIsNewest` is proved for any
   number; the services' own invariant `Kept` is a candidate).
2. **Algorithms**: the readiness wait, `SummarizeReceipts`, sizing, the Cedar predicate.
3. **The two tabs** of one user over the same questions, for the receipts.
