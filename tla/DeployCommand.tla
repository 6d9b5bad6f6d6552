---------------------------- MODULE DeployCommand ----------------------------
(***************************************************************************)
(* A running `foray deploy` or `foray teardown` (internal/deploy/deploy.go *)
(* and cmd/foray/deploy.go): one process walking the list of resources,    *)
(* forward or backward, with no state file.  The modules that extend this  *)
(* one say what ensure and remove do at each resource, one call to AWS per *)
(* step; a read whose answer is used at once shares the step of the call   *)
(* that uses it, except where another command may act in between.          *)
(***************************************************************************)
EXTENDS Integers, Sequences, FiniteSets, Functions

CONSTANTS
    Operators,      \* the terminals a command may be started from
    Resources,      \* the list that is walked: AllResources (bound: or one that lacks some)
    Mishaps,        \* bound: how many failed calls or lost answers a command meets, 0 or 1
    Ids             \* bound: the ids AWS can be asked to generate

ASSUME DeployAssumption ==
    /\ Mishaps \in 0 .. 1
    /\ Ids \subseteq Nat \ {0} /\ Ids # {}

VARIABLE run        \* the command at each terminal

\* No id; and an id that is no more: none is generated twice, so what a dead one
\* was is of no interest, only that something still mentions it.
None == 0
Gone == -1

References == Ids \cup {None, Gone}

\* Mutant: log groups are removed before the functions that write to them.
AllResourcesLogsLast ==
    << <<"table", "sessions">>, <<"bucket", "web">>, <<"bucket", "data">>,
       <<"role", "gateway">>, <<"role", "webapi">>, <<"role", "spawn">>,
       <<"profile", "spawn">>, <<"function", "gateway">>, <<"function", "webapi">>,
       <<"logs", "gateway">>, <<"logs", "webapi">>,
       <<"logs", "api">>, <<"http api", "foray">>,
       <<"distribution", "foray">>, <<"sync", "web">> >>

\* The resources, in dependency order.
AllResources ==
    << <<"table", "sessions">>, <<"bucket", "web">>, <<"bucket", "data">>,
       <<"role", "gateway">>, <<"role", "webapi">>, <<"role", "spawn">>,
       <<"profile", "spawn">>, <<"logs", "gateway">>, <<"logs", "webapi">>,
       <<"function", "gateway">>, <<"function", "webapi">>,
       <<"logs", "api">>, <<"http api", "foray">>,
       <<"distribution", "foray">>, <<"sync", "web">> >>

Before(r, s) ==
    \E i, j \in DOMAIN AllResources : i < j /\ AllResources[i] = r /\ AllResources[j] = s

\* The walk is in that order, and does without a role or a log group at most.
ASSUME ListAssumption ==
    /\ Resources \in Seq(Range(AllResources))
    /\ \A i, j \in DOMAIN Resources : i < j => Before(Resources[i], Resources[j])
    /\ \A r \in Range(AllResources) : r[1] \notin {"role", "logs"} => r \in Range(Resources)

\* "applied bare": the control plane is up, and the report says that there was no page
\* to upload.
Outcomes == {"none", "applied", "applied bare", "apply failed", "torn down", "teardown failed",
             "no layer"}

\* Where inside an ensure or a remove.
Steps == {"", "layer", "start", "wait", "ttl", "posture", "prune", "policies", "detach", "add",
          "retention", "create", "configuration", "build", "gateway", "webapi", "done", "find",
          "converge", "policy", "cors", "delete", "oac"}

\* met: the worst the command has come across.  A mishap is a failed call, a service
\* slower than the command waits, or somebody else's write; a refusal is an
\* error answer that none of these explains.
Commands ==
    [verb : {"idle", "apply", "teardown"}, at : 0 .. Len(Resources), step : Steps,
     saw : References, fresh : BOOLEAN, tries : Nat,
     met : {"nothing", "refusal", "mishap"}, outcome : Outcomes]

AtRest == [verb |-> "idle", at |-> 0, step |-> "", saw |-> None, fresh |-> FALSE,
           tries |-> 0, met |-> "nothing", outcome |-> "none"]

-----------------------------------------------------------------------------
(* How a command moves on. *)

Running(o) == run[o].verb # "idle"

\* The command has come to a resource of this kind.
AtKind(o, kind) == run[o].at # 0 /\ Resources[run[o].at][1] = kind

\* The command is at this step of this resource.
Doing(o, verb, resource, step) ==
    /\ run[o].step = step
    /\ run[o].verb = verb
    /\ run[o].at # 0
    /\ Resources[run[o].at] = resource

Arrive(c, i) == [c EXCEPT !.at = i, !.step = "start", !.saw = None,
                          !.fresh = FALSE, !.tries = 0]

Ended(c, how) == [AtRest EXCEPT !.met = c.met, !.outcome = how]

\* Mutant: one resource too many.
PassedOneTooMany(c) ==
    CASE c.verb = "apply"    -> Arrive(c, c.at + 1)
      [] c.verb = "teardown" -> IF c.at > 1 THEN Arrive(c, c.at - 1) ELSE Ended(c, "torn down")

\* The next resource, or the end of the walk.
Passed(c) ==
    CASE c.verb = "apply" /\ c.at < Len(Resources) -> Arrive(c, c.at + 1)
      [] c.verb = "apply" /\ c.at = Len(Resources) -> Ended(c, "applied")
      [] c.verb = "teardown" /\ c.at > 1           -> Arrive(c, c.at - 1)
      [] c.verb = "teardown" /\ c.at = 1           ->
            Ended(c, IF c.met = "nothing" THEN "torn down" ELSE "teardown failed")

\* Mutant: Apply goes on as well.
FailedPressingOn(c, what) == Passed([c EXCEPT !.met = IF @ = "mishap" THEN @ ELSE what])

\* Apply stops at the first error; Teardown notes it and goes on.
Failed(c, what) ==
    LET noted == [c EXCEPT !.met = IF @ = "mishap" THEN @ ELSE what]
    IN  IF c.verb = "apply" THEN Ended(noted, "apply failed") ELSE Passed(noted)

Becomes(o, c) == run' = [run EXCEPT ![o] = c]

Goto(o, step) == Becomes(o, [run[o] EXCEPT !.step = step])

Found(o, id, step) == Becomes(o, [run[o] EXCEPT !.saw = id, !.step = step])

Errs(o, what) == Becomes(o, Failed(run[o], what))

\* Something outside goes wrong while this command runs.
Mishap(o) == Mishaps = 1 /\ run[o].met # "mishap"

\* The call did what it should; the command hears of it, or of an error instead.
Complete(o) ==
    \/ Becomes(o, Passed(run[o]))
    \/ Mishap(o) /\ Errs(o, "mishap")

\* A call fails having done nothing: a throttle, a network failure, a denial.
\* After the step before it, this is also that step's answer lost.
CallFails(o) ==
    /\ Running(o)
    /\ run[o].at # 0
    /\ ~Doing(o, "teardown", <<"sync", "web">>, "start")
    /\ Mishap(o)
    /\ Errs(o, "mishap")

\* The process dies and reports nothing: an interrupt, a closed laptop.
Killed(o) ==
    /\ Running(o)
    /\ Becomes(o, AtRest)

\* The command starts: flags are read, New resolves the layer before anything else.
Begin(o, verb) ==
    /\ ~Running(o)
    /\ Becomes(o, [AtRest EXCEPT !.verb = verb, !.step = "layer"])

\* New succeeded: Apply or Teardown walks the list.
Walk(o) ==
    /\ Becomes(o, Arrive(run[o], IF run[o].verb = "apply" THEN 1 ELSE Len(Resources)))

=============================================================================
