----------------------------- MODULE DeployStack -----------------------------
(***************************************************************************)
(* The whole of `foray deploy` and `foray teardown`: the command, the AWS  *)
(* services it calls, and what happens to them meanwhile.  There is no     *)
(* state file and no lock: what a command knows is what it finds.          *)
(***************************************************************************)
EXTENDS SessionsTable, Distribution, LayerProbe

cloud == <<table, bucket, role, profile, function, logs, apis, dists, oac>>
vars  == <<run, cloud, probeVars>>

CloudTypeOK ==
    /\ table \in [status : {"none", "CREATING", "ACTIVE"}, ttl : BOOLEAN]
    /\ bucket \in [BucketNames ->
            [there : BOOLEAN, names : References,
             posture : SUBSET {"blocked", "encrypted", "tagged", "bundles expire"},
             objects : SUBSET {"page", "old page", "saves"}]]
    /\ role \in [RoleNames -> [there : BOOLEAN, policies : SUBSET {"managed", "inline"}]]
    /\ profile \in [there : BOOLEAN, holds : BOOLEAN]
    /\ function \in [FunctionNames ->
            [there : BOOLEAN, code : {"none", "built", "old"}, config : {"none", "built", "old"},
             allows : References]]
    /\ logs \in [GroupNames -> {"none", "forever", "retained"}]
    /\ apis \in [DOMAIN apis -> SUBSET Parts] /\ DOMAIN apis \subseteq Ids
    /\ DOMAIN dists \subseteq Ids
    /\ dists \in [DOMAIN dists ->
            [enabled : BOOLEAN, status : {"InProgress", "Deployed"}, host : Ids \cup {Gone}]]
    /\ oac \in BOOLEAN

TypeOK ==
    /\ run \in [Operators -> Commands]
    /\ CloudTypeOK
    /\ phase \in {"idle", "first", "doubling", "halving", "resolved", "refused"}

Init ==
    /\ run = [o \in Operators |-> AtRest]
    /\ table = NoTable
    /\ bucket = [b \in BucketNames |-> NoBucket]
    /\ role = [r \in RoleNames |-> NoRole]
    /\ profile = NoProfile
    /\ function = [f \in FunctionNames |-> NoFunction]
    /\ logs = [g \in GroupNames |-> "none"]
    /\ apis = <<>>
    /\ dists = <<>>
    /\ oac = FALSE
    /\ ProbeInit

-----------------------------------------------------------------------------
(* The layer is resolved before anything is created, and before a teardown too: deploy *)
(* can be given one with --lwa-layer-arn, teardown cannot.                             *)

AtLayer(o) == Running(o) /\ run[o].step = "layer"

ResolveLayer(o) ==
    /\ AtLayer(o)
    /\ UNCHANGED cloud
    /\ \/ /\ run[o].verb = "apply" /\ phase = "idle"
          /\ UNCHANGED probeVars
          /\ Walk(o)
       \/ /\ StartProbe \/ Probe
          /\ UNCHANGED run
       \/ /\ phase = "resolved"
          /\ Forget
          /\ Walk(o)
       \/ /\ phase = "refused"
          /\ Forget
          /\ Becomes(o, Ended(run[o], "no layer"))

\* Bad credentials, or an error that is not an answer: nothing has been touched yet.
LayerFails(o) ==
    /\ AtLayer(o)
    /\ Mishap(o)
    /\ Becomes(o, [Ended(run[o], "no layer") EXCEPT !.met = "mishap"])
    /\ Forget
    /\ UNCHANGED cloud

-----------------------------------------------------------------------------

\* A step of the command at the resource it has come to.
WalkStep(o) ==
    /\ UNCHANGED probeVars
    /\ \/ /\ AtKind(o, "table")
          /\ TableStep(o)
          /\ UNCHANGED <<bucket, role, profile, function, logs, apis, dists, oac>>
       \/ /\ AtKind(o, "bucket") \/ AtKind(o, "sync")
          /\ BucketStep(o)
          /\ UNCHANGED <<table, role, profile, function, logs, apis, dists, oac>>
       \/ /\ AtKind(o, "role") \/ AtKind(o, "profile")
          /\ IamStep(o)
          /\ UNCHANGED <<table, bucket, function, logs, apis, dists, oac>>
       \/ /\ AtKind(o, "logs")
          /\ LogStep(o)
          /\ UNCHANGED <<table, bucket, role, profile, function, apis, dists, oac>>
       \/ /\ AtKind(o, "function")
          /\ FunctionStep(o)
          /\ UNCHANGED <<table, bucket, role, profile, logs, apis, dists, oac>>
       \/ /\ AtKind(o, "http api")
          /\ ApiStep(o, FreshId(DOMAIN apis))
          /\ dists' = OriginsLeft(DOMAIN apis')
          /\ UNCHANGED <<table, bucket, role, profile, logs, oac>>
       \/ /\ AtKind(o, "distribution")
          /\ CdnStep(o, FreshId(DOMAIN dists))
          /\ UNCHANGED <<table, role, profile, function, logs, apis>>

Start(o) ==
    /\ \E verb \in {"apply", "teardown"} : Begin(o, verb)
    /\ UNCHANGED <<cloud, probeVars>>

Breaks(o) ==
    /\ CallFails(o)
    /\ UNCHANGED <<cloud, probeVars>>

Dies(o) ==
    /\ Killed(o)
    /\ IF AtLayer(o) THEN Forget ELSE UNCHANGED probeVars
    /\ UNCHANGED cloud

\* `make lambdas` and an edited web/: what is deployed is no longer what is built.
Rebuild ==
    /\ \A o \in Operators : ~Running(o)
    /\ \E o \in Operators : run[o].outcome \in {"applied", "applied bare"}
    /\ run' = [o \in Operators |-> AtRest]
    /\ function' = [f \in FunctionNames |->
            IF function[f].there THEN [function[f] EXCEPT !.code = "old", !.config = "old"]
                                 ELSE function[f]]
    /\ bucket' = [bucket EXCEPT !["web"].objects =
            IF @ = {} THEN {} ELSE {"old page"}]
    /\ UNCHANGED <<table, role, profile, logs, apis, dists, oac, probeVars>>

\* What the running lab does by itself: a worker saves, a function is invoked.
Outside ==
    /\ UNCHANGED <<table, role, profile, function, apis, dists, oac, probeVars>>
    /\ \/ \E o \in Operators : WorkerSaves(o) /\ UNCHANGED logs
       \/ \E f \in FunctionNames : FunctionLogs(f) /\ UNCHANGED <<run, bucket>>

\* The process at terminal o, left alone.
Proceed(o) == ResolveLayer(o) \/ WalkStep(o)

Next ==
    \/ \E o \in Operators : Start(o) \/ Proceed(o) \/ LayerFails(o) \/ Breaks(o) \/ Dies(o)
    \/ Rebuild
    \/ Outside

Spec == Init /\ [][Next]_vars

\* A process that is not killed gets to run; every wait it makes has a limit.
FairSpec == Spec /\ \A o \in Operators : WF_vars(Proceed(o))

-----------------------------------------------------------------------------

Absent(r) ==
    CASE r[1] = "table"        -> TableAbsent
      [] r[1] = "bucket"       -> BucketAbsent(r[2])
      [] r[1] = "role"         -> RoleAbsent(r[2])
      [] r[1] = "profile"      -> ProfileAbsent
      [] r[1] = "logs"         -> LogsAbsent(r[2])
      [] r[1] = "function"     -> FunctionAbsent(r[2])
      [] r[1] = "http api"     -> ApiAbsent
      [] r[1] = "distribution" -> CdnAbsent
      [] r[1] = "sync"         -> PageAbsent

Whole(r) ==
    CASE r[1] = "table"        -> TableWhole
      [] r[1] = "bucket"       -> BucketWhole(r[2])
      [] r[1] = "role"         -> RoleWhole(r[2])
      [] r[1] = "profile"      -> ProfileWhole
      [] r[1] = "logs"         -> LogsWhole(r[2])
      [] r[1] = "function"     -> FunctionWhole(r[2])
      [] r[1] = "http api"     -> ApiWhole
      [] r[1] = "distribution" -> CdnWhole
      [] r[1] = "sync"         -> PageWhole

=============================================================================
