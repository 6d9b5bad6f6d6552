----------------------------- MODULE Distribution -----------------------------
(***************************************************************************)
(* The CloudFront distribution (internal/deploy/cloudfront.go), in front   *)
(* of the API and the web bucket, and the two bucket settings that name    *)
(* it.  It is found by its comment.                                        *)
(***************************************************************************)
EXTENDS Buckets, HttpApi

VARIABLES
    dists,      \* the distributions with foray's comment, by id
    oac         \* whether the origin access control exists

Cdn == <<"distribution", "foray">>

-----------------------------------------------------------------------------
(* What CloudFront does. *)

\* The configuration asked for, of which only the origin varies; each change starts a
\* new propagation to every edge.
DistributionConfig(host) == [enabled |-> TRUE, status |-> "InProgress", host |-> host]

CreateDistribution(id, host) ==
    dists' = [i \in DOMAIN dists \cup {id} |->
                 IF i = id THEN DistributionConfig(host) ELSE dists[i]]

UpdateDistribution(id, enabled, host) ==
    dists' = [dists EXCEPT ![id] = [enabled |-> enabled, status |-> "InProgress", host |-> host]]

\* CloudFront refuses to delete one that is enabled.
CanDeleteDistribution(id) == id \in DOMAIN dists /\ ~dists[id].enabled

DeleteDistribution(id) ==
    /\ dists' = Restrict(dists, DOMAIN dists \ {id})
    /\ bucket' = [b \in BucketNames |->
            [bucket[b] EXCEPT !.names = IF @ = id THEN Gone ELSE @]]

\* An API is gone: what names it as its origin names nothing.
OriginsLeft(ids) ==
    [i \in DOMAIN dists |-> [dists[i] EXCEPT !.host = IF @ \in ids THEN @ ELSE Gone]]

\* It has reached every edge: seen, like a table's creation, by who waits for it.
Propagated(id) == dists' = [dists EXCEPT ![id].status = "Deployed"]

PutBucketPolicy(b, id) == Put(b, [bucket[b] EXCEPT !.names = id])

-----------------------------------------------------------------------------

\* The endpoint of the API, found again by its name.
ApiHost == TheOne(DOMAIN apis)
NoSingleApi == DOMAIN apis = {} \/ Several(DOMAIN apis)

EnsureOAC(o) ==
    /\ Doing(o, "apply", Cdn, "start")
    /\ oac' = TRUE
    /\ UNCHANGED <<dists, bucket>>
    /\ Goto(o, "find")

\* find: none, one, or an error when there are several.
FindDistribution(o) ==
    /\ Doing(o, "apply", Cdn, "find")
    /\ DOMAIN dists # {}
    /\ UNCHANGED <<dists, oac, bucket>>
    /\ IF Several(DOMAIN dists)
         THEN Errs(o, "refusal")
         ELSE Found(o, TheOne(DOMAIN dists), "converge")

\* The caller reference is fixed, so that nothing can come between find and create.
CreateForayDistribution(o, id) ==
    /\ Doing(o, "apply", Cdn, "find")
    /\ DOMAIN dists = {}
    /\ UNCHANGED <<oac, bucket>>
    /\ IF NoSingleApi
         THEN UNCHANGED dists /\ Errs(o, "refusal")
         ELSE /\ CreateDistribution(id, ApiHost)
              /\ Becomes(o, [run[o] EXCEPT !.saw = id, !.fresh = TRUE, !.step = "policy"])

\* Enabled is among the fields that are compared.
Differs(d) == ~d.enabled \/ d.host # ApiHost

\* Read-modify-write: every field that is compared is overwritten, but Enabled.
Converge(o) ==
    /\ Doing(o, "apply", Cdn, "converge")
    /\ UNCHANGED <<oac, bucket>>
    /\ LET id == run[o].saw
       IN  IF NoSingleApi \/ id \notin DOMAIN dists
             THEN UNCHANGED dists /\ Errs(o, "refusal")
             ELSE /\ IF Differs(dists[id])
                       THEN UpdateDistribution(id, dists[id].enabled, ApiHost)
                       ELSE UNCHANGED dists
                  /\ Goto(o, "policy")

\* The web bucket lets this distribution read it, and no other.
AllowOACRead(o) ==
    /\ Doing(o, "apply", Cdn, "policy")
    /\ UNCHANGED <<dists, oac>>
    /\ IF bucket["web"].there
         THEN PutBucketPolicy("web", run[o].saw) /\ Goto(o, "cors")
         ELSE UNCHANGED bucket /\ Errs(o, "refusal")

\* The data bucket answers to this distribution's pages; only a distribution that was
\* just created is waited for, and only without --no-wait.
AllowCORSFrom(o) ==
    /\ Doing(o, "apply", Cdn, "cors")
    /\ UNCHANGED <<dists, oac>>
    /\ IF bucket["data"].there
         THEN /\ PutBucketPolicy("data", run[o].saw)
              /\ (run[o].fresh /\ Goto(o, "wait")) \/ Complete(o)
         ELSE UNCHANGED bucket /\ Errs(o, "refusal")

\* Twenty minutes, then an error.
WaitDeployed(o, verb, next) ==
    /\ Doing(o, verb, Cdn, "wait")
    /\ UNCHANGED <<oac, bucket>>
    /\ \/ run[o].saw \in DOMAIN dists /\ Propagated(run[o].saw) /\ next
       \/ /\ run[o].saw \in DOMAIN dists => dists[run[o].saw].status = "InProgress"
          /\ UNCHANGED dists
          /\ Errs(o, "mishap")

\* Disabled first, then waited for, and only then deleted.
DisableDistribution(o) ==
    /\ Doing(o, "teardown", Cdn, "start")
    /\ UNCHANGED <<oac, bucket>>
    /\ CASE DOMAIN dists = {}      -> UNCHANGED dists /\ Goto(o, "oac")
         [] Several(DOMAIN dists) -> UNCHANGED dists /\ Errs(o, "refusal")
         [] OTHER ->
              LET id == TheOne(DOMAIN dists)
              IN  /\ IF dists[id].enabled
                       THEN UpdateDistribution(id, FALSE, dists[id].host)
                       ELSE UNCHANGED dists
                  /\ Found(o, id, "wait")

RemoveDistribution(o) ==
    /\ Doing(o, "teardown", Cdn, "delete")
    /\ UNCHANGED oac
    /\ IF CanDeleteDistribution(run[o].saw)
         THEN DeleteDistribution(run[o].saw) /\ Goto(o, "oac")
         ELSE UNCHANGED <<dists, bucket>> /\ Errs(o, "refusal")

RemoveOAC(o) ==
    /\ Doing(o, "teardown", Cdn, "oac")
    /\ oac' = FALSE
    /\ UNCHANGED <<dists, bucket>>
    /\ Complete(o)

CdnStep(o, id) ==
    \/ EnsureOAC(o) \/ FindDistribution(o) \/ CreateForayDistribution(o, id) \/ Converge(o)
    \/ AllowOACRead(o) \/ AllowCORSFrom(o)
    \/ WaitDeployed(o, "apply", Complete(o))
    \/ DisableDistribution(o)
    \/ WaitDeployed(o, "teardown", Goto(o, "delete"))
    \/ RemoveDistribution(o) \/ RemoveOAC(o)

CdnAbsent == DOMAIN dists = {} /\ ~oac

\* Whether it is enabled is another matter: see AppliedServes.
CdnWhole == \E id \in Ids :
               /\ DOMAIN dists = {id}
               /\ dists[id].host \in DOMAIN apis
               /\ bucket["web"].names = id
               /\ bucket["data"].names = id
               /\ oac

=============================================================================
