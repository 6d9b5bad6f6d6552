------------------------------- MODULE Buckets -------------------------------
(***************************************************************************)
(* The web and the data bucket (internal/deploy/s3.go), and the page that  *)
(* is mirrored into the web bucket (internal/deploy/websync.go).           *)
(***************************************************************************)
EXTENDS DeployCommand

VARIABLE bucket

Bucket(b) == <<"bucket", b>>
BucketNames == {"web", "data"}

\* posture: the settings applied so far.  names: the distribution that the web
\* bucket's read policy, or the data bucket's CORS rule, names.
NoBucket  == [there |-> FALSE, posture |-> {}, names |-> None, objects |-> {}]
NewBucket == [NoBucket EXCEPT !.there = TRUE]

-----------------------------------------------------------------------------
(* What S3 does. *)

Put(b, value) == bucket' = [bucket EXCEPT ![b] = value]

\* A name this account holds already is no error.
CreateBucket(b) == Put(b, IF bucket[b].there THEN bucket[b] ELSE NewBucket)

PutSettings(b, settings) == Put(b, [bucket[b] EXCEPT !.posture = settings])

PutObject(b, key) == Put(b, [bucket[b] EXCEPT !.objects = @ \cup {key}])

DeleteObjects(b, keys) == Put(b, [bucket[b] EXCEPT !.objects = @ \ keys])

\* S3 refuses to delete a bucket that holds anything.
Deletable(b) == bucket[b].objects = {}

\* A Put per setting; the rule that expires bundles, by their tag, in the data bucket
\* only.  All are put again on every run, so how far a run got does not matter.
BasePosture == {"blocked", "encrypted", "tagged"}
BundleLifecycle(b) == IF b = "data" THEN {"bundles expire"} ELSE {}
Posture(b) == BasePosture \cup BundleLifecycle(b)

-----------------------------------------------------------------------------

\* A bucket that is there, ours already or by a lost race, is left alone.
EnsureBucket(o, b) ==
    \/ /\ Doing(o, "apply", Bucket(b), "start")
       /\ CreateBucket(b)
       /\ Goto(o, "posture")
    \/ /\ Doing(o, "apply", Bucket(b), "posture")
       /\ PutSettings(b, Posture(b))
       /\ Complete(o)

\* Page by page; a key that cannot be deleted shows in the body of a 200 answer.
EmptyBucket(o, b) ==
    /\ Doing(o, "teardown", Bucket(b), "start")
    /\ bucket[b].there
    /\ \/ DeleteObjects(b, bucket[b].objects) /\ Goto(o, "delete")
       \/ \E gone \in SUBSET bucket[b].objects \ {bucket[b].objects} :
             /\ Mishap(o)
             /\ DeleteObjects(b, gone)
             /\ Errs(o, "mishap")

\* Why a bucket that was emptied is not empty: saved into since, or not emptied at all.
InTheWay(b) == IF bucket[b].objects \subseteq {"saves"} THEN "mishap" ELSE "refusal"

RemoveBucket(o, b) ==
    \/ /\ Doing(o, "teardown", Bucket(b), "start")
       /\ ~bucket[b].there
       /\ UNCHANGED bucket
       /\ Complete(o)
    \/ /\ Doing(o, "teardown", Bucket(b), "delete")
       /\ IF Deletable(b) THEN Put(b, NoBucket) /\ Complete(o)
                          ELSE UNCHANGED bucket /\ Errs(o, InTheWay(b))

\* A worker saves into the data bucket, whatever is being deployed.  It makes a
\* difference only to a command that has emptied the bucket.
WorkerSaves(o) ==
    /\ Doing(o, "teardown", Bucket("data"), "delete")
    /\ bucket["data"].there
    /\ Mishap(o)
    /\ PutObject("data", "saves")
    /\ UNCHANGED run

-----------------------------------------------------------------------------
(* The page. *)

WebSync == <<"sync", "web">>

\* The local directory is empty, or there is none: someone deploys the API only.  The
\* bucket is not even looked at, so what an earlier run put there stays.  The page is
\* last in the list.
NothingToUpload(o) ==
    /\ Doing(o, "apply", WebSync, "start")
    /\ UNCHANGED bucket
    /\ Becomes(o, Ended(run[o], "applied bare"))

\* What differs by its MD5 is uploaded.
Upload(o) ==
    /\ Doing(o, "apply", WebSync, "start")
    /\ IF bucket["web"].there
         THEN /\ PutObject("web", "page")
              /\ Goto(o, "prune")
         ELSE UNCHANGED bucket /\ Errs(o, "refusal")

\* What the local directory no longer has is deleted.
RemoveStale(o) ==
    /\ Doing(o, "apply", WebSync, "prune")
    /\ DeleteObjects("web", {"old page"})
    /\ Complete(o)

\* The objects go with the bucket.
RemoveSync(o) ==
    /\ Doing(o, "teardown", WebSync, "start")
    /\ UNCHANGED bucket
    /\ Becomes(o, Passed(run[o]))

BucketStep(o) ==
    \/ \E b \in BucketNames : EnsureBucket(o, b) \/ EmptyBucket(o, b) \/ RemoveBucket(o, b)
    \/ NothingToUpload(o) \/ Upload(o) \/ RemoveStale(o) \/ RemoveSync(o)

BucketAbsent(b) == ~bucket[b].there
BucketWhole(b)  == bucket[b].there /\ bucket[b].posture = Posture(b)
PageAbsent == bucket["web"].objects = {}
PageWhole  == bucket["web"].objects = {"page"}

=============================================================================
