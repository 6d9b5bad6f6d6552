---------------------------- MODULE SessionsTable ----------------------------
(***************************************************************************)
(* The DynamoDB table (internal/deploy/dynamodb.go).                       *)
(***************************************************************************)
EXTENDS DeployCommand

VARIABLE table      \* its status, and whether rows expire

Sessions == <<"table", "sessions">>

NoTable == [status |-> "none", ttl |-> FALSE]
NewTable == [status |-> "CREATING", ttl |-> FALSE]

\* DynamoDB finishes creating the table.  When it does shows only to a command that
\* looks, so it happens at the step that looks.
TableSettles == table' = [table EXCEPT !.status = "ACTIVE"]

\* Its status is not looked at: a table still being created counts as existing.
EnsureTable(o) ==
    /\ Doing(o, "apply", Sessions, "start")
    /\ IF table.status = "none" THEN table' = NewTable /\ Goto(o, "wait")
                                ELSE UNCHANGED table /\ Goto(o, "ttl")

\* Two minutes, then an error.
WaitActive(o) ==
    /\ Doing(o, "apply", Sessions, "wait")
    /\ \/ TableSettles /\ Goto(o, "ttl")
       \/ UNCHANGED table /\ Errs(o, "mishap")

\* DynamoDB takes a TTL on an ACTIVE table only.
EnsureTTL(o) ==
    /\ Doing(o, "apply", Sessions, "ttl")
    /\ \/ table' = [status |-> "ACTIVE", ttl |-> TRUE] /\ Complete(o)
       \/ table.status = "CREATING" /\ UNCHANGED table /\ Errs(o, "mishap")

RemoveTable(o) ==
    /\ Doing(o, "teardown", Sessions, "start")
    /\ table' = NoTable
    /\ Complete(o)

TableStep(o) ==
    EnsureTable(o) \/ WaitActive(o) \/ EnsureTTL(o) \/ RemoveTable(o)

TableAbsent == table.status = "none"
TableWhole  == table = [status |-> "ACTIVE", ttl |-> TRUE]

=============================================================================
