------------------------------- MODULE SessionRow -------------------------------
(***************************************************************************)
(* The META row of one session in the sessions table, as gateway's         *)
(* DynamoStore writes it: whether it exists and last_request, the idle     *)
(* bridge's signal, kept as its age in ticks.  A writer reads its own      *)
(* clock before the write, so that a write moves the stamp to any moment   *)
(* of the request it belongs to, backwards too.                            *)
(***************************************************************************)
EXTENDS Integers

CONSTANT IdleGrace      \* the idle window of the instance; ages saturate there

VARIABLES
    row,                \* does the row exist?
    stampAge            \* ticks since last_request

rowVars == <<row, stampAge>>

RowInit == row = "missing" /\ stampAge = IdleGrace

\* PutItem, with the creation time as the first stamp; age is how long ago
\* the writer may have read its clock.
PutRow(age) ==
    /\ row' = "there"
    /\ stampAge' \in 0..age

\* UpdateItem on condition that the row exists.
TouchRow(age) ==
    /\ row = "there"
    /\ stampAge' \in 0..age
    /\ UNCHANGED row

RowAges == stampAge' = IF stampAge < IdleGrace THEN stampAge + 1 ELSE IdleGrace

=============================================================================
