------------------------ MODULE FormaCommandPersister ------------------------
(***************************************************************************)
(* The rows of a stored command, and how the FormaCommandPersister actor   *)
(* changes them: internal/metastructure/forma_persister.                   *)
(*                                                                         *)
(* A command stores one row per resource update.  The actor handles one    *)
(* call at a time: each one loads the command, changes the state of rows,  *)
(* recomputes the state of the command and stores it again.  A row is      *)
(* looked up by the KSUID of its resource, which the two halves of a       *)
(* replacement share.  The delete half is stored before the create half,   *)
(* but after it when the resource moves to another target, although it is  *)
(* executed first even so.                                                 *)
(*                                                                         *)
(* Rows are a function from the resource updates of the command to their   *)
(* persisted state.                                                        *)
(***************************************************************************)
EXTENDS Changeset

\* The command as storeNewFormaCommand writes it.
NewRows(ops) == [u \in ops |-> "NotStarted"]

\* The half that the command lists first: generateResourceUpdates appends the
\* creates, the replaces, which are split delete first, the updates and then the
\* implicit deletes, those of moved resources among them.
Leading(u) == IF u.moved THEN "create" ELSE "delete"

\* The first row, in the order of the command, for a KSUID.
FirstRow(rows, uri) ==
    CHOOSE u \in DOMAIN rows :
        /\ u.uri = uri
        /\ \/ u.op = Leading(u)
           \/ \A v \in DOMAIN rows : v.uri = uri => v.op # Leading(v)

\* updateCommandFromProgress: the operation selects among the rows of the
\* KSUID, so that the update that reports progress finds its own row.
UpdateFromProgress(rows, u, s) == [rows EXCEPT ![u] = s]

\* Mutant: every row of the KSUID is completed.
MarkAllRowsComplete(rows, uri, s) ==
    [u \in DOMAIN rows |-> IF u.uri = uri THEN s ELSE rows[u]]

\* markResourceUpdateAsComplete takes the first row whatever its operation.
MarkResourceUpdateAsComplete(rows, uri, s) == [rows EXCEPT ![FirstRow(rows, uri)] = s]

\* bulkUpdateResourceState changes every row of the KSUIDs.
BulkUpdateResourceState(rows, uris, s) ==
    [u \in DOMAIN rows |-> IF u.uri \in uris THEN s ELSE rows[u]]

MarkResourcesAsFailed(rows, uris) == BulkUpdateResourceState(rows, uris, "Failed")

\* overallCommandState
OverallCommandState(rows) ==
    CASE \E u \in DOMAIN rows : rows[u] \notin Terminal -> "InProgress"
      [] \A u \in DOMAIN rows : rows[u] = "Success"      -> "Success"
      [] OTHER                                           -> "Failed"

=============================================================================
