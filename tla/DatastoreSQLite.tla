--------------------------- MODULE DatastoreSQLite ---------------------------
(***************************************************************************)
(* DatastoreSQLite, internal/metastructure/datastore/sqlite.go: what it    *)
(* stores and answers about resources and targets. An error of the         *)
(* database is left to the modules that use this one.                      *)
(***************************************************************************)
EXTENDS DatastoreTables

\* The row of what is the same resource in the cloud.
Existing(rows, r) == First({s \in rows : s.id = r.id /\ s.type = r.type})

\* Mutant: all rows of the cloud resource are deleted.
DeleteExisting(rows, r, op) == {s \in rows : s.id # r.id \/ s.type # r.type}

\* A store begins by deleting the resource if it existed unmanaged, in a
\* statement of its own.
DeleteUnmanaged(rows, r, op) ==
    LET found == Existing(rows, r)
    IN  IF found.found /\ ~found.row.managed /\ op # "delete"
        THEN {s \in rows : s.uri # found.row.uri} ELSE rows

Result(rows, version) == [rows |-> rows, version |-> version, error |-> FALSE]

\* storeResource, with the version to give to a new row. A change of the
\* read-only properties alone is written to the existing version.
storeResource(rows, r, op, fresh) ==
    LET found == Existing(rows, r)
        left == DeleteUnmanaged(rows, r, op)
        latest == First({s \in left : s.uri = r.uri})
        version == IF /\ ReadWriteEqual(r, found.row.data)
                      /\ ~ReadOnlyEqual(r, found.row.data) THEN found.row.version ELSE fresh
    IN  CASE ~found.found -> Result(rows \cup {Row(r, fresh, op)}, fresh)
          [] found.found /\ op = "delete" /\ ~latest.found ->
                 [rows |-> left, version |-> 0, error |-> TRUE]
          [] found.found /\ op = "delete" /\ latest.found /\ latest.row.op = "delete" ->
                 Result(left, found.row.version)
          [] found.found /\ op # "delete" /\ ReadWriteEqual(r, found.row.data)
                         /\ ReadOnlyEqual(r, found.row.data) -> Result(left, found.row.version)
          [] OTHER -> Result(Upsert(left, Row(r, version, op)), version)

StoreResource(rows, r, fresh) == storeResource(rows, r, "update", fresh)
DeleteResource(rows, r, fresh) == storeResource(rows, r, "delete", fresh)

Loaded(found) == IF found.found THEN Found(found.row.data) ELSE Nil

\* The last version that is no deletion, though the resource may have been
\* deleted since.
LoadResource(rows, uri) == Loaded(First({r \in rows : r.uri = uri /\ r.op # "delete"}))
LoadResourceById(rows, uri) == Loaded(First({r \in rows : r.uri = uri /\ r.op # "delete"}))

\* Resources that exist, and those of them a native identifier is shared by.
LoadAllResources(rows) == {r.data : r \in {s \in Newest(rows) : s.op # "delete"}}
LoadResourceByNativeID(rows, id) ==
    {r.data : r \in {s \in Newest(rows) : s.op # "delete" /\ s.id = id}}

\* extendSQLiteQueryString: a term is none, or a value that is required,
\* optional or excluded; an optional one is treated as required.
extendSQLiteQueryString(term, value) ==
    CASE term.constraint = "none" -> TRUE
      [] term.constraint = "excluded" -> value # term.item
      [] OTHER -> value = term.item

QueryResources(rows, q) ==
    {r.data : r \in {s \in Newest(rows) :
        /\ s.op # "delete"
        /\ extendSQLiteQueryString(q.stack, s.stack)
        /\ extendSQLiteQueryString(q.label, s.label)
        /\ extendSQLiteQueryString(q.type, s.type)
        /\ extendSQLiteQueryString(q.managed, s.managed)}}

LoadStack(rows, stack) ==
    {r.data : r \in {s \in Newest(rows) : s.op # "delete" /\ s.stack = stack}}

\* The labels of the stacks; resources without one are left out.
LoadAllStacks(rows) == {r.stack : r \in LoadAllResources(rows)} \ {""}

\* The label itself or one with a number, which LIKE compares without the case;
\* labels of deleted resources count too.
LatestLabelForResource(rows, base) ==
    Longest({r.label : r \in {s \in rows :
        s.label = <<base, 0>> \/ (s.label[1].name = base.name /\ s.label[2] > 0)}})

\* The KSUID of a triplet of stack, label and type, alone and in a batch,
\* which also finds what was deleted.
HasTriplet(r, t) == r.stack = t.stack /\ r.label = t.label /\ r.type = t.type
GetKSUIDByTriplet(rows, t) ==
    LET found == First({r \in rows : HasTriplet(r, t) /\ r.op # "delete"})
    IN  IF found.found THEN found.row.uri ELSE NoURI
BatchGetKSUIDsByTriplets(rows, t) ==
    LET found == First({r \in rows : HasTriplet(r, t)})
    IN  IF found.found THEN found.row.uri ELSE NoURI
BatchGetTripletsByKSUIDs(rows, uris) ==
    {[uri |-> r.uri, stack |-> r.stack, label |-> r.label, type |-> r.type] :
        r \in {s \in Newest(rows) : s.uri \in uris}}

Stats(rows, targets) ==
    LET live == {r \in Newest(rows) : r.op # "delete"}
        managed == {r \in live : r.stack # UnmanagedStack}
    IN  [stacks |-> Cardinality({r.stack : r \in managed}),
         managed |-> Cardinality(managed),
         unmanaged |-> Cardinality(live \ managed),
         targets |-> Cardinality(targets),
         types |-> [t \in {r.type : r \in live} |-> Cardinality({r \in live : r.type = t})]]

-----------------------------------------------------------------------------
LoadTarget(targets, label) == {t \in targets : t.label = label}
LoadAllTargets(targets) == targets
LoadTargetsByLabels(targets, labels) == {t \in targets : t.label \in labels}

\* "Target is implemented as inserted once and can't be updated."
StoreTarget(targets, t) ==
    IF LoadTarget(targets, t.label) # {} THEN targets ELSE targets \cup {t}

=============================================================================
