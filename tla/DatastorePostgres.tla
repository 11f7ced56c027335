-------------------------- MODULE DatastorePostgres --------------------------
(***************************************************************************)
(* DatastorePostgres, internal/metastructure/datastore/postgres.go: the    *)
(* same interface as DatastoreSQLite, written separately in the code and   *)
(* here, so that the two can be compared.                                  *)
(***************************************************************************)
EXTENDS DatastoreTables

Existing(rows, r) == First({s \in rows : s.id = r.id /\ s.type = r.type})

\* Mutant: a discovered resource keeps its rows when it becomes managed.
KeepUnmanaged(rows, r, op) == rows

DeleteUnmanaged(rows, r, op) ==
    LET found == Existing(rows, r)
    IN  IF found.found /\ ~found.row.managed /\ op # "delete"
        THEN {s \in rows : s.uri # found.row.uri} ELSE rows

Result(rows, version) == [rows |-> rows, version |-> version, error |-> FALSE]

\* storeResource. Unlike SQLite's, the deletion of what was never stored is
\* no error.
storeResource(rows, r, op, fresh) ==
    LET found == Existing(rows, r)
        left == DeleteUnmanaged(rows, r, op)
        latest == First({s \in left : s.uri = r.uri})
        rwEqual == ReadWriteEqual(r, found.row.data)
        roEqual == ReadOnlyEqual(r, found.row.data)
        version == IF rwEqual /\ ~roEqual THEN found.row.version ELSE fresh
    IN  IF ~found.found THEN Result(rows \cup {Row(r, fresh, op)}, fresh)
        ELSE CASE op = "delete" /\ ~latest.found -> Result(left, 0)
               [] op = "delete" /\ latest.found /\ latest.row.op = "delete" ->
                      Result(left, found.row.version)
               [] op # "delete" /\ rwEqual /\ roEqual -> Result(left, found.row.version)
               [] OTHER -> Result(Upsert(left, Row(r, version, op)), version)

StoreResource(rows, r, fresh) == storeResource(rows, r, "update", fresh)
DeleteResource(rows, r, fresh) == storeResource(rows, r, "delete", fresh)

Live(rows) == {r \in Newest(rows) : r.op # "delete"}
Data(rows) == {r.data : r \in rows}

Loaded(found) == IF found.found THEN Found(found.row.data) ELSE Nil
LoadResource(rows, uri) == Loaded(First({r \in rows : r.uri = uri /\ r.op # "delete"}))
LoadResourceById(rows, uri) == Loaded(First({r \in rows : r.uri = uri /\ r.op # "delete"}))
LoadAllResources(rows) == Data(Live(rows))
LoadResourceByNativeID(rows, id) == Data({r \in Live(rows) : r.id = id})
LoadStack(rows, stack) == Data({r \in Live(rows) : r.stack = stack})
LoadAllStacks(rows) == {r.stack : r \in LoadAllResources(rows)} \ {""}

extendPostgresQueryString(term, value) ==
    CASE term.constraint = "none" -> TRUE
      [] term.constraint = "excluded" -> value # term.item
      [] term.constraint \in {"required", "optional"} -> value = term.item

QueryResources(rows, q) ==
    Data({r \in Live(rows) : /\ extendPostgresQueryString(q.stack, r.stack)
                             /\ extendPostgresQueryString(q.label, r.label)
                             /\ extendPostgresQueryString(q.type, r.type)
                             /\ extendPostgresQueryString(q.managed, r.managed)})

\* Unlike SQLite's, LIKE compares the case too.
LatestLabelForResource(rows, base) ==
    Longest({r.label : r \in {s \in rows :
        s.label = <<base, 0>> \/ (s.label[1] = base /\ s.label[2] > 0)}})

HasTriplet(r, t) == <<r.stack, r.label, r.type>> = <<t.stack, t.label, t.type>>
KSUID(found) == IF found.found THEN found.row.uri ELSE NoURI
GetKSUIDByTriplet(rows, t) == KSUID(First({r \in rows : HasTriplet(r, t) /\ r.op # "delete"}))
BatchGetKSUIDsByTriplets(rows, t) == KSUID(First({r \in rows : HasTriplet(r, t)}))
BatchGetTripletsByKSUIDs(rows, uris) ==
    {[uri |-> r.uri, stack |-> r.stack, label |-> r.label, type |-> r.type] :
        r \in {s \in Newest(rows) : s.uri \in uris}}

Stats(rows, targets) ==
    LET managed == {r \in Live(rows) : r.stack # UnmanagedStack}
    IN  [stacks |-> Cardinality({r.stack : r \in managed}),
         managed |-> Cardinality(managed),
         unmanaged |-> Cardinality({r \in Live(rows) : r.stack = UnmanagedStack}),
         targets |-> Cardinality(targets),
         types |-> [t \in {r.type : r \in Live(rows)} |->
                       Cardinality({r \in Live(rows) : r.type = t})]]

-----------------------------------------------------------------------------
LoadTarget(targets, label) == {t \in targets : t.label = label}
LoadAllTargets(targets) == targets
LoadTargetsByLabels(targets, labels) == {t \in targets : t.label \in labels}
StoreTarget(targets, t) ==
    IF LoadTarget(targets, t.label) # {} THEN targets ELSE targets \cup {t}

=============================================================================
