--------------------------- MODULE DatastoreTables ---------------------------
(***************************************************************************)
(* The tables both datastores keep, internal/metastructure/datastore.      *)
(*                                                                         *)
(* A table of resources is a set of rows: versions of resources, where the *)
(* version is the time of the write (a monotonic KSUID, of which a table   *)
(* holds the place in the order by which its database compares texts). A   *)
(* resource is                                                             *)
(* [uri, id, type, stack, label, target, managed, rw, ro]: uri is the      *)
(* KSUID, id the native identifier, rw and ro the properties that can and  *)
(* cannot be written. A label is <<base, number>>, a base [name, case]; 0  *)
(* is the label without a number. A table of targets is a set of           *)
(* [label, namespace, config].                                             *)
(***************************************************************************)
EXTENDS Naturals, FiniteSets

UnmanagedStack == "$unmanaged"

\* No KSUID; the others are numbers.
NoURI == 0

\* What a row of a deleted resource holds as data: "{}".
Empty == [uri |-> NoURI, id |-> "", type |-> "", stack |-> "", label |-> "", target |-> "",
          managed |-> FALSE, rw |-> "", ro |-> ""]

\* No row is found.
Nil == [found |-> FALSE]
Found(row) == [found |-> TRUE, row |-> row]

Row(r, version, op) == [uri |-> r.uri, version |-> version, op |-> op, id |-> r.id,
    type |-> r.type, stack |-> r.stack, label |-> r.label, target |-> r.target,
    managed |-> r.managed, data |-> IF op = "delete" THEN Empty ELSE r]

\* ORDER BY version DESC LIMIT 1, of a set of rows.
First(rows) == IF rows = {} THEN Nil
               ELSE Found(CHOOSE r \in rows : \A s \in rows : s.version <= r.version)

\* mksuid.New: later than the versions there are.
NewVersion(rows) == IF rows = {} THEN 1 ELSE First(rows).row.version + 1

\* ORDER BY LENGTH(label) DESC, label DESC LIMIT 1, of labels with a number.
Longest(labels) == IF labels = {} THEN Nil
                   ELSE Found(CHOOSE l \in labels : \A m \in labels : m[2] <= l[2])

\* The rows no row of the same resource is newer than.
Newest(rows) == {r \in rows : ~\E s \in rows : s.uri = r.uri /\ s.version > r.version}

\* INSERT OR REPLACE, ON CONFLICT (uri, version) DO UPDATE.
Upsert(rows, row) == {r \in rows : r.uri # row.uri \/ r.version # row.version} \cup {row}

\* resourcesAreEqual: what a new version is needed for.
ReadWriteEqual(r, s) == /\ r.id = s.id /\ r.stack = s.stack /\ r.type = s.type
                        /\ r.label = s.label /\ r.rw = s.rw
ReadOnlyEqual(r, s) == r.ro = s.ro

=============================================================================
