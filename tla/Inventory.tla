------------------------------ MODULE Inventory ------------------------------
(***************************************************************************)
(* The inventory of resources and what keeps it in step with the cloud:    *)
(* the ResourcePersister (resource_persister.go) writes the results of     *)
(* commands, syncs and discoveries to the datastore, in the order in which *)
(* they reach it, while resources also change outside of formae.           *)
(*                                                                         *)
(* Both datastores are kept side by side. Updaters, the synchronizer and   *)
(* discovery are reduced to what they read and hand over; they have        *)
(* modules of their own.                                                   *)
(***************************************************************************)
EXTENDS DatastoreTables

CONSTANTS Natives,     \* what can exist in the cloud: [id, type]
          Name(_),     \* the base of the label a discovered resource is given
          Formas,      \* resources of formas: [type, stack, label, config]
          Invalid,     \* <<native, rw>> without a field the schema requires
          Locale(_),   \* the place of a version in a collation that is not that of bytes
          Starts,      \* [gone, issued, changes, bytes, apart]: natives gone, KSUIDs issued
                       \* and changes made at the start; Postgres compares texts by their
                       \* bytes; commands on one stack follow one another
          MaxURIs, MaxChanges, MaxCrashes

\* Natives are identified by what rows keep of them, and no forma names the stack of what is unmanaged.
ASSUME InventoryAssumption ==
    /\ MaxURIs \in Nat /\ \A s \in Starts : s.issued \in 0..MaxURIs
    /\ \A n \in Natives : n = [id |-> n.id, type |-> n.type]
    /\ \A f \in Formas : f.stack # UnmanagedStack

VARIABLES cloud,    \* native -> [state, rw, ro, config]
          rows,     \* the table of resources, DatastoreSQLite
          pg,       \* the same table, DatastorePostgres
          targets,  \* the table of targets
          tasks,    \* resource updates on their way
          issued,   \* KSUIDs
          changes, crashes,
          setting   \* one of Starts

vars == <<cloud, rows, pg, targets, tasks, issued, changes, crashes, setting>>

SQL == INSTANCE DatastoreSQLite
PG == INSTANCE DatastorePostgres

Init ==
    /\ setting \in Starts
    /\ cloud = [n \in Natives |-> [state |-> IF n \in setting.gone THEN "gone" ELSE "never",
                                   rw |-> "p", ro |-> "p", config |-> "c"]]
    /\ issued = setting.issued /\ changes = setting.changes
    /\ rows = {} /\ pg = {} /\ targets = {} /\ tasks = {}
    /\ crashes = 0

Present(n) == cloud[n].state = "present"
Native(r) == [id |-> r.id, type |-> r.type]
Inventory == SQL!LoadAllResources(rows)

\* Commands on the same stack follow one another, or, as the admission does not
\* prevent (FormaCommandPersister and executor start after the check), overlap.
Idle(r) == setting.apart => \A t \in tasks : t.by = "command" => t.r.stack # r.stack

\* A resource update: whose it is, what it does, whether the plugin has done
\* it, the resource and the configuration of its target.
Task(by, op, done, r, config) ==
    [by |-> by, op |-> op, done |-> done, r |-> r, config |-> config]

Resource(uri, n, stack, label, managed) ==
    [uri |-> uri, id |-> n.id, type |-> n.type, stack |-> stack, label |-> label,
     target |-> "t", managed |-> managed, rw |-> cloud[n].rw, ro |-> cloud[n].ro]

-----------------------------------------------------------------------------
\* Mutant: a forma's resource gets a new KSUID.
NewKSUID(f) == issued + 1

\* assignKSUIDs: the KSUID the triplet has had before, or a new one.
KSUIDFor(f) == LET known == SQL!BatchGetKSUIDsByTriplets(rows, f)
               IN  IF known = NoURI THEN issued + 1 ELSE known
Issue(uri) == issued' = IF uri > issued THEN uri ELSE issued

\* generateResourceUpdatesForApply refuses another configuration of a target.
TargetAccepted(f) == \A t \in SQL!LoadTarget(targets, "t") : t.config = f.config

\* A command creates a resource of a forma.
GenerateCreate(f, n) ==
    LET uri == KSUIDFor(f)
    IN  /\ n.type = f.type /\ cloud[n].state = "never"
        /\ \A t \in tasks : Native(t.r) # n
        /\ \A r \in Inventory : <<r.stack, r.label>> # <<f.stack, f.label>>
        /\ uri <= MaxURIs /\ Idle(f) /\ TargetAccepted(f)
        /\ tasks' = tasks \cup {Task("command", "create", FALSE, Resource(uri, n, f.stack, f.label, TRUE),
                                     f.config)}
        /\ Issue(uri)
        /\ UNCHANGED <<cloud, rows, pg, targets, changes, crashes, setting>>

\* The plugin creates it.
PluginCreates(t) ==
    /\ t \in tasks /\ t.op = "create" /\ ~t.done
    /\ cloud[Native(t.r)].state = "never"
    /\ cloud' = [cloud EXCEPT ![Native(t.r)].state = "present",
                              ![Native(t.r)].config = t.config]
    /\ tasks' = (tasks \ {t}) \cup {[t EXCEPT !.done = TRUE]}
    /\ UNCHANGED <<rows, pg, targets, issued, changes, crashes, setting>>

\* A command updates a resource that exists, or one that was discovered, which
\* becomes managed under the KSUID of the forma, unless it has the forma's
\* properties already. The plugin has changed it.
Update(f, r) ==
    LET uri == IF r.managed THEN r.uri ELSE KSUIDFor(f)
        n == Native(r)
    IN  /\ r \in Inventory /\ r.type = f.type /\ r.rw # "q"
        /\ r.managed => r.stack = f.stack /\ r.label = f.label
        /\ Present(n) /\ changes < MaxChanges
        /\ uri <= MaxURIs /\ Idle(f) /\ TargetAccepted(f)
        /\ \A s \in Inventory : <<s.stack, s.label>> = <<f.stack, f.label>> => s = r
        /\ cloud' = [cloud EXCEPT ![n].rw = "q"]
        /\ tasks' = tasks \cup {Task("command", "update", TRUE,
                       [Resource(uri, n, f.stack, f.label, TRUE) EXCEPT !.rw = "q"], f.config)}
        /\ Issue(uri)
        /\ changes' = changes + 1
        /\ UNCHANGED <<rows, pg, targets, crashes, setting>>

\* A command deletes a managed resource; the plugin has deleted it.
Delete(r) ==
    /\ r \in Inventory /\ r.managed /\ Idle(r)
    /\ changes < MaxChanges
    /\ cloud' = [cloud EXCEPT ![Native(r)].state = "gone"]
    /\ tasks' = tasks \cup {Task("command", "delete", TRUE, r, cloud[Native(r)].config)}
    /\ changes' = changes + 1
    /\ UNCHANGED <<rows, pg, targets, issued, crashes, setting>>

\* A sync reads every resource of the inventory; the next one starts when it
\* has ended. Commands may be at work on the same resources.
Sync ==
    /\ Inventory # {} /\ \A t \in tasks : t.by # "sync"
    /\ tasks' = tasks \cup UNION {{Task("sync", "read", FALSE, r, t.config) :
                                  t \in SQL!LoadTarget(targets, r.target)} : r \in Inventory}
    /\ UNCHANGED <<cloud, rows, pg, targets, issued, changes, crashes, setting>>

\* Discovery lists what is in the cloud and not known by its identifier.
List(n, config) ==
    /\ Present(n) /\ cloud[n].config = config
    /\ SQL!LoadResourceByNativeID(rows, n.id) = {}
    /\ \A t \in tasks : t.by = "discovery" => Native(t.r) # n
    /\ issued < MaxURIs
    /\ issued' = issued + 1
    /\ tasks' = tasks \cup {Task("discovery", "read", FALSE,
                   Resource(issued', n, UnmanagedStack, <<Name(n), 0>>, FALSE), config)}
    /\ UNCHANGED <<cloud, rows, pg, targets, changes, crashes, setting>>

\* LabelForUnmanagedResource and incrementVersion.
LabelForUnmanagedResource(n) ==
    LET latest == SQL!LatestLabelForResource(rows, Name(n))
    IN  IF latest.found THEN <<latest.row[1], latest.row[2] + 1>> ELSE <<Name(n), 0>>

\* What is read through the configuration of a target. A resource that is not
\* there is persisted as a deletion (delegateCommandFromOperation); one that
\* was discovered is given its label.
ReadThrough(t) ==
    LET n == Native(t.r)
        label == IF t.by = "discovery" THEN LabelForUnmanagedResource(n) ELSE t.r.label
    IN  IF Present(n) /\ cloud[n].config = t.config
        THEN [t EXCEPT !.done = TRUE, !.r.rw = cloud[n].rw, !.r.ro = cloud[n].ro,
                       !.r.label = label]
        ELSE [t EXCEPT !.done = TRUE, !.op = "delete"]

Read(t) ==
    /\ t \in tasks /\ t.op = "read" /\ ~t.done
    /\ tasks' = (tasks \ {t}) \cup {ReadThrough(t)}
    /\ UNCHANGED <<cloud, rows, pg, targets, issued, changes, crashes, setting>>

-----------------------------------------------------------------------------
\* storeTarget, before the resource is stored: a target that has changed is
\* handed to the datastore too.
storeTarget(t) ==
    targets' = SQL!StoreTarget(targets, [label |-> t.r.target, namespace |-> "n",
                                         config |-> t.config])

\* validateRequiredFields, of all but the deletions of commands: what fails it is
\* not stored, and reported as stored.
Validated(t) == \/ t.by = "command" /\ t.op = "delete"
                \/ <<Native(t.r), t.r.rw>> \notin Invalid

\* A version as Postgres compares it: a TEXT, in the collation of the database.
Collated(version) == IF setting.bytes THEN version ELSE Locale(version)

\* Mutant: the read-only properties are not compared.
StoresWhenChanged(t, current) ==
    IF t.op = "read" /\ current.found THEN current.row.rw # t.r.rw ELSE t.op # "delete"

\* processResourceUpdate: a read is stored if it finds a change.
Stores(t, current) ==
    IF t.op = "read" /\ current.found
    THEN <<current.row.rw, current.row.ro>> # <<t.r.rw, t.r.ro>> ELSE t.op # "delete"

\* storeResourceUpdate. LoadResource also finds what was deleted, so that
\* DeleteResource may be called again.
Persist(t) ==
    LET current == SQL!LoadResource(rows, t.r.uri)
        fresh == NewVersion(rows)
    IN  /\ t \in tasks /\ t.done
        /\ tasks' = tasks \ {t}
        /\ IF Validated(t) THEN storeTarget(t) ELSE UNCHANGED targets
        /\ CASE ~Validated(t) -> UNCHANGED <<rows, pg>>
             [] Validated(t) /\ t.op = "delete" /\ current.found ->
                    /\ rows' = SQL!DeleteResource(rows, t.r, fresh).rows
                    /\ pg' = PG!DeleteResource(pg, t.r, Collated(fresh)).rows
             [] Validated(t) /\ Stores(t, current) ->
                    /\ rows' = SQL!StoreResource(rows, t.r, fresh).rows
                    /\ pg' = PG!StoreResource(pg, t.r, Collated(fresh)).rows
             [] OTHER -> UNCHANGED <<rows, pg>>
        /\ UNCHANGED <<cloud, issued, changes, crashes, setting>>

\* Resources change outside of formae.
OutsideCreates(n) ==
    /\ cloud[n].state = "never" /\ changes < MaxChanges
    /\ \A t \in tasks : Native(t.r) # n
    /\ cloud' = [cloud EXCEPT ![n].state = "present"]
    /\ changes' = changes + 1
    /\ UNCHANGED <<rows, pg, targets, tasks, issued, crashes, setting>>

OutsideChanges(n) ==
    /\ Present(n) /\ changes < MaxChanges
    /\ \/ cloud' = [cloud EXCEPT ![n].rw = "o"]
       \/ cloud' = [cloud EXCEPT ![n].ro = "o"]
       \/ cloud' = [cloud EXCEPT ![n].state = "gone"]
    /\ changes' = changes + 1
    /\ UNCHANGED <<rows, pg, targets, tasks, issued, crashes, setting>>

\* The node crashes: syncs and discoveries are not run again. Of the commands
\* those the plugin has yet to work on are, the results of the others are lost.
Crash ==
    /\ crashes < MaxCrashes
    /\ crashes' = crashes + 1
    /\ tasks' = {t \in tasks : t.op = "create" /\ ~t.done}
    /\ UNCHANGED <<cloud, rows, pg, targets, issued, changes, setting>>

\* The node crashes between the two statements of a store.
CrashInStore(t) ==
    /\ t \in tasks /\ t.done /\ Validated(t)
    /\ Stores(t, SQL!LoadResource(rows, t.r.uri))
    /\ crashes < MaxCrashes
    /\ crashes' = crashes + 1
    /\ rows' = SQL!DeleteUnmanaged(rows, t.r, "update")
    /\ pg' = PG!DeleteUnmanaged(pg, t.r, "update")
    /\ storeTarget(t)
    /\ tasks' = {s \in tasks : s.op = "create" /\ ~s.done}
    /\ UNCHANGED <<cloud, issued, changes, setting>>

Configs == {"c"} \cup {f.config : f \in Formas}

Work == \/ \E t \in tasks : PluginCreates(t) \/ Read(t) \/ Persist(t)
        \/ Sync
        \/ \E n \in Natives, c \in Configs : List(n, c)

Next == \/ Work
        \/ \E f \in Formas : \/ \E n \in Natives : GenerateCreate(f, n)
                             \/ \E r \in Inventory : Update(f, r)
        \/ \E r \in Inventory : Delete(r)
        \/ \E n \in Natives : OutsideCreates(n) \/ OutsideChanges(n)
        \/ Crash
        \/ \E t \in tasks : CrashInStore(t)

Spec == Init /\ [][Next]_vars

\* Updaters work on, and syncs and discoveries come back at intervals.
FairSpec ==
    /\ Spec
    /\ \A by \in {"command", "sync", "discovery"} :
           WF_vars(\E t \in tasks : t.by = by /\ (PluginCreates(t) \/ Read(t) \/ Persist(t)))
    /\ WF_vars(Sync)
    /\ \A n \in Natives, c \in Configs : WF_vars(List(n, c))

-----------------------------------------------------------------------------
TypeOK ==
    /\ \A n \in Natives : cloud[n].state \in {"never", "present", "gone"}
    /\ \A r \in rows : /\ r.uri \in 1..issued /\ r.version \in Nat
                       /\ r.op \in {"update", "delete"}
                       /\ r.op = "update" => r.data.uri = r.uri
    /\ \A r, s \in rows : r.uri = s.uri /\ r.version = s.version => r = s
    /\ \A t \in tasks : t.r.uri \in 1..issued
    /\ issued \in 0..MaxURIs

Triplets == {[stack |-> r.stack, label |-> r.label, type |-> r.type] : r \in rows}
Any == [constraint |-> "none"]
Terms(value) == {Any} \cup {[constraint |-> c, item |-> value] : c \in {"required", "excluded"}}
Queries == {[stack |-> s, managed |-> m, label |-> Any, type |-> t] :
               s \in Terms("s"), m \in Terms(TRUE), t \in Terms("A")}

\* There is a label of the same name in another case.
OtherCase(n) == \E r \in rows : r.label[1] # Name(n) /\ r.label[1].name = Name(n).name

\* The two datastores, which are written separately, answer every question
\* about the same sequence of calls in the same way, if Postgres compares
\* versions by their bytes, and the one about the latest label if no other
\* differs from it in case only.
BackendsAgree == setting.bytes =>
    /\ SQL!LoadAllResources(rows) = PG!LoadAllResources(pg)
    /\ SQL!LoadAllStacks(rows) = PG!LoadAllStacks(pg)
    /\ \A u \in 1..issued : /\ SQL!LoadResource(rows, u) = PG!LoadResource(pg, u)
                             /\ SQL!LoadResourceById(rows, u) = PG!LoadResourceById(pg, u)
    /\ SQL!BatchGetTripletsByKSUIDs(rows, 1..issued) = PG!BatchGetTripletsByKSUIDs(pg, 1..issued)
    /\ \A n \in Natives : /\ SQL!LoadResourceByNativeID(rows, n.id)
                                = PG!LoadResourceByNativeID(pg, n.id)
                          /\ \/ OtherCase(n)
                             \/ SQL!LatestLabelForResource(rows, Name(n))
                                   = PG!LatestLabelForResource(pg, Name(n))
    /\ \A t \in Triplets : /\ SQL!GetKSUIDByTriplet(rows, t) = PG!GetKSUIDByTriplet(pg, t)
                           /\ SQL!BatchGetKSUIDsByTriplets(rows, t)
                                = PG!BatchGetKSUIDsByTriplets(pg, t)
                           /\ SQL!LoadStack(rows, t.stack) = PG!LoadStack(pg, t.stack)
    /\ \A q \in Queries : SQL!QueryResources(rows, q) = PG!QueryResources(pg, q)
    /\ SQL!Stats(rows, targets) = PG!Stats(pg, targets)

\* A resource keeps its KSUID, by which others refer to it, through deletions
\* and new creations: no triplet of a managed resource ever has two, unless
\* commands on one stack overlap and each gives it a new one.
KeepsIdentity == setting.apart =>
    \A r, s \in rows : r.managed /\ s.managed /\ <<r.stack, r.label, r.type>> =
                           <<s.stack, s.label, s.type>> => r.uri = s.uri

\* A managed resource leaves the inventory only when its own deletion, or a
\* read that did not find it, is persisted.
ManagedStays ==
    \A r \in Inventory : r.managed =>
        \/ \E s \in Inventory' : s.uri = r.uri
        \/ \E t \in tasks \ tasks' : t.op = "delete" /\ t.r.uri = r.uri

\* The versions of managed resources are a history: a row is only replaced, by
\* a later write of the same version.
HistoryKept ==
    \A r \in rows : r.managed =>
        \E s \in rows' : s.uri = r.uri /\ s.version = r.version

\* What a command has created or updated is in the inventory, as it was
\* written, once its result is persisted; what misses a field that its schema
\* requires is not, although the persister answers that it is.
StoredIsVisible ==
    \A t \in tasks \ tasks' : t.done /\ t.op \in {"create", "update"} /\ Validated(t)
                                  /\ crashes' = crashes =>
        \E r \in Inventory' : r.uri = t.r.uri /\ r.rw = t.r.rw /\ r.ro = t.r.ro

\* What exists in the cloud and passes its validation is in the inventory with
\* its properties, and what is in the inventory exists.
InStep ==
    /\ \A n \in Natives : Present(n) /\ <<n, cloud[n].rw>> \notin Invalid =>
           \E r \in Inventory : Native(r) = n /\ r.rw = cloud[n].rw /\ r.ro = cloud[n].ro
    /\ \A r \in Inventory : Present(Native(r))

\* Whatever overtakes what, and wherever the node stops, the inventory is in
\* the end in step with the cloud (storeResource, syncs, discovery). A model that
\* has issued all its KSUIDs discovers nothing more; with a single native it
\* never has.
Convergence == <>[](issued = MaxURIs \/ InStep)

\* The rows are those of resources with one identity each: one row per version,
\* and, if commands on one stack follow one another, one KSUID per triplet of a
\* managed resource, through deletions and new creations (storeResource, KSUID
\* lookups).
RowsAreSound == TypeOK /\ KeepsIdentity

\* Nothing of what is managed is lost on the way to the datastore: resources
\* leave by their own deletion only, versions are kept, and what a command has
\* written and passes its validation can be seen (storeResource, DeleteResource,
\* ResourcePersister).
NothingIsLost == [][ManagedStays /\ HistoryKept /\ StoredIsVisible]_vars

=============================================================================
