-------------------------- MODULE CommandGeneration --------------------------
(***************************************************************************)
(* Commands one after the other: each is generated from the inventory the  *)
(* ones before have left, and executed in the order of its changeset, in   *)
(* full or up to where it fails. Between them resources are discovered and *)
(* syncs find resources gone.                                              *)
(***************************************************************************)
EXTENDS ResourceUpdateGenerator

CONSTANTS Formas,       \* [resources, stacks]
          Discovered,   \* unmanaged resources that discovery may find
          MaxCommands, MaxSyncs

ASSUME FormasAssumption ==
    \A f \in Formas : \A q, r \in f.resources : q # r => URI(q) # URI(r)

VARIABLES inv,        \* the inventory
          command,    \* the updates of the command that is executed
          last,       \* the last command, and what it was generated from unless it failed
          snapshot,   \* the resources a sync has loaded, <<>> when none runs
          panicked,   \* the agent has run into a nil pointer
          commands, syncs

vars == <<inv, command, last, snapshot, panicked, commands, syncs>>

CS == INSTANCE Changeset

NoCommand == [mode |-> "none", forma |-> {}, status |-> "complete", before |-> {}]
Init == /\ inv = {} /\ command = <<>> /\ last = NoCommand /\ snapshot = <<>>
        /\ panicked = FALSE /\ commands = 0 /\ syncs = 0

Generate(mode, forma, from) ==
    CASE mode = "reconcile" -> generateResourceUpdatesForReconcile(forma, from)
      [] mode = "patch" -> generateResourceUpdatesForPatch(forma, from)
      [] mode = "destroy" -> generateResourceUpdatesForDestroy(forma, from)

\* FormaCommandFromForma. checkIfPatchCanBeApplied refuses a patch of a stack
\* that does not exist.
FormaCommandFromForma(mode, f) ==
    LET updates == Generate(mode, f.resources, inv)
    IN  /\ last.status = "complete" \/ last.status = "failed"
        /\ ~panicked /\ commands < MaxCommands
        /\ validateStackReferences(f.resources, f.stacks, inv)
        /\ mode = "patch" => f.stacks \subseteq Stacks(inv)
        /\ ~Refused(updates)
        /\ command' = updates
        /\ last' = [mode |-> mode, forma |-> f.resources, before |-> inv,
                    status |-> IF updates = <<>> THEN "complete" ELSE "running"]
        /\ commands' = commands + 1
        /\ UNCHANGED <<inv, snapshot, panicked, syncs>>

Updates == {command[i] : i \in DOMAIN command}

\* A reconcile finds the resource in another target: it is deleted there and
\* created here, and the two are not grouped as the halves of a replacement.
Moved(uri) == \E u, v \in Updates : /\ URI(u.r) = uri /\ URI(v.r) = uri
                                     /\ u.op = "delete" /\ v.op = "create" /\ ~v.group

\* The operation an update is in the changeset. Its groups are keyed by URI and
\* operation, so that an update that is listed twice is in it once.
Operation(u) == [uri |-> URI(u.r), key |-> URI(u.r), op |-> u.op, ns |-> "plugin",
                 deps |-> Refs[u.r.label], moved |-> Moved(URI(u.r))]
Operations == {Operation(u) : u \in Updates}

\* What the resource persister makes of the updates that succeed.
Effect(done) ==
    LET new == {u \in done : u.op \in {"create", "update"}}
        gone == {URI(u.r) : u \in {d \in done : d.op \in {"delete", "create"}}}
                    \cup {URI(u.old) : u \in {d \in done : d.op = "update"}}
    IN  {r \in inv : URI(r) \notin gone} \cup {u.r : u \in new}

\* References are taken to be without cycles, which a changeset would refuse: all
\* updates succeed, or those before the ones that fail.
Execute ==
    /\ last.status = "running" /\ last.mode # "sync"
    /\ LET ops == Operations
       IN  \E done \in SUBSET ops :
             /\ \A o \in done : CS!Upstream(ops, o) \subseteq done
             /\ inv' = Effect({u \in Updates : \E o \in done : o.uri = URI(u.r) /\ o.op = u.op})
             /\ last' = IF done = ops THEN [last EXCEPT !.status = "complete"]
                                     ELSE [NoCommand EXCEPT !.status = "failed"]
    /\ command' = <<>>
    /\ UNCHANGED <<snapshot, panicked, commands, syncs>>

Discover(r) ==
    /\ last.status # "running" /\ URI(r) \notin {URI(q) : q \in inv}
    /\ inv' = inv \cup {r}
    /\ last' = NoCommand
    /\ UNCHANGED <<command, snapshot, panicked, commands, syncs>>

\* synchronizeAllResources loads all resources and generates its updates from
\* them later; reads find resources gone.
SyncLoad ==
    /\ snapshot = <<>> /\ syncs < MaxSyncs /\ inv # {} /\ ~panicked
    /\ snapshot' = <<inv>> /\ syncs' = syncs + 1
    /\ UNCHANGED <<inv, command, last, panicked, commands>>
SyncGenerate ==
    /\ snapshot # <<>> /\ last.status # "running"
    /\ snapshot' = <<>>
    /\ IF SyncPanics(snapshot[1], inv)
       THEN panicked' = TRUE /\ UNCHANGED <<command, last>>
       ELSE /\ command' = generateResourceUpdatesForSync(snapshot[1], inv)
            /\ last' = [NoCommand EXCEPT !.mode = "sync", !.status = "running"]
            /\ UNCHANGED panicked
    /\ UNCHANGED <<inv, commands, syncs>>
SyncRead(gone) ==
    /\ last.status = "running" /\ last.mode = "sync"
    /\ gone \subseteq {u.r : u \in Updates}
    /\ inv' = inv \ gone
    /\ last' = NoCommand /\ command' = <<>>
    /\ UNCHANGED <<snapshot, panicked, commands, syncs>>

Next ==
    \/ \E m \in {"reconcile", "patch", "destroy"}, f \in Formas : FormaCommandFromForma(m, f)
    \/ Execute
    \/ \E r \in Discovered : Discover(r)
    \/ SyncLoad \/ SyncGenerate
    \/ \E gone \in SUBSET {u.r : u \in Updates} : SyncRead(gone)

Spec == Init /\ [][Next]_vars

-----------------------------------------------------------------------------
TypeOK ==
    /\ \A q, r \in inv : URI(q) = URI(r) => q = r
    /\ \A r \in inv : r.managed <=> r.stack # Unmanaged
    /\ last.status \in {"running", "complete", "failed"}
    /\ command # <<>> => last.status = "running"

\* A dependent of what a reconcile deletes is listed for every resource it refers
\* to, and once more if it is updated as well.
ListedAgain(u) ==
    LET deleted == {URI(v.r) : v \in {w \in Updates : w.op = "delete"}} \cap Refs[u.r.label]
    IN  /\ last.mode = "reconcile" /\ deleted # {}
        /\ \/ Cardinality(deleted) > 1
           \/ \E old \in last.before, new \in last.forma :
                  /\ URI(old) = URI(u.r) /\ URI(new) = URI(u.r)
                  /\ Filtered(old, new).val # old.val

\* Every other operation has one row.
OneRowEach ==
    \A i, j \in DOMAIN command :
        i # j /\ command[i].op = command[j].op /\ URI(command[i].r) = URI(command[j].r)
            => ListedAgain(command[i])

\* Of the two halves of a resource the delete has the first row, by which both
\* are found, except in a move.
DeletesLead ==
    \A i, j \in DOMAIN command :
        /\ URI(command[i].r) = URI(command[j].r)
        /\ command[i].op = "create" /\ command[j].op = "delete"
        => \E k \in DOMAIN command : /\ URI(command[k].r) = URI(command[i].r)
                                     /\ IF Moved(URI(command[i].r))
                                        THEN k < j /\ command[k].op = "create"
                                        ELSE k < i /\ command[k].op = "delete"

\* What changeset and persister rely on: a resource has one operation, or the
\* delete and the create that replace it, each in one row but for dependents of
\* what is deleted, in the order in which rows are found (generateResourceUpdates).
FeedsTheChangeset == CS!WellFormed(Operations) /\ OneRowEach /\ DeletesLead

\* A resource of a forma is there with its values, those that are set once
\* excepted; it may have been found unmanaged with the same values.
Provided(r) ==
    \/ \E q \in inv : /\ URI(q) = URI(r) /\ q.fixed = r.fixed /\ q.managed
                      /\ q.val = r.val \/ r.once
    \/ \E q \in findUnmanagedResource(r, inv) : q.fixed = r.fixed /\ (q.val = r.val \/ r.once)

\* A reconcile that succeeds leaves the stacks of its forma as the forma has
\* them, no resource more and none less, whatever it had to replace, and
\* whatever failed before.
ReconcileConverges ==
    last.mode = "reconcile" /\ last.status = "complete" =>
        /\ \A r \in last.forma : Provided(r)
        /\ \A q \in inv : q.stack \in Stacks(last.forma) => URI(q) \in {URI(r) : r \in last.forma}

\* The same forma once more needs no change, unless it has a resource that was
\* left unmanaged: the next reconcile creates that one a second time.
ReconcileIsIdempotent ==
    /\ last.mode = "reconcile" /\ last.status = "complete"
    /\ \A r \in last.forma : findUnmanagedResource(r, inv) = {}
    => generateResourceUpdatesForReconcile(last.forma, inv) = <<>>

\* A patch removes nothing but the direct dependents of what it replaces, and
\* leaves what is not in its forma as it was.
PatchIsLocal ==
    last.mode = "patch" /\ last.status = "complete" =>
        LET replaced == {r \in last.before : r \notin inv /\ \E f \in last.forma :
                            f.label = r.label /\ f.fixed # r.fixed}
        IN  \A r \in last.before : \/ r \in inv
                                   \/ \E f \in last.forma : f.label = r.label
                                   \/ \E q \in replaced : r \in DependOn(q, last.before)

\* A command does what its mode says: a reconcile leaves the stacks as the forma
\* has them and nothing to do for the next one, a patch changes nothing else,
\* whatever commands before it left behind half-way.
CommandsDoWhatTheySay ==
    TypeOK /\ ReconcileConverges /\ ReconcileIsIdempotent /\ PatchIsLocal

=============================================================================
