------------------------ MODULE PropertyLifecycle -------------------------
(***************************************************************************)
(* The properties of one resource through its life: formas are applied to  *)
(* it, again and again, in either mode; the provider is changed behind     *)
(* formae's back and a synchronization brings the change home; the         *)
(* resource it refers to gets other values.  An apply is decided from the  *)
(* stored rows (PatchDocument) and executed later.                         *)
(***************************************************************************)
EXTENDS PatchDocument

CONSTANTS Formas,       \* the documents a user may apply
          Fields,       \* the fields of the schema
          CreateOnly,   \* the fields that cannot be updated
          Sources,      \* the rows the referenced resource, "source", may have
          MaxApplies, MaxChanges

ASSUME LifecycleAssumption == MaxApplies \in Nat /\ MaxChanges \in Nat

VARIABLES row,          \* the stored resource, or Absent
          world,        \* its properties at the provider
          source,       \* the stored row of the resource it refers to, in clear
          forma, mode,  \* the apply that is under way or was the last
          pending,      \* the update it generated and has not executed
          failed,       \* whether the last update failed
          settled,      \* the paths the last apply was to bring to the forma's values
          unseen,       \* the paths changed outside that the row does not show
          applies, changes

vars == <<row, world, source, forma, mode, pending, failed, settled, unseen, applies, changes>>

Absent == [Properties |-> Empty, ReadOnlyProperties |-> Empty]
Exists == row # Absent
Stacks == [r \in {"source"} |-> ApplyToResource(source)]

\* What the ResolveCache answers for a property of the source.
Read == [p \in DOMAIN source.Properties \cup DOMAIN source.ReadOnlyProperties |->
            IF p \in DOMAIN source.Properties
            THEN Plain(source.Properties[p].val) ELSE source.ReadOnlyProperties[p]]
Answer(uri) == PreserveRefMetadata(Stacks["source"].Properties, Read)[uri[2]]

\* The updater's resolve loop over all of an update's references.
Resolved(doc, uris) ==
    [p \in DOMAIN doc |->
        IF \E u \in uris : u \in ExtractResolvableURIs(doc) /\ Refs(doc)[u] = p
        THEN SetRefValue(doc[p], Answer(doc[p].ref)) ELSE doc[p]]

Init ==
    /\ row = Absent /\ world = Empty /\ source \in Sources
    /\ forma \in Formas /\ mode = "reconcile"
    /\ pending = Decision("create", forma, {}, ExtractResolvableURIs(forma))
    /\ failed = FALSE /\ settled = {} /\ unseen = {} /\ applies = 0 /\ changes = 0

\* ApplyForma for the resource: NewResourceUpdateForCreate, or ...ForExisting.
Generated(doc, m) ==
    IF ~Exists
    THEN Decision("create", doc, {}, ExtractResolvableURIs(doc))
    ELSE NewResourceUpdateForExisting(row.Properties, doc,
             LoadResolvablePropertiesFromStacks(doc, Stacks), Fields, CreateOnly, m)

Apply ==
    /\ pending.op = "none" /\ applies < MaxApplies
    /\ applies' = applies + 1
    /\ \E doc \in Formas, m \in {"reconcile", "patch"} :
        /\ Loadable(doc, Stacks)
        /\ forma' = doc /\ mode' = m
        /\ pending' = Generated(doc, m)
        /\ settled' = DOMAIN doc \ unseen
        /\ failed' = FALSE
    /\ UNCHANGED <<row, world, source, unseen, changes>>

\* The plugin's create, or its update with the patch.
WithId(doc) == [p \in DOMAIN doc \cup {"id"} |-> IF p = "id" THEN Plain(<<"str", "self">>) ELSE doc[p]]
Patched(doc, ops) ==
    LET removed == {o.path : o \in {x \in ops : x.op = "remove"}}
        set == {o \in ops : o.op # "remove"}
    IN  [p \in (DOMAIN doc \ removed) \cup {o.path : o \in set} |->
            IF \E o \in set : o.path = p
            THEN Plain((CHOOSE o \in set : o.path = p).val) ELSE doc[p]]

\* resourceResolved fails when the document does not have the reference.
CanResolve == pending.remaining \subseteq ExtractResolvableURIs(pending.props)

\* The Read an update begins with, merged into the stored document, and whether
\* the ResourcePersister finds that it differs: opaque values are compared as
\* they come, and what is stored are their hashes.
ReadBack == SplitProperties(world, Fields, row.Properties)
ChangeDetected == pending.op = "update" /\ ReadBack # row

\* The paths changed outside that a Read leaves out of the row: a value object
\* keeps the user's value.
UnseenByRead == {p \in unseen : p \in DOMAIN row.Properties /\ row.Properties[p].kind = "value"}

\* handleProgressUpdate of that Read: the change is stored, the update rejected.
Rejected ==
    /\ ChangeDetected
    /\ row' = ApplyToResource(ReadBack) /\ unseen' = UnseenByRead
    /\ failed' = TRUE /\ pending' = NoUpdate /\ settled' = {}
    /\ UNCHANGED <<world, source, forma, mode, applies, changes>>

\* A create, an update or the two halves of a replacement, with the merge of
\* the plugin's answer and the row that is stored.
Executes ==
    LET props == Resolved(pending.props, pending.remaining)
        new == IF pending.op = "update" THEN Patched(world, pending.patch)
               ELSE WithId(ConvertToPluginFormat(props))
        stored == SplitProperties(new, Fields, props)
    IN  /\ pending.op # "none" /\ ~ChangeDetected /\ CanResolve
        /\ world' = new
        /\ row' = ApplyToResource(stored)
        /\ unseen' = IF pending.op = "update"
                     THEN {p \in unseen \ {o.path : o \in pending.patch} :
                             p \in DOMAIN props /\ props[p].kind = "value"}
                     ELSE {}
        /\ settled' = IF pending.op = "update" THEN settled ELSE DOMAIN forma
        /\ pending' = NoUpdate
        /\ UNCHANGED <<source, forma, mode, failed, applies, changes>>

\* The update ends with an error before the provider is asked.
ResolvingFails ==
    /\ pending.op # "none" /\ ~ChangeDetected /\ ~CanResolve
    /\ failed' = TRUE /\ pending' = NoUpdate /\ settled' = {}
    /\ UNCHANGED <<row, world, source, forma, mode, unseen, applies, changes>>

\* A Read by the Synchronizer: merged into the stored document, which is kept
\* when nothing differs.
Sync ==
    /\ pending.op = "none" /\ Exists
    /\ row' = ApplyToResource(ReadBack) /\ unseen' = UnseenByRead
    /\ UNCHANGED <<world, source, forma, mode, pending, failed, settled, applies, changes>>

\* Someone changes a field at the provider.
OutsideChange ==
    /\ changes < MaxChanges /\ changes' = changes + 1
    /\ \E p \in DOMAIN world \cap Fields :
        /\ world' = [world EXCEPT ![p] = Plain(<<"str", "changed">>)]
        /\ unseen' = unseen \cup {p}
        /\ settled' = settled \ {p}
    /\ UNCHANGED <<row, source, forma, mode, pending, failed, applies>>

\* The referenced resource is updated by a command of its own.
SourceChanges ==
    /\ pending.op = "none" /\ changes < MaxChanges /\ changes' = changes + 1
    /\ source' \in Sources \ {source}
    /\ settled' = settled \ RefPaths(forma)
    /\ UNCHANGED <<row, world, forma, mode, pending, failed, unseen, applies>>

Next ==
    \/ Apply
    \/ Rejected
    \/ Executes
    \/ ResolvingFails
    \/ Sync
    \/ OutsideChange
    \/ SourceChanges

Spec == Init /\ [][Next]_vars

---------------------------------------------------------------------------
TypeOK ==
    /\ source \in Sources /\ forma \in Formas /\ mode \in {"reconcile", "patch"}
    /\ pending.op \in {"none", "create", "update", "replace"}
    /\ \A p \in DOMAIN world : world[p].kind = "plain"
    /\ unseen \subseteq Fields /\ settled \subseteq Fields

\* The value the forma means for a path.
Meant(p) ==
    IF forma[p].kind = "ref" THEN String(Read[forma[p].ref[2]].val) ELSE forma[p].val

\* What the forma refers to is stored as plain values: for another reference or
\* an opaque value the patch takes the JSON text of the stored object.
RefersToPlain ==
    \A uri \in ExtractResolvableURIs(forma) : Stored(Stacks["source"], uri[2]).kind = "plain"

\* Once an apply is through, the provider has what the forma says: the values
\* of its plain properties, of its value objects and of what it refers to, as
\* far as nobody has changed them since or behind the row's back; and after a
\* reconcile it has no other field (NewResourceUpdateForExisting, GeneratePatch).
\* Values set once are not the forma's to change.
Converged ==
    pending.op = "none" /\ ~failed /\ RefersToPlain =>
        /\ \A p \in settled : forma[p].strat # "SetOnce" => world[p].val = Meant(p)
        /\ mode = "reconcile" => DOMAIN world \cap Fields \subseteq DOMAIN forma

\* When the provider has what the forma says and the row shows it, applying the
\* forma again changes nothing ("No changes needed").  An opaque value beside a
\* reference is excepted: the document always differs by the reference, and the
\* patch then replaces the stored hash by the clear value.
SecretBesideRef ==
    /\ RefPaths(forma) # {}
    /\ \E p \in DOMAIN forma : forma[p].vis = "Opaque" /\ forma[p].strat # "SetOnce"
ReapplyIsNoop ==
    /\ pending.op = "none" /\ ~failed /\ unseen = {} /\ Exists
    /\ RefersToPlain /\ ~SecretBesideRef
    /\ DOMAIN world \cap Fields = DOMAIN forma
    /\ \A p \in DOMAIN forma : p \in settled
    => Generated(forma, "reconcile").op = "none"

\* The patch an update sends holds values, never the hash of an opaque one nor
\* the JSON text of an object: "Plugin should receive raw value as simple
\* string", "Hash the filtered properties ONLY for comparison".
PatchHoldsValues ==
    RefersToPlain => \A o \in pending.patch : o.val # None => o.val[1] \in {"str", "num"}

\* An update is rejected only when somebody has changed the resource: "Resource
\* update rejected as a change to the resource was detected".  A resource that
\* holds an opaque reference is excepted: the Read brings the clear value, which
\* differs from the stored hash, and its updates are always rejected.
RejectsChangesOnly ==
    /\ ChangeDetected
    /\ \A p \in RefPaths(row.Properties) : row.Properties[p].vis # "Opaque"
    => unseen # {}

\* An apply does what its forma says: provider and forma converge, the same
\* forma once more changes nothing, what is sent in between are values, and an
\* update is refused for a change outside of formae only
\* (NewResourceUpdateForExisting, GeneratePatch, mergeRefsPreservingUserRefs,
\* handleProgressUpdate).
ApplyIsFaithful ==
    TypeOK /\ Converged /\ ReapplyIsNoop /\ PatchHoldsValues /\ RejectsChangesOnly

===========================================================================
