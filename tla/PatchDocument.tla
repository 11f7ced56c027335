-------------------------- MODULE PatchDocument ---------------------------
(***************************************************************************)
(* What an apply decides about a resource that exists: whether its         *)
(* document differs from the stored one, with which patch the provider is  *)
(* to change it, and whether it has to be replaced.  A patch is a set of   *)
(* operations on paths.                                                    *)
(***************************************************************************)
EXTENDS PropertyDocument

\* gjson's Result.String of a property: an object yields its JSON text.
StringOf(prop) == IF prop.kind = "plain" THEN String(prop.val) ELSE <<"json", prop.val>>

---------------------------------------------------------------------------
(* resolver/resolvable_properties.go: the stored values of what a document *)
(* refers to, the read-only property first.                                *)

Stored(res, path) ==
    IF path \in DOMAIN res.ReadOnlyProperties THEN res.ReadOnlyProperties[path]
                                              ELSE res.Properties[path]

Loadable(doc, stacks) ==
    \A uri \in ExtractResolvableURIs(doc) :
        /\ uri[1] \in DOMAIN stacks
        /\ uri[2] \in DOMAIN stacks[uri[1]].ReadOnlyProperties
                      \cup DOMAIN stacks[uri[1]].Properties

LoadResolvablePropertiesFromStacks(doc, stacks) ==
    [uri \in ExtractResolvableURIs(doc) |-> StringOf(Stored(stacks[uri[1]], uri[2]))]

---------------------------------------------------------------------------
(* resource_update/resource_comparison.go *)

\* shouldPreserveSetOnce.
ShouldPreserveSetOnce(new, p, existing) ==
    /\ new[p].kind # "plain" /\ new[p].strat = "SetOnce"
    /\ p \in DOMAIN existing /\ existing[p].val # None

FilterSetOnceProps(existing, new) ==
    [p \in DOMAIN new |->
        IF ShouldPreserveSetOnce(new, p, existing) THEN existing[p] ELSE new[p]]

\* Mutant: the clear document is compared.
ComparesClear(existing, filtered) == existing # filtered

\* The stored document holds hashes, so the new one is hashed to be compared.
HasChanges(existing, filtered) == existing # TransformRawProps(filtered)

---------------------------------------------------------------------------
(* patch/patch_document.go *)

\* resolveRefs and flattenRefs of the new document, flattenRefs of the old one.
ResolveRefs(doc, resolvable) ==
    [p \in DOMAIN doc |->
        IF doc[p].kind = "ref" THEN Plain(resolvable[doc[p].ref]) ELSE doc[p]]
FlattenRefs(doc) == [p \in DOMAIN doc |-> Plain(doc[p].val)]

HasValue(prop) == prop.val # None
RemoveNonSchemaFields(doc, fields) ==
    [p \in {f \in fields \cap DOMAIN doc : HasValue(doc[f])} |-> doc[p]]

Operation(op, path, val) == [op |-> op, path |-> path, val |-> val]

\* jsonpatch.CreatePatch: ExactMatch also removes what the new document lacks.
CreatePatch(current, mod, mode) ==
    {Operation("add", p, mod[p].val) : p \in DOMAIN mod \ DOMAIN current}
    \cup {Operation("replace", p, mod[p].val) :
            p \in {q \in DOMAIN mod \cap DOMAIN current : mod[q].val # current[q].val}}
    \cup {Operation("remove", p, None) :
            p \in IF mode = "reconcile" THEN DOMAIN current \ DOMAIN mod ELSE {}}

ContainsCreateOnlyFields(ops, createOnly) == \E o \in ops : o.path \in createOnly

GeneratePatch(document, patch, resolvable, fields, mode) ==
    CreatePatch(FlattenRefs(document),
                RemoveNonSchemaFields(FlattenRefs(ResolveRefs(patch, resolvable)), fields),
                mode)

---------------------------------------------------------------------------
(* resource_update/resource_update_factory.go *)

Decision(op, props, patch, remaining) ==
    [op |-> op, props |-> props, patch |-> patch, remaining |-> remaining]
NoUpdate == Decision("none", Empty, {}, {})

\* NewResourceUpdateForExisting.
NewResourceUpdateForExisting(existing, new, resolvable, fields, createOnly, mode) ==
    LET filtered == FilterSetOnceProps(existing, new)
        ops == GeneratePatch(ConvertToPluginFormat(existing), ConvertToPluginFormat(filtered),
                             resolvable, fields, mode)
    IN  IF ~HasChanges(existing, filtered) \/ ops = {}
        THEN NoUpdate
        ELSE IF ContainsCreateOnlyFields(ops, createOnly)
             THEN Decision("replace", new, {}, ExtractResolvableURIs(new))
             ELSE Decision("update", filtered, ops, ExtractResolvableURIs(new))
===========================================================================
