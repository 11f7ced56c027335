------------------------- MODULE PropertyDocument -------------------------
(***************************************************************************)
(* The documents that hold a resource's properties, and what the resolver, *)
(* the merge of a plugin's answer and the transformation before storage do *)
(* to them.                                                                *)
(*                                                                         *)
(* A document is a function from paths to properties.  A property is a     *)
(* plain JSON value, a value object ({"$value", "$visibility",             *)
(* "$strategy"}) or a reference object, which also has a "$ref".  A JSON   *)
(* value is a type ("str", "num", or the "hash" of a value) and what it    *)
(* spells; a URI is a resource and the path of one of its properties.      *)
(* Nesting is in the paths, of which Nested lead into another property;    *)
(* arrays are left out.                                                    *)
(***************************************************************************)
EXTENDS Integers, FiniteSets, Sequences

CONSTANTS PathOrder,    \* the paths, in the order of the JSON text
          Nested        \* those of properties within a property

ASSUME PathOrderAssumption ==
    /\ Len(PathOrder) \in Nat
    /\ \A i, j \in 1 .. Len(PathOrder) : PathOrder[i] = PathOrder[j] => i = j

None == << >>           \* no "$value", no "$ref", or a JSON null
Empty == [p \in {} |-> p]
Blank == ""             \* what the string of a null spells

Before(p, q) ==
    \E i, j \in 1 .. Len(PathOrder) : i < j /\ PathOrder[i] = p /\ PathOrder[j] = q

Property(kind, ref, val, vis, strat) ==
    [kind |-> kind, ref |-> ref, val |-> val, vis |-> vis, strat |-> strat]
Plain(val) == Property("plain", None, val, "", "")
Value(val, vis, strat) == Property("value", None, val, vis, strat)
Ref(uri, val, vis, strat) == Property("ref", uri, val, vis, strat)

IsProperty(x) ==
    /\ x = Property(x.kind, x.ref, x.val, x.vis, x.strat)
    /\ x.kind \in {"plain", "value", "ref"} /\ (x.kind = "plain" => x.vis = "")
Document(doc) == doc = [p \in DOMAIN doc |-> doc[p]] /\ \A p \in DOMAIN doc : IsProperty(doc[p])

\* gjson's Result.String of a JSON value (of null, the empty string), and
\* Value.Hash (which hashes the string) with the transformer's isAlreadyHashed.
String(val) ==
    CASE val = None -> <<"str", Blank>>
      [] val # None /\ val[1] = "num" -> <<"str", val[2]>>
      [] OTHER -> val
Hash(val) == IF val = None THEN None ELSE <<"hash", val[2]>>

---------------------------------------------------------------------------
(* resolver.go *)

RefPaths(doc) == {p \in DOMAIN doc : doc[p].kind = "ref"}

\* A document that refers to each property once.
RefersOnce(doc) == \A p, q \in RefPaths(doc) : doc[p].ref = doc[q].ref => p = q

\* getResolvableURIs: the keys of the resolver's map.
ExtractResolvableURIs(doc) == {doc[p].ref : p \in RefPaths(doc)}

\* extractFromJson: the map from a URI to the one path it is kept for, the last
\* that refers to it.
Refs(doc) ==
    [u \in ExtractResolvableURIs(doc) |->
        CHOOSE p \in RefPaths(doc) :
            /\ doc[p].ref = u
            /\ ~\E q \in RefPaths(doc) : doc[q].ref = u /\ Before(p, q)]

\* Mutant: a visibility of its own comes before that of the answer.
SetRefValueForgets(prop, answer) ==
    [prop EXCEPT !.val = String(answer.val),
                 !.vis = IF prop.vis # "" THEN prop.vis ELSE answer.vis]

\* setRefValue for the one reference: the answer is a plain value, or the value
\* object of an opaque property.
SetRefValue(prop, answer) ==
    IF prop.strat = "SetOnce" /\ prop.val # None
    THEN prop
    ELSE [prop EXCEPT !.val = String(answer.val),
                      !.strat = IF prop.strat # "" THEN prop.strat ELSE answer.strat,
                      !.vis = IF answer.vis = "Opaque" THEN "Opaque" ELSE prop.vis]

\* resolveReferences writes the references of the map back to their paths; only
\* the one that was set has changed.
ResolveReferences(doc, uri, prop) == [doc EXCEPT ![Refs(doc)[uri]] = prop]

\* ResolvePropertyReferences of a URI the document refers to.
ResolvePropertyReferences(uri, doc, answer) ==
    ResolveReferences(doc, uri, SetRefValue(doc[Refs(doc)[uri]], answer))

\* toPluginFormat: the references kept in the map and the value objects become
\* their values; everything else stays as it is.
ToPluginFormat(doc) ==
    [p \in DOMAIN doc |->
        IF /\ doc[p].val # None
           /\ doc[p].kind = "ref" => Refs(doc)[doc[p].ref] = p
        THEN Plain(doc[p].val)
        ELSE doc[p]]

\* ConvertToPluginFormat: what resolveReferences writes is there already.
ConvertToPluginFormat(doc) == ToPluginFormat(doc)

---------------------------------------------------------------------------
(* resource_update.go: mergeRefsPreservingUserRefs *)

\* preferNonNullValue: the user's value stands in for a null or an empty string.
PreferNonNullValue(userVal, pluginVal) ==
    IF userVal # None /\ pluginVal \in {None, <<"str", Blank>>} THEN userVal ELSE pluginVal

\* mergeValue of one property: a reference keeps its structure and takes the
\* plugin's value; the fields of a value object are not in the plugin's answer,
\* so that the user's stay; a plain value is the plugin's when it has one.
MergeProperty(p, user, plugin) ==
    CASE p \notin DOMAIN user -> plugin[p]
      [] p \in DOMAIN user /\ user[p].kind = "ref" ->
            [user[p] EXCEPT !.val = PreferNonNullValue(@,
                 IF p \in DOMAIN plugin THEN plugin[p].val ELSE None)]
      [] p \in DOMAIN user /\ user[p].kind = "value" -> user[p]
      [] OTHER -> IF p \in DOMAIN plugin THEN plugin[p] ELSE user[p]

MergeRefsPreservingUserRefs(user, plugin) ==
    [p \in DOMAIN user \cup DOMAIN plugin |-> MergeProperty(p, user, plugin)]

\* updateProperties: the plugin's answer split by the schema's fields.
SplitProperties(incoming, fields, user) ==
    LET Restricted(S) == [p \in DOMAIN incoming \cap S |-> incoming[p]]
    IN  [Properties |-> MergeRefsPreservingUserRefs(user, Restricted(fields)),
         ReadOnlyProperties |-> Restricted(DOMAIN incoming \ fields)]

---------------------------------------------------------------------------
(* transformations/persist_value_transformer.go *)

\* transformRawProps: every opaque value is replaced by its hash.
TransformRawProps(doc) ==
    [p \in DOMAIN doc |->
        IF doc[p].vis = "Opaque" THEN [doc[p] EXCEPT !.val = Hash(@)] ELSE doc[p]]

ApplyToResource(res) ==
    [res EXCEPT !.Properties = TransformRawProps(@),
                !.ReadOnlyProperties = TransformRawProps(@)]

---------------------------------------------------------------------------
(* changeset/resolve_cache.go *)

\* preserveRefMetadata: what a Read returned, with the properties that are
\* opaque in the stored resource wrapped as opaque values again.  It goes through
\* the top-level properties; one within another comes as the plugin returned it.
PreserveRefMetadata(original, read) ==
    [p \in DOMAIN read |->
        IF p \notin Nested /\ p \in DOMAIN original /\ original[p].vis = "Opaque"
        THEN Value(read[p].val, "Opaque", original[p].strat)
        ELSE read[p]]
===========================================================================
