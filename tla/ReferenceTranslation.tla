------------------------ MODULE ReferenceTranslation ------------------------
(***************************************************************************)
(* References between resources, which a forma writes with the triplet of  *)
(* stack, label and type ({"$res": true}) and the inventory keeps with the *)
(* KSUID ({"$ref": "formae://ksuid#/property"}).  An apply translates them *)
(* in one direction (resource_update_generator.go), an extract in the      *)
(* other (metastructure.go); between the two, resources are created,       *)
(* deleted and created again, by several commands at once.                 *)
(*                                                                         *)
(* A key is <<stack, label>>, of one type.  A document is a function from  *)
(* paths to what is there: a reference in one of the two forms, or a plain *)
(* value; a path in ArrayPaths is in an array.  The value of a reference   *)
(* is left out: an apply drops it, and the resolver sets it anew           *)
(* (PropertyLifecycle).                                                    *)
(***************************************************************************)
EXTENDS DatastoreTables

CONSTANTS Formas,        \* documents by key, as users write them
          ArrayPaths,
          MaxCommands, MaxDeletions

ASSUME TranslationAssumption == MaxCommands \in Nat /\ MaxDeletions \in Nat

VARIABLES rows,          \* the table of resources
          pending,       \* updates that are not yet stored
          extracted,     \* the forma of the last extract
          meant,         \* KSUID -> path -> the key the user wrote, of what is stored
          issued,        \* KSUIDs
          commands, deletions

vars == <<rows, pending, extracted, meant, issued, commands, deletions>>

SQL == INSTANCE DatastoreSQLite

Res(key, property) == [kind |-> "res", to |-> key, property |-> property]
Ref(uri, property) == [kind |-> "ref", to |-> uri, property |-> property]
Plain == [kind |-> "plain"]
ResPaths(doc) == {p \in DOMAIN doc : doc[p].kind = "res"}
RefPaths(doc) == {p \in DOMAIN doc : doc[p].kind = "ref"}

Triplet(key) == [stack |-> key[1], label |-> key[2], type |-> "T"]
Key(t) == <<t.stack, t.label>>
Live == SQL!LoadAllResources(rows)

Init ==
    /\ rows = {} /\ pending = {} /\ issued = 0 /\ commands = 0 /\ deletions = 0
    /\ extracted = [k \in {} |-> k] /\ meant = [u \in {} |-> u]

-----------------------------------------------------------------------------
(* Applying *)

Numbered(keys) ==
    CHOOSE f \in [keys -> (issued + 1) .. (issued + Cardinality(keys))] :
        \A k, l \in keys : f[k] = f[l] => k = l

\* Mutant: only resources that exist keep their KSUID.
ForgetsDeleted(keys) ==
    LET known == {k \in keys : \E r \in Live : Key(r) = k}
    IN  [k \in keys |-> IF k \in known THEN SQL!BatchGetKSUIDsByTriplets(rows, Triplet(k))
                                       ELSE Numbered(keys \ known)[k]]

\* assignKSUIDs: the KSUID the triplet has, or had before it was deleted, or a
\* new one.
assignKSUIDs(keys) ==
    LET known == {k \in keys : SQL!BatchGetKSUIDsByTriplets(rows, Triplet(k)) # NoURI}
    IN  [k \in keys |-> IF k \in known THEN SQL!BatchGetKSUIDsByTriplets(rows, Triplet(k))
                                       ELSE Numbered(keys \ known)[k]]

\* translatePropertiesJSON of one property: the forma's own resources first,
\* then the datastore; what neither knows is left as it is, with a warning.
translateProperty(prop, ids) ==
    IF prop.kind # "res" THEN prop
    ELSE LET uri == IF prop.to \in DOMAIN ids THEN ids[prop.to]
                    ELSE SQL!GetKSUIDByTriplet(rows, Triplet(prop.to))
         IN  IF uri = NoURI THEN prop ELSE Ref(uri, prop.property)

translateFormaeReferencesToKsuid(forma) ==
    LET ids == assignKSUIDs(DOMAIN forma)
    IN  [k \in DOMAIN forma |->
            [uri |-> ids[k], doc |-> [p \in DOMAIN forma[k] |-> translateProperty(forma[k][p], ids)]]]

\* ApplyForma, for formas whose stacks no other command is working on.
ApplyForma(forma) ==
    LET new == translateFormaeReferencesToKsuid(forma)
        Busy == {i.key[1] : i \in pending}
    IN  /\ commands < MaxCommands
        /\ \A k \in DOMAIN forma : k[1] \notin Busy
        /\ commands' = commands + 1
        /\ pending' = pending \cup
               {[cmd |-> commands', key |-> k, uri |-> new[k].uri, doc |-> new[k].doc,
                 meant |-> [p \in ResPaths(forma[k]) |-> forma[k][p].to]] : k \in DOMAIN forma}
        /\ issued' = CHOOSE n \in issued .. (issued + Cardinality(DOMAIN forma)) :
                        \A k \in DOMAIN forma :
                            new[k].uri <= n /\ (n > issued => \E l \in DOMAIN forma : new[l].uri = n)
        /\ UNCHANGED <<rows, extracted, meant, deletions>>

\* The changeset: an update waits for those of its command that it refers to.
Ready(i) ==
    \A j \in pending : j.cmd = i.cmd => \A p \in RefPaths(i.doc) : i.doc[p].to # j.uri

\* The merge with what the plugin returned keeps references, but an array is
\* the plugin's (mergeArray).
Merged(doc) == [p \in DOMAIN doc |-> IF p \in ArrayPaths THEN Plain ELSE doc[p]]

\* The update is executed and stored: an existing resource keeps its native
\* identifier, a new one gets its own.
Stored(i) ==
    LET old == {r \in Live : Key(r) = i.key}
    IN  [uri |-> i.uri, id |-> IF old = {} THEN NewVersion(rows) ELSE (CHOOSE r \in old : TRUE).id,
         type |-> "T", stack |-> i.key[1], label |-> i.key[2], target |-> "t",
         managed |-> TRUE, rw |-> Merged(i.doc), ro |-> ""]

Store(i) ==
    /\ i \in pending /\ Ready(i)
    /\ pending' = pending \ {i}
    /\ rows' = SQL!StoreResource(rows, Stored(i), NewVersion(rows)).rows
    /\ meant' = [u \in DOMAIN meant \cup {i.uri} |-> IF u = i.uri THEN i.meant ELSE meant[u]]
    /\ UNCHANGED <<extracted, issued, commands, deletions>>

\* An update of a command fails, and with it what has not been stored of it.
Fail(cmd) ==
    /\ \E i \in pending : i.cmd = cmd
    /\ pending' = {i \in pending : i.cmd # cmd}
    /\ UNCHANGED <<rows, extracted, meant, issued, commands, deletions>>

\* A resource is deleted: by a command, or outside and then missed by a sync.
Delete(r) ==
    /\ r \in Live /\ deletions < MaxDeletions
    /\ \A i \in pending : i.key[1] # r.stack
    /\ rows' = SQL!DeleteResource(rows, r, NewVersion(rows)).rows
    /\ deletions' = deletions + 1
    /\ UNCHANGED <<pending, extracted, meant, issued, commands>>

\* The resources that refer to one, by the URIs in the stored documents.
findResourcesThatDependOn(r) ==
    {s \in Live : Key(s) # Key(r) /\ \E p \in RefPaths(s.rw) : s.rw[p].to = r.uri}

-----------------------------------------------------------------------------
(* Extracting *)

extractKSUIDs(doc) == {doc[p].to : p \in RefPaths(doc)}

\* Mutant: a reference takes the label of any resource in the answer.
ReplaceAny(doc, triplets) ==
    [p \in DOMAIN doc |->
        IF p \in RefPaths(doc) /\ triplets # {}
        THEN Res(Key(CHOOSE t \in triplets : TRUE), doc[p].property) ELSE doc[p]]

\* replaceKSUIDs.
replaceKSUIDs(doc, triplets) ==
    [p \in DOMAIN doc |->
        IF p \notin RefPaths(doc) \/ ~\E t \in triplets : t.uri = doc[p].to
        THEN doc[p]
        ELSE Res(Key(CHOOSE t \in triplets : t.uri = doc[p].to), doc[p].property)]

\* ExtractResources and reverseTranslateKSUIDsToTriplets, of the resources a
\* query finds.
ExtractResources(resources) ==
    LET triplets == SQL!BatchGetTripletsByKSUIDs(rows, UNION {extractKSUIDs(r.rw) : r \in resources})
    IN  [k \in {Key(r) : r \in resources} |->
            replaceKSUIDs((CHOOSE r \in resources : Key(r) = k).rw, triplets)]

Extract(stack) ==
    /\ SQL!LoadStack(rows, stack) # {}
    /\ extracted' = ExtractResources(SQL!LoadStack(rows, stack))
    /\ UNCHANGED <<rows, pending, meant, issued, commands, deletions>>

Next ==
    \/ \E forma \in Formas \cup {extracted} : DOMAIN forma # {} /\ ApplyForma(forma)
    \/ \E i \in pending : Store(i)
    \/ \E cmd \in 1 .. commands : Fail(cmd)
    \/ \E r \in Live : Delete(r)
    \/ \E stack \in SQL!LoadAllStacks(rows) : Extract(stack)

Spec == Init /\ [][Next]_vars

-----------------------------------------------------------------------------
\* Rows and updates have KSUIDs that were issued; a stored reference is to one.
TypeOK ==
    /\ \A r \in rows : r.uri \in 1 .. issued /\ r.uri \in DOMAIN meant
    /\ \A i \in pending : i.uri \in 1 .. issued /\ i.cmd \in 1 .. commands
    /\ \A r \in Live : /\ DOMAIN meant[r.uri] \subseteq DOMAIN r.rw
                       /\ \A p \in RefPaths(r.rw) : r.rw[p].to \in 1 .. issued

\* A reference goes on to mean what the user wrote (translatePropertiesJSON):
\* whenever a resource of that stack and label exists, the KSUID in the
\* reference is that resource's, also when it was deleted and created again,
\* and when commands that create it failed.
ReferencesFollow ==
    \A r \in Live : \A p \in RefPaths(r.rw) :
        \A s \in Live : Key(s) = meant[r.uri][p] <=> s.uri = r.rw[p].to

\* What is extracted and applied again is what was stored (ExtractResources and
\* translateFormaeReferencesToKsuid): every resource keeps its KSUID and every
\* reference its URI, whatever part of the inventory is extracted.
ExtractComesBack ==
    \A resources \in SUBSET Live :
        LET again == translateFormaeReferencesToKsuid(ExtractResources(resources))
        IN  \A r \in resources :
                /\ again[Key(r)].uri = r.uri
                /\ \A p \in RefPaths(r.rw) : again[Key(r)].doc[p] = r.rw[p]

\* All resources that refer to one are found when it is deleted or replaced
\* (findResourcesThatDependOn): those whose forma named it when it was known,
\* unless they do so in an array, where the merge has dropped the reference.
DependentsAreFound ==
    \A r, s \in Live :
        (\E p \in DOMAIN meant[s.uri] \ ArrayPaths :
              meant[s.uri][p] = Key(r) /\ s.rw[p].kind # "res")
            => Key(r) = Key(s) \/ s \in findResourcesThatDependOn(r)

\* References hold: they mean the resource the user named for as long as there
\* is one, and who refers to a resource is found when it goes
\* (translateFormaeReferencesToKsuid, findResourcesThatDependOn).
ReferencesHold == TypeOK /\ ReferencesFollow /\ DependentsAreFound

=============================================================================
