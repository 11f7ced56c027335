----------------------- MODULE ResourceUpdateGenerator -----------------------
(***************************************************************************)
(* From a forma and the inventory to the updates of a command:             *)
(* resource_update_generator.go, resource_update_factory.go and the        *)
(* comparison of resource_comparison.go.                                   *)
(*                                                                         *)
(* A resource is [stack, label, target, val, fixed, once, managed]: label  *)
(* stands for label and type, val for the properties an update can change, *)
(* fixed for the create-only ones, and once says that val is set once.     *)
(* KSUIDs belong to triplets, here <<stack, label>>. An update is          *)
(* [op, r, old, group], a list of updates a sequence: one resource may be  *)
(* in it several times.                                                    *)
(***************************************************************************)
EXTENDS Naturals, Sequences, SequencesExt, FiniteSets

CONSTANTS Refs,        \* label -> the URIs its properties refer to
          Incomplete   \* the labels without all fields required on create

Unmanaged == "$unmanaged"

URI(r) == <<r.stack, r.label>>
InStack(rs, s) == {r \in rs : r.stack = s}
Stacks(rs) == {r.stack : r \in rs}
SeqFlat(f(_), seq) == FlattenSeq([i \in DOMAIN seq |-> f(seq[i])])

-----------------------------------------------------------------------------
NewResourceUpdateForDestroy(r) == [op |-> "delete", r |-> r, old |-> r, group |-> FALSE]
NewResourceUpdateForCreate(r) ==
    [op |-> "create", r |-> [r EXCEPT !.managed = TRUE], old |-> r, group |-> FALSE]
NewResourceUpdateForSync(r) == [op |-> "read", r |-> r, old |-> r, group |-> FALSE]

NewResourceUpdateForReplace(old, new) ==
    << [NewResourceUpdateForDestroy(old) EXCEPT !.group = TRUE],
       [NewResourceUpdateForCreate(new) EXCEPT !.group = TRUE] >>

\* filterSetOnceProps: the existing value is kept.
Filtered(old, new) == IF new.once THEN [new EXCEPT !.val = old.val] ELSE new

\* Only the properties are compared. A replacement takes the new resource as
\* it is in the forma.
NewResourceUpdateForExisting(old, new) ==
    LET filtered == Filtered(old, new)
    IN  CASE filtered.val = old.val /\ filtered.fixed = old.fixed -> <<>>
          [] filtered.fixed # old.fixed -> NewResourceUpdateForReplace(old, new)
          [] OTHER -> << [op |-> "update", r |-> [filtered EXCEPT !.managed = TRUE],
                          old |-> old, group |-> FALSE] >>

-----------------------------------------------------------------------------
\* findResourcesThatDependOn
DependOn(r, inv) == {d \in inv : URI(d) # URI(r) /\ URI(r) \in Refs[d.label]}

Has(updates, uri, ops) == \E i \in DOMAIN updates : URI(updates[i].r) = uri /\ updates[i].op \in ops

\* The direct dependents of what is deleted, each time one is found.
findDependencyUpdates(deletes, inv) ==
    SeqFlat(LAMBDA u :
        SetToSeq({NewResourceUpdateForDestroy(d) : d \in
            {d \in (IF u.op = "delete" THEN DependOn(u.r, inv) ELSE {}) :
                ~Has(deletes, URI(d), {"create", "delete", "update"})}}),
        deletes)

\* Mutant: dependents are deleted although the forma has them.
NotConverted(updates, depDeletes, forma) == depDeletes

\* What the forma has and nothing else touches is replaced, not deleted.
convertDependencyDeletesToReplacements(updates, depDeletes, forma) ==
    LET Converted(d) == /\ \E r \in forma : URI(r) = URI(d.r)
                        /\ ~Has(updates, URI(d.r), {"update", "create"})
    IN  SeqFlat(LAMBDA d :
            IF Converted(d)
            THEN NewResourceUpdateForReplace(d.r, CHOOSE r \in forma : URI(r) = URI(d.r))
            ELSE <<>>, depDeletes)
        \o SelectSeq(depDeletes, LAMBDA d : ~Converted(d))

\* Mutant: the deletes of dependents are only added.
OnlyAdded(updates, depDeletes) == updates \o depDeletes

\* An update of a dependent becomes its replacement; the dependents that are
\* not deleted yet follow.
convertUpdatesToReplacementsForDependencies(updates, depDeletes) ==
    LET final == SeqFlat(LAMBDA u :
                     IF u.op = "update" /\ Has(depDeletes, URI(u.r), {"delete"})
                     THEN NewResourceUpdateForReplace(u.old, u.r) ELSE <<u>>, updates)
    IN  final \o SetToSeq({d \in {depDeletes[i] : i \in DOMAIN depDeletes} :
                               ~Has(final, URI(d.r), {"delete"})})

-----------------------------------------------------------------------------
\* findUnmanagedResource: at most one has the label and the type.
findUnmanagedResource(r, inv) == {u \in InStack(inv, Unmanaged) : u.label = r.label}

Each(set, f(_)) == FoldSet(LAMBDA x, updates : f(x) \o updates, <<>>, set)
Ops(updates, ops) == SelectSeq(updates, LAMBDA u : u.op \in ops)

SameResource(old, new) == old.label = new.label /\ old.target = new.target

\* The new resources of stacks that do not exist yet, those of stacks that do,
\* and what is in these stacks already.
InNewStacks(forma, inv) == {r \in forma : InStack(inv, r.stack) = {}}
InOldStacks(forma, inv) == forma \ InNewStacks(forma, inv)
Existing(forma, inv) == {r \in inv : r.stack \in Stacks(forma)}

generateResourceUpdatesForReconcile(forma, inv) ==
    LET adopted == Each(InNewStacks(forma, inv), LAMBDA new :
                       Each(findUnmanagedResource(new, inv), LAMBDA old :
                           NewResourceUpdateForExisting(old, new)))
        changed == Each(Existing(forma, inv), LAMBDA old :
                       Each({new \in InStack(forma, old.stack) : SameResource(old, new)}, LAMBDA new :
                           NewResourceUpdateForExisting(old, new)))
        creates == Each({new \in InNewStacks(forma, inv) : findUnmanagedResource(new, inv) = {}} \cup
                        {new \in InOldStacks(forma, inv) :
                            \A old \in InStack(inv, new.stack) : ~SameResource(old, new)},
                        LAMBDA new : <<NewResourceUpdateForCreate(new)>>)
        deletes == Each({old \in Existing(forma, inv) :
                            \A new \in InStack(forma, old.stack) : ~SameResource(old, new)},
                        LAMBDA old : <<NewResourceUpdateForDestroy(old)>>)
        replaces == Ops(changed, {"create", "delete"})
        dependents == findDependencyUpdates(replaces \o deletes, inv)
        all == creates \o replaces \o adopted \o Ops(changed, {"update"}) \o deletes
    IN  convertUpdatesToReplacementsForDependencies(
            all \o convertDependencyDeletesToReplacements(all, dependents, forma), dependents)

\* The first existing resource with the label and the type counts: those of
\* the stack come before the unmanaged ones.
PatchMatch(new, inv) ==
    LET own == {old \in InStack(inv, new.stack) : old.label = new.label}
    IN  CASE InStack(inv, new.stack) = {} -> {}
          [] InStack(inv, new.stack) # {} /\ own # {} -> own
          [] OTHER -> findUnmanagedResource(new, inv)

generateResourceUpdatesForPatch(forma, inv) ==
    LET changed == Each(forma, LAMBDA new : Each(PatchMatch(new, inv), LAMBDA old :
                       NewResourceUpdateForExisting(old, new)))
        creates == Each({new \in forma : PatchMatch(new, inv) = {}}, LAMBDA new :
                       <<NewResourceUpdateForCreate(new)>>)
        replaces == Ops(changed, {"create", "delete"})
    IN  convertUpdatesToReplacementsForDependencies(
            creates \o Ops(changed, {"update"}) \o replaces, findDependencyUpdates(replaces, inv))

Matched(forma, inv) == {old \in inv : \E r \in forma : URI(r) = URI(old)}
generateResourceUpdatesForDestroy(forma, inv) ==
    Each(Matched(forma, inv), LAMBDA old : <<NewResourceUpdateForDestroy(old)>>)

\* A stack that is gone is a nil pointer here.
SyncPanics(forma, inv) == Stacks(forma) \ Stacks(inv) # {}
generateResourceUpdatesForSync(forma, inv) ==
    Each(Matched(forma, inv), LAMBDA old : <<NewResourceUpdateForSync(old)>>)

\* validateStackReferences; stacks are those the forma declares.
validateStackReferences(forma, stacks, inv) == Stacks(forma) \subseteq stacks \cup Stacks(inv)

\* NewResourceUpdateForCreate refuses a resource without a required field;
\* one that is created in place of another is not looked at.
Refused(updates) ==
    \E i \in DOMAIN updates : updates[i].op = "create" /\ ~updates[i].group
                                  /\ updates[i].r.label \in Incomplete

=============================================================================
