------------------------------ MODULE Changeset ------------------------------
(***************************************************************************)
(* The pipeline of a changeset: internal/metastructure/changeset.          *)
(*                                                                         *)
(* A command is executed as a set of resource updates.  Every update       *)
(* becomes a group of one, groups are linked by the order the operations   *)
(* have to respect, and the executor repeatedly asks which updates may     *)
(* start and reports which ones finished.                                  *)
(*                                                                         *)
(* This module is the data structure and its operations, as operators on   *)
(* values; ChangesetExecutor is the actor that owns one.                   *)
(*                                                                         *)
(* A resource update is a record                                           *)
(*   uri   the stripped URI (KSUID) of its resource                        *)
(*   key   stack/label/type of its resource                                *)
(*   op    its operation                                                   *)
(*   ns    the namespace (plugin) of its resource                          *)
(*   deps  the stripped URIs in RemainingResolvables                       *)
(*   moved whether it is half of a move: a reconcile that finds the        *)
(*         resource in another target deletes it there and creates it in   *)
(*         the new one, and lists its creates before its implicit deletes  *)
(***************************************************************************)
EXTENDS Naturals, FiniteSets

\* The states of a resource update the changeset distinguishes.
States == {"NotStarted", "InProgress", "Success", "Failed", "Rejected"}

\* The states a group is popped in.
Terminal == {"Success", "Failed", "Rejected"}

-----------------------------------------------------------------------------
(***************************************************************************)
(* Building the pipeline.                                                  *)
(***************************************************************************)

\* A replace is executed as a delete followed by a create of the resource.
SplitReplace(updates) ==
    UNION { IF u.op = "replace"
              THEN {[u EXCEPT !.op = "delete"], [u EXCEPT !.op = "create"]}
              ELSE {u} : u \in updates }

IsCreateOrUpdate(u) == u.op \in {"create", "update"}

\* The groups of a pipeline are keyed by createOperationURI, the links by URI
\* and by key.  A command has at most one update per resource, or the delete
\* and the create that replace it.
WellFormed(ops) ==
    \A u, v \in ops : u # v =>
        /\ u.uri = v.uri => /\ u.key = v.key /\ u.moved = v.moved
                            /\ {u.op, v.op} = {"delete", "create"}
        /\ u.key = v.key => u.op # v.op

\* REVERSED: the delete of a resource waits for the deletes of the resources
\* that refer to it.
DeleteDependencies(ops, u) ==
    {d \in ops : u.op = "delete" /\ d.op = "delete" /\ u.uri \in d.deps}

\* NORMAL: a create or update waits for the create or update of every
\* resource it refers to.
CreateUpdateDependencies(ops, u) ==
    {d \in ops : IsCreateOrUpdate(u) /\ IsCreateOrUpdate(d) /\ d.uri \in u.deps}

\* Mutant: the halves of a replacement are not linked.
HalvesUnlinked(ops, u) == {}

\* The create half of a replacement waits for the delete half.
DeleteBeforeCreate(ops, u) ==
    {d \in ops : u.op = "create" /\ d.op = "delete" /\ d.key = u.key}

\* The UpstreamGroups of u once buildOperationRelationships has linked all.
Upstream(ops, u) ==
    DeleteDependencies(ops, u) \cup CreateUpdateDependencies(ops, u)
        \cup DeleteBeforeCreate(ops, u)

\* The DownstreamGroups of u, the converse of the links.  The list of a group
\* that is still in the pipeline never changes: UnlinkWith shortens only the
\* list of the group that is removed in the same call.
Downstream(ops, u) == {d \in ops : u \in Upstream(ops, d)}

\* Mutant: cycles are not looked for.
NoCycleCheck(ops) == FALSE

\* dfs: the groups from which the links downstream lead to one of those
\* visited; every branch of the walk has its own copy of what it visited.
dfs(ops) ==
    LET finds[visited \in SUBSET ops] ==
            {g \in ops : \/ g \in visited
                        \/ Downstream(ops, g) \cap finds[visited \cup {g}] # {}}
    IN  finds

\* It is called from every group.
HasCycles(ops) == dfs(ops)[{}] # {}

Pipelines(ops) ==
    [groups : SUBSET ops, upstream : [ops -> SUBSET ops],
     state : [ops -> States], tracked : SUBSET ops]

\* The pipeline ResourceUpdatePipeline.Init builds.
NewPipeline(ops) ==
    [ groups   |-> ops,
      upstream |-> [u \in ops |-> Upstream(ops, u)],
      state    |-> [u \in ops |-> "NotStarted"],
      tracked  |-> {} ]

-----------------------------------------------------------------------------
(***************************************************************************)
(* Starting updates.                                                       *)
(***************************************************************************)

\* Mutant: upstream groups are not consulted.
ExecutableEarly(p) == {u \in p.groups : p.state[u] = "NotStarted" /\ u \notin p.tracked}

\* Mutant: updates that have left the pipeline are found again.
ExecutableAgain(p) == {u \in DOMAIN p.state : p.state[u] # "InProgress" /\ p.upstream[u] = {}}

\* The updates GetExecutableUpdates and AvailableExecutableUpdates select.
Executable(p) ==
    {u \in p.groups : /\ p.state[u] = "NotStarted"
                      /\ p.upstream[u] = {}
                      /\ u \notin p.tracked}

\* AvailableExecutableUpdates, for one namespace.
Available(p, ns) == {u \in Executable(p) : u.ns = ns}

\* GetExecutableUpdates hands out the updates in S.
MarkStarted(p, S) ==
    [p EXCEPT !.state   = [u \in DOMAIN p.state |->
                             IF u \in S THEN "InProgress" ELSE p.state[u]],
              !.tracked = @ \cup S]

-----------------------------------------------------------------------------
(***************************************************************************)
(* Finishing updates.                                                      *)
(***************************************************************************)

\* Mutant: only the direct dependents are reached.
CascadeOnce(ops, p, u, S) ==
    \A d \in Downstream(ops, u) :
        d \in p.groups /\ p.state[d] = "NotStarted" => d \in S

\* S contains the NotStarted updates of u's downstream groups, and those of
\* the downstream groups of its own members.
CascadeClosed(ops, p, u, S) ==
    \A g \in S \cup {u} : \A d \in Downstream(ops, g) :
        d \in p.groups /\ p.state[d] = "NotStarted" => d \in S

\* recursivelyFailDependencies: what the failure of u reaches, the smallest
\* closed set.
Cascade(ops, p, u) ==
    {d \in p.groups : \A S \in SUBSET ops : CascadeClosed(ops, p, u, S) => d \in S}

\* Done groups leave the pipeline and the upstream lists of the others.
RemoveGroups(p, S) ==
    [p EXCEPT !.groups   = @ \ S,
              !.upstream = [d \in DOMAIN p.upstream |-> p.upstream[d] \ S]]

SetState(p, S, s) ==
    [p EXCEPT !.state = [u \in DOMAIN p.state |-> IF u \in S THEN s ELSE p.state[u]]]

\* Mutant: the groups of a cascade are dropped without marking their updates.
PipelineForgets(ops, p, u) ==
    IF p.state[u] = "Success" THEN RemoveGroups(p, {u})
    ELSE IF p.state[u] \in {"Failed", "Rejected"}
           THEN RemoveGroups(p, Cascade(ops, p, u) \cup {u})
           ELSE p

\* UpdatePipeline for an update whose reported state has been recorded; a
\* state that is not terminal changes nothing.
UpdatePipeline(ops, p, u) ==
    IF p.state[u] = "Success" THEN RemoveGroups(p, {u})
    ELSE IF p.state[u] \in {"Failed", "Rejected"}
           THEN RemoveGroups(SetState(p, Cascade(ops, p, u), "Failed"),
                             Cascade(ops, p, u) \cup {u})
           ELSE p

\* The updates UpdatePipeline returns, the failed one itself included.
CascadingFailures(ops, p, u) ==
    IF p.state[u] \in {"Failed", "Rejected"}
      THEN Cascade(ops, p, u) \cup {u}
      ELSE {}

\* No update is left that could still run.
IsComplete(p) == \A u \in p.groups : p.state[u] \in {"Failed", "Rejected"}

=============================================================================
