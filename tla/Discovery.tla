----------------------------- MODULE Discovery -----------------------------
(***************************************************************************)
(* The Discovery actor: internal/metastructure/discovery/discovery.go,     *)
(* with the list operation of plugin_operator.go.                          *)
(*                                                                         *)
(* A discovery lists the root resource types of every target, as fast as   *)
(* the RateLimiter allows, synchronizes what is new, and then lists the    *)
(* types nested in what it has synchronized. It is over when nothing is    *)
(* queued, listed or synchronized any more; that bookkeeping, kept up by   *)
(* messages of many actors, is what can go wrong.                          *)
(***************************************************************************)
EXTENDS RateLimiter, SequencesExt

CONSTANTS Targets,       \* DiscoveryConfig.ScanTargets: label -> namespace
          Descriptors,   \* type -> [namespace, discoverable, parents, mapped]
          TypesToDiscover, \* DiscoveryConfig.ResourceTypesToDiscover; {} is all
          Cloud,         \* resources: [id, type, targets, parent]
          Known,         \* identifiers that are in the inventory at the start
          Filtered,      \* identifiers a Read finds but nothing stores: the
                         \* plugin's ResourceFilters match, or a required
                         \* field is missing
          CommandIDs, MaxForces,
          MaxFailures,   \* bound on failing calls, of the plugin's List too
          Repeats        \* bound on scheduled discoveries after the first

VARIABLES discState, isScheduled,
          roots,         \* resourceDescriptorRoots: type -> nested types
          queued,        \* queuedListOperations: namespace -> operations
          listing,       \* outstandingListOperations
          syncing,       \* outstandingSyncCommands: command -> operation
          recent,        \* recentlyDiscoveredResourceIDs
          inbox,
          resumeTimers,  \* pending ResumeScanning timers
          discoverTimers,
          operators,     \* plugin operators at work: namespace -> operations
          executors,     \* running sync commands -> resources
          hung,          \* sync commands with an updater that will not report
          inventory,     \* identifiers in the datastore
          synced,        \* identifiers -> sync commands made for them
          failures, forces, repeats

listVars == <<roots, queued, listing, resumeTimers>>
discVars == <<discState, isScheduled, roots, queued, listing, syncing, recent, inbox,
              resumeTimers, discoverTimers, operators, executors, hung, inventory, synced,
              failures, forces, repeats>>
vars == <<discVars, limiterVars>>

None == "none"
Types == DOMAIN Descriptors
IDs == {r.id : r \in Cloud}
Operation(type, target, params) == [type |-> type, target |-> target, params |-> params]
Operations == [type : Types, target : DOMAIN Targets, params : IDs \cup {None}]

\* The sets of the configuration are finite, what is known is in the cloud, and
\* no command has the empty identity.
ASSUME DiscoveryAssumption ==
    /\ IsFiniteSet(Types) /\ IsFiniteSet(DOMAIN Targets) /\ IsFiniteSet(Cloud)
    /\ Known \subseteq IDs /\ Filtered \subseteq IDs /\ None \notin CommandIDs

Discover(once) == [type |-> "Discover", once |-> once]
ResumeScanning == [type |-> "ResumeScanning"]
Listing(op, error, ids) == [type |-> "Listing", op |-> op, error |-> error, ids |-> ids]
ChangesetCompleted(id, ok) == [type |-> "ChangesetCompleted", id |-> id, ok |-> ok]

HasPlugin(ns) == ns \in Namespaces

\* constructParentResourceDescriptors over the types of a namespace that are
\* to be discovered: the discoverable types without parents, each with the
\* discoverable types that name it as a parent.
Supported(ns) == {t \in Types : /\ Descriptors[t].namespace = ns
                                /\ TypesToDiscover = {} \/ t \in TypesToDiscover}

\* Mutant: nested types are not attached to their parents.
RootsOnly(ns) ==
    [t \in {u \in Supported(ns) : Descriptors[u].discoverable /\ Descriptors[u].parents = {}} |-> {}]

Roots(ns) ==
    LET found == {t \in Supported(ns) : Descriptors[t].discoverable}
    IN  [t \in {u \in found : Descriptors[u].parents = {}} |->
            {n \in found : t \in Descriptors[n].parents}]

\* Mutant: only what is in the inventory counts as known.
InInventory(id) == id \in inventory

resourceExists(id) == id \in recent \/ id \in inventory

HasOutstandingWork(q, l, s) == DOMAIN q # {} \/ l # {} \/ DOMAIN s # {}

FirstMessages == <<Discover(FALSE)>>
NoOperators == [ns \in Namespaces |-> <<>>]

Init ==
    /\ InitLimiter
    /\ discState = "idle" /\ isScheduled = FALSE
    /\ roots = <<>> /\ queued = <<>> /\ listing = {} /\ syncing = <<>>
    /\ recent = {}
    /\ inbox = FirstMessages
    /\ resumeTimers = 0 /\ discoverTimers = 0
    /\ operators = NoOperators /\ executors = <<>> /\ hung = {}
    /\ inventory = Known
    /\ synced = [id \in IDs |-> 0]
    /\ failures = 0 /\ forces = 0 /\ repeats = 0

Receives(m) == inbox # <<>> /\ Head(inbox) = m
Pending(m) == \E i \in DOMAIN inbox : inbox[i] = m

\* The state machine goes to newState; onStateChange schedules the next
\* discovery when a scheduled one ends. repeats caps the model's rounds.
Goto(newState) ==
    /\ discState' = newState
    /\ discoverTimers' = discoverTimers +
          (IF discState = "discovering" /\ newState = "idle" /\ isScheduled THEN 1 ELSE 0)

\* The process ends with an error and its supervisor starts it again: its
\* data, mailbox and timers are gone, answers to it too; syncs run on.
Restart ==
    /\ discState' = "idle" /\ isScheduled' = FALSE
    /\ roots' = <<>> /\ queued' = <<>> /\ listing' = {} /\ syncing' = <<>>
    /\ recent' = {}
    /\ inbox' = FirstMessages
    /\ resumeTimers' = 0 /\ discoverTimers' = 0
    /\ operators' = NoOperators
    /\ executors' = [c \in DOMAIN executors |-> [executors[c] EXCEPT !.mine = FALSE]]

CallFails == failures < MaxFailures /\ failures' = failures + 1

-----------------------------------------------------------------------------
\* discover while a discovery is running.
DiscoverAgain(once) ==
    /\ discState = "discovering"
    /\ Receives(Discover(once))
    /\ isScheduled' = ~once
    /\ inbox' = Tail(inbox)
    /\ UNCHANGED <<discState, discoverTimers, listVars, syncing, recent, operators, executors,
                   inventory, synced, failures, forces, repeats, hung, limiterVars>>

Scannable == {t \in DOMAIN Targets : HasPlugin(Targets[t])}
RootOperations(ns) ==
    {Operation(type, target, None) : type \in DOMAIN Roots(ns),
                                     target \in {t \in Scannable : Targets[t] = ns}}

\* discover in idle. Targets and types are iterated in any order; the last
\* target leaves its descriptors in resourceDescriptorRoots.
StartDiscovery(once) ==
    /\ discState = "idle"
    /\ Receives(Discover(once))
    /\ isScheduled' = ~once
    /\ Goto("discovering")
    /\ IF Scannable = {} THEN UNCHANGED roots
       ELSE \E last \in Scannable : roots' = Roots(Targets[last])
    /\ LET busy == {ns \in Namespaces : RootOperations(ns) # {}} IN
       \E order \in [busy -> UNION {SetToSeqs(RootOperations(ns)) : ns \in busy}] :
          /\ \A ns \in busy : order[ns] \in SetToSeqs(RootOperations(ns))
          /\ queued' = [ns \in busy \cup DOMAIN queued |->
                          (IF ns \in DOMAIN queued THEN queued[ns] ELSE <<>>) \o
                          (IF ns \in busy THEN order[ns] ELSE <<>>)]
    /\ inbox' = Tail(inbox) \o [i \in 1..Cardinality(Scannable) |-> ResumeScanning]
    /\ UNCHANGED <<listing, resumeTimers, syncing, recent, operators, executors, inventory,
                   synced, failures, forces, repeats, hung, limiterVars>>

Taken(ns) == Granted(ns, Len(queued[ns]))
Scanned(ns) == SubSeq(queued[ns], 1, Taken(ns))
Short == {ns \in DOMAIN queued : Taken(ns) < Len(queued[ns])}

\* A scan that could not be finished is resumed after a second.
ResumeLater(short) == resumeTimers' = resumeTimers + (IF short # {} THEN 1 ELSE 0)

\* resumeScanning, with scanTargetForResourceType for every operation that
\* the tokens allow. At the first namespace of the map that is not done the
\* namespaces that are done but come later keep their empty queues.
Resume ==
    /\ discState = "discovering"
    /\ Receives(ResumeScanning)
    /\ listing' = listing \cup UNION {Range(Scanned(ns)) : ns \in DOMAIN queued}
    /\ operators' = [ns \in Namespaces |->
                       IF ns \in DOMAIN queued THEN operators[ns] \o Scanned(ns)
                                              ELSE operators[ns]]
    /\ \E deleted \in IF Short = {} THEN {DOMAIN queued} ELSE SUBSET (DOMAIN queued \ Short) :
          queued' = [ns \in DOMAIN queued \ deleted |->
                       SubSeq(queued[ns], Taken(ns) + 1, Len(queued[ns]))]
    /\ RequestTokens([ns \in DOMAIN queued |-> Len(queued[ns])])
    /\ ResumeLater(Short)
    /\ inbox' = Tail(inbox)
    /\ UNCHANGED <<discState, isScheduled, roots, syncing, recent, discoverTimers, executors,
                   inventory, synced, failures, forces, repeats, hung>>

\* A call of resumeScanning or of scanTargetForResourceType fails.
ResumeFails ==
    /\ discState = "discovering"
    /\ Receives(ResumeScanning)
    /\ CallFails
    /\ Restart
    /\ UNCHANGED <<inventory, synced, forces, repeats, hung, limiterVars>>

\* A message without a handler in idle ends the process: a ResumeScanning
\* timer that fires after the discovery is over, or a second listing of an
\* operation that was registered once.
Unhandled ==
    /\ discState = "idle"
    /\ inbox # <<>> /\ Head(inbox).type # "Discover"
    /\ Restart
    /\ UNCHANGED <<inventory, synced, failures, forces, repeats, hung, limiterVars>>

-----------------------------------------------------------------------------
\* What the plugin lists for an operation (external).
Answer(op) == {r.id : r \in {x \in Cloud : /\ x.type = op.type
                                           /\ op.target \in x.targets
                                           /\ op.params \in {None, x.parent}}}

\* list of plugin_operator.go: one answer per operation, an error included.
OperatorLists(ns, i) ==
    /\ LET op == operators[ns][i] IN
       \/ /\ inbox' = Append(inbox, Listing(op, FALSE, Answer(op)))
          /\ UNCHANGED failures
       \/ /\ CallFails
          /\ inbox' = Append(inbox, Listing(op, TRUE, {}))
    /\ operators' = [operators EXCEPT ![ns] = RemoveAt(@, i)]
    /\ UNCHANGED <<discState, isScheduled, listVars, syncing, recent, discoverTimers, executors,
                   inventory, synced, forces, repeats, hung, limiterVars>>

\* The operation of the listing is no longer outstanding.
Remaining(m) == listing \ {m.op}

\* Mutant: the end of the discovery is not noticed.
NeverIdle(q, l, s) == "discovering"

\* Mutant: queued operations are not waited for.
IdleTooEarly(q, l, s) == IF l = {} /\ DOMAIN s = {} THEN "idle" ELSE "discovering"

\* The state after a piece of work is done.
StateAfter(q, l, s) == IF HasOutstandingWork(q, l, s) THEN "discovering" ELSE "idle"

\* processListing of an error or of nothing new.
NothingNew(m) ==
    /\ discState = "discovering"
    /\ Receives(m) /\ m.type = "Listing"
    /\ m.error \/ \A id \in m.ids : resourceExists(id)
    /\ listing' = Remaining(m)
    /\ Goto(StateAfter(queued, listing', syncing))
    /\ inbox' = Tail(inbox)
    /\ UNCHANGED <<isScheduled, roots, queued, resumeTimers, syncing, recent, operators,
                   executors, inventory, synced, failures, forces, repeats, hung, limiterVars>>

New(m) == {id \in m.ids : ~resourceExists(id)}

\* processListing with new resources: synchronizeResources stores and starts
\* a sync command for them.
SyncNew(m) ==
    /\ discState = "discovering"
    /\ Receives(m) /\ m.type = "Listing" /\ ~m.error /\ New(m) # {}
    /\ listing' = Remaining(m)
    /\ recent' = recent \cup New(m)
    /\ \E c \in CommandIDs \ DOMAIN executors :
          /\ ~ \E i \in DOMAIN inbox : inbox[i].type = "ChangesetCompleted" /\ inbox[i].id = c
          /\ syncing' = [x \in DOMAIN syncing \cup {c} |-> IF x = c THEN m.op ELSE syncing[x]]
          /\ executors' = [x \in DOMAIN executors \cup {c} |->
                             IF x = c THEN [ids |-> New(m), mine |-> TRUE] ELSE executors[x]]
    /\ synced' = [id \in IDs |-> synced[id] + (IF id \in New(m) THEN 1 ELSE 0)]
    /\ inbox' = Tail(inbox)
    /\ Goto("discovering")
    /\ UNCHANGED <<isScheduled, roots, queued, resumeTimers, operators, inventory, failures,
                   forces, repeats, hung, limiterVars>>

\* The command could not be made or started. Unless this was the last piece
\* of work, its empty identity is registered as outstanding.
SyncNewFails(m) ==
    /\ discState = "discovering"
    /\ Receives(m) /\ m.type = "Listing" /\ ~m.error /\ New(m) # {}
    /\ CallFails
    /\ listing' = Remaining(m)
    /\ recent' = recent \cup New(m)
    /\ LET last == ~HasOutstandingWork(queued, listing', syncing) IN
          /\ syncing' = IF last THEN syncing
                        ELSE [x \in DOMAIN syncing \cup {None} |->
                                IF x = None THEN m.op ELSE syncing[x]]
          /\ Goto(IF last THEN "idle" ELSE "discovering")
    /\ inbox' = Tail(inbox)
    /\ UNCHANGED <<isScheduled, roots, queued, resumeTimers, operators, executors, inventory,
                   synced, forces, repeats, hung, limiterVars>>

-----------------------------------------------------------------------------
\* A Read fails in a way that leaves its updater without a handler: it will
\* not report, and the executor waits on.
ReadHangs(c) ==
    /\ c \in DOMAIN executors \ hung
    /\ CallFails
    /\ hung' = hung \cup {c}
    /\ UNCHANGED <<discState, isScheduled, listVars, syncing, recent, inbox, discoverTimers,
                   operators, executors, inventory, synced, forces, repeats, limiterVars>>

\* What an executor's Reads store if none of them fails.
Storable(c) == executors[c].ids \ Filtered

\* The executor of a sync command finishes. It reports success whatever
\* became of the single Reads; ok is FALSE if the executor itself failed.
ExecutorFinishes(c, ok) ==
    /\ c \in DOMAIN executors \ hung
    /\ \E stored \in SUBSET Storable(c) :
          /\ inventory' = inventory \cup stored
          /\ IF ok /\ stored = Storable(c) THEN UNCHANGED failures ELSE CallFails
    /\ inbox' = IF executors[c].mine THEN Append(inbox, ChangesetCompleted(c, ok)) ELSE inbox
    /\ executors' = [x \in DOMAIN executors \ {c} |-> executors[x]]
    /\ UNCHANGED <<discState, isScheduled, listVars, syncing, recent, discoverTimers, operators,
                   hung, synced, forces, repeats, limiterVars>>

\* The nested list operations of what the inventory holds of the type and
\* target; a parent without the mapping property gives no parameter.
Parents(op) == {r \in Cloud : /\ r.id \in inventory
                              /\ r.type = op.type /\ op.target \in r.targets}
Nested(op) ==
    IF op.type \notin DOMAIN roots THEN {}
    ELSE {[parent |-> r.id, type |-> t] : r \in Parents(op), t \in roots[op.type]}
NestedOperation(n, op) ==
    Operation(n.type, op.target, IF Descriptors[n.type].mapped THEN n.parent ELSE None)

\* syncCompleted.
SyncCompleted(c, ok) ==
    /\ discState = "discovering"
    /\ Receives(ChangesetCompleted(c, ok))
    /\ c \in DOMAIN syncing
    /\ LET op == syncing[c]
           rest == [x \in DOMAIN syncing \ {c} |-> syncing[x]]
           ns == Targets[op.target]
           stop == ~ok /\ ~HasOutstandingWork(queued, listing, rest)
           nested == IF stop THEN {} ELSE Nested(op)
       IN /\ syncing' = rest
          /\ \E order \in SetToSeqs(nested) :
                queued' = IF nested = {} THEN queued
                          ELSE [x \in DOMAIN queued \cup {ns} |->
                                  IF x # ns THEN queued[x]
                                  ELSE (IF ns \in DOMAIN queued THEN queued[ns] ELSE <<>>) \o
                                       [i \in DOMAIN order |-> NestedOperation(order[i], op)]]
          /\ inbox' = Tail(inbox) \o [i \in 1..Cardinality(nested) |-> ResumeScanning]
          /\ Goto(StateAfter(queued', listing, rest))
    /\ UNCHANGED <<isScheduled, roots, listing, resumeTimers, recent, operators, executors,
                   inventory, synced, failures, forces, repeats, hung, limiterVars>>

-----------------------------------------------------------------------------
ResumeTimerFires ==
    /\ resumeTimers > 0
    /\ resumeTimers' = resumeTimers - 1
    /\ inbox' = Append(inbox, ResumeScanning)
    /\ UNCHANGED <<discState, isScheduled, roots, queued, listing, syncing, recent,
                   discoverTimers, operators, executors, inventory, synced, failures, forces,
                   repeats, hung, limiterVars>>

DiscoverTimerFires ==
    /\ discoverTimers > 0 /\ repeats < Repeats
    /\ repeats' = repeats + 1
    /\ discoverTimers' = discoverTimers - 1
    /\ inbox' = Append(inbox, Discover(FALSE))
    /\ UNCHANGED <<discState, isScheduled, listVars, syncing, recent, operators, executors,
                   inventory, synced, failures, forces, hung, limiterVars>>

\* Metastructure.ForceDiscovery.
ForceDiscovery ==
    /\ forces < MaxForces
    /\ forces' = forces + 1
    /\ inbox' = Append(inbox, Discover(TRUE))
    /\ UNCHANGED <<discState, isScheduled, listVars, syncing, recent, discoverTimers, operators,
                   executors, inventory, synced, failures, repeats, hung, limiterVars>>

\* A second passes for the rate limiter.
Second == SecondPasses /\ UNCHANGED discVars

Handle == \/ \E once \in BOOLEAN : DiscoverAgain(once) \/ StartDiscovery(once)
          \/ Resume
          \/ ResumeFails
          \/ Unhandled
          \/ inbox # <<>> /\ \/ NothingNew(Head(inbox))
                             \/ SyncNew(Head(inbox))
                             \/ SyncNewFails(Head(inbox))
          \/ \E c \in CommandIDs, ok \in BOOLEAN : SyncCompleted(c, ok)

Next == \/ Handle
        \/ \E ns \in Namespaces : \E i \in DOMAIN operators[ns] : OperatorLists(ns, i)
        \/ \E c \in CommandIDs, ok \in BOOLEAN : ExecutorFinishes(c, ok)
        \/ \E c \in CommandIDs : ReadHangs(c)
        \/ ResumeTimerFires
        \/ DiscoverTimerFires
        \/ ForceDiscovery
        \/ Second

Spec == Init /\ [][Next]_vars

\* Messages are handled, timers fire, time passes, plugins answer and
\* executors finish if all their updaters report.
FairSpec == /\ Spec
            /\ WF_vars(Handle)
            /\ WF_vars(\E ns \in Namespaces : \E i \in DOMAIN operators[ns] : OperatorLists(ns, i))
            /\ WF_vars(\E c \in CommandIDs, ok \in BOOLEAN : ExecutorFinishes(c, ok))
            /\ WF_vars(ResumeTimerFires) /\ WF_vars(DiscoverTimerFires)
            /\ WF_vars(Second)

-----------------------------------------------------------------------------
TypeOK ==
    /\ LimiterTypeOK
    /\ discState \in {"idle", "discovering"} /\ isScheduled \in BOOLEAN
    /\ DOMAIN roots \subseteq Types
    /\ DOMAIN queued \subseteq Namespaces
    /\ \A ns \in DOMAIN queued : queued[ns] \in Seq(Operations)
    /\ listing \subseteq Operations
    /\ DOMAIN syncing \subseteq CommandIDs \cup {None}
    /\ recent \subseteq IDs /\ inventory \subseteq IDs
    /\ operators \in [Namespaces -> Seq(Operations)]
    /\ DOMAIN executors \subseteq CommandIDs /\ hung \subseteq CommandIDs
    /\ resumeTimers \in Nat /\ discoverTimers \in Nat

\* What is queued is not forgotten: while list operations are queued, a
\* ResumeScanning is on its way.
QueueIsResumed == DOMAIN queued # {} => resumeTimers > 0 \/ Pending(ResumeScanning)

\* List operations tell the parents apart: every nested type is listed by a
\* property of its parent, and an identifier names resources of one type.
\* Otherwise one operation is queued several times and registered once.
ParentsTold ==
    /\ \A t \in Types : Descriptors[t].parents # {} => Descriptors[t].mapped
    /\ \A r, s \in Cloud : r.id = s.id => r.type = s.type

\* A discovery ends only when its work is done: in idle no operation is
\* queued or registered, no sync is awaited, and no plugin is still listing
\* unless one operation was registered for several.
IdleMeansDone ==
    discState = "idle" => /\ DOMAIN queued = {} /\ listing = {} /\ DOMAIN syncing = {}
                          /\ ParentsTold => operators = NoOperators

\* Resources seen in several targets: "we maintain a set of recently
\* discovered resources locally" so that none is synchronized twice, though the
\* first sync has not reached the datastore when the second listing comes.  A
\* resource that is never stored is known only until the actor starts again.
SynchronizedOnce == failures = 0 => \A id \in IDs \ Filtered : synced[id] <= 1

\* A piece of work that is registered has something at work on it that will
\* report: "remove the operation from remaining work on error". A sync that
\* could not be started breaks it with its empty identity, and nothing else.
WorkIsReal ==
    /\ \A op \in listing : \/ \E ns \in Namespaces : op \in Range(operators[ns])
                           \/ \E i \in DOMAIN inbox : inbox[i].type = "Listing" /\ inbox[i].op = op
    /\ \A c \in DOMAIN syncing :
          \/ c \in DOMAIN executors
          \/ \E i \in DOMAIN inbox : inbox[i].type = "ChangesetCompleted" /\ inbox[i].id = c
          \/ c = None /\ failures > 0

\* Neither the resource nor its parent is kept out of the inventory: what is
\* nested in a resource is listed when that one is stored.
Storing(r) == {r.id, r.parent} \cap Filtered = {}

\* Every discoverable resource of the targets reaches the inventory:
\* discovery will "scan all non block-listed targets for resources that are
\* marked as discoverable by the resource plugins". This is so of the ones no
\* filter keeps out (synchronizeResources hands on GetResourceFilters), if no
\* call fails and the targets are of one namespace: with several, the descriptors
\* of the last target replace the others'.
EventuallyDiscovered ==
    (\A t, u \in Scannable : Targets[t] = Targets[u])
        => \A r \in Cloud : Storing(r) => <>(failures > 0 \/ r.id \in inventory)

\* "On a configured interval": a discovery that found a target to scan always
\* ends, through failing calls and restarts, unless it awaits the empty
\* identity of a sync that could not be started, or a sync that hangs.
DiscoveryEnds ==
    Scannable # {} => \/ []<>(discState = "idle")
                      \/ <>[](None \in DOMAIN syncing)
                      \/ <>[](hung \cap DOMAIN syncing # {})

\* The books on outstanding work are right: what is queued will be resumed,
\* what is registered is worked on, and in idle nothing is left
\* (HasOutstandingWork, resumeScanning, processListing, syncCompleted).
WorkIsAccountedFor == TypeOK /\ QueueIsResumed /\ WorkIsReal /\ IdleMeansDone

=============================================================================
