--------------------------- MODULE ResolveCache ---------------------------
(***************************************************************************)
(* How the updates of one changeset get the values they refer to: the      *)
(* executor starts an update once what it refers to is there, the update's *)
(* ResourceUpdater asks the command's ResolveCache for one value after the *)
(* other, and the cache answers from the properties it has Read once per   *)
(* resource.  The cache is an actor that blocks in its call to the         *)
(* PluginOperator; an updater that waits too long gives up, and its answer *)
(* comes when it is gone.  Then the cache may end with the error of that   *)
(* Send, to be started again, and who asks it meanwhile ends likewise.     *)
(* The updates are creates; of the other parts of a ResourceUpdater the    *)
(* modules ResourceUpdater and ChangesetExecutor speak.                    *)
(***************************************************************************)
EXTENDS PropertyDocument

CONSTANTS Resources,
          Formas,       \* the commands: each a function from new resources to documents
          Existing,     \* the rows of the resources that are there already
          Fields,       \* the fields of the schema; other properties are read-only
          Secrets,      \* what the opaque values spell
          MaxFaults,    \* failed Reads, calls and creates
          MaxChanges,   \* changes made outside of formae
          SendErrors    \* values of sendErrors

ASSUME ResolveAssumption ==
    /\ MaxFaults \in Nat /\ MaxChanges \in Nat /\ SendErrors \subseteq BOOLEAN
    /\ \A f \in Formas : DOMAIN f \subseteq Resources \ DOMAIN Existing

\* Secrets are what opaque properties of documents spell, and nothing else does.
Spells(prop, S) == prop.val # None /\ prop.val[2] \in S
Guarded(doc) == \A p \in DOMAIN doc : Spells(doc[p], Secrets) => doc[p].vis = "Opaque"

ASSUME DocumentsAssumption ==
    /\ \A f \in Formas : \A r \in DOMAIN f : Document(f[r]) /\ Guarded(f[r])
    /\ \A r \in DOMAIN Existing :
          LET Properties == Existing[r].Properties
              ReadOnly == Existing[r].ReadOnlyProperties
          IN  /\ Existing[r] = [Properties |-> Properties, ReadOnlyProperties |-> ReadOnly]
              /\ Document(Properties) /\ Guarded(Properties)
              /\ Document(ReadOnly) /\ \A p \in DOMAIN ReadOnly : ~Spells(ReadOnly[p], Secrets)
    /\ (Resources \cup {"changed", Blank}) \cap Secrets = {}

\* The provider's identifier is a read-only property.
ASSUME IdentifierAssumption == "id" \notin Fields

VARIABLES sendErrors,   \* Send reports a receiver that has ended
          wanted,       \* the resources of the command and their documents
          updater,      \* the ResourceUpdater of each update
          inbox,        \* the answer in an updater's mailbox
          mailbox,      \* the mailbox of the ResolveCache
          phase,        \* what the ResolveCache is doing
          cache,        \* its documents, by resource
          life,         \* how often it has ended with an error
          row,          \* the stored resources
          world,        \* the properties at the provider
          faults, changes,
          answers       \* what the cache has answered, in each of its lives

cacheVars == <<mailbox, phase, cache, life, answers>>
vars == <<sendErrors, wanted, updater, inbox, cacheVars, row, world, faults, changes>>

Updates == DOMAIN wanted
Final == {"success", "failed"}
NoAnswer == [found |-> FALSE, answer |-> Plain(None)]
Shutdown == [from |-> "executor", uri |-> None]

\* The executor's last act: once every update is final the cache gets its
\* Shutdown, if it is up.
WithShutdown(next, queue) ==
    IF phase # "down" /\ \A u \in Updates : next[u].state \in Final
    THEN Append(queue, Shutdown) ELSE queue

\* What the provider reports of a resource: plain values and its identifier.
Wire(u) == ConvertToPluginFormat(updater[u].props)
Created(u) == [p \in DOMAIN Wire(u) \cup {"id"} |->
                  IF p = "id" THEN Plain(<<"str", u>>) ELSE Wire(u)[p]]

Init ==
    /\ sendErrors \in SendErrors
    /\ wanted \in Formas
    /\ updater = [u \in Updates |->
                    [state |-> "waiting", props |-> wanted[u], asked |-> None,
                     remaining |-> ExtractResolvableURIs(wanted[u])]]
    /\ inbox = [u \in Updates |-> None]
    /\ mailbox = << >> /\ phase = "idle" /\ cache = Empty /\ life = 0
    /\ row = [r \in DOMAIN Existing |-> ApplyToResource(Existing[r])]
    /\ world = [r \in DOMAIN Existing |->
                  LET doc == ConvertToPluginFormat(Existing[r].Properties)
                  IN  [p \in DOMAIN doc \cup DOMAIN Existing[r].ReadOnlyProperties |->
                         IF p \in DOMAIN doc THEN doc[p]
                         ELSE Existing[r].ReadOnlyProperties[p]]]
    /\ faults = 0 /\ changes = 0 /\ answers = {}

---------------------------------------------------------------------------
(* The executor and the updaters *)

\* buildCreateUpdateDependencies: an update waits for the updates of the
\* resources it refers to.
Dependencies(u) == {r \in Updates : \E uri \in ExtractResolvableURIs(wanted[u]) : uri[1] = r}

\* resolve: ask for the next value (the order is that of a Go map), or create.
\* When there is no cache to send to, the error ends the updater: its process
\* is gone and nobody is told.
Resolve(u, upd) ==
    \/ /\ upd.remaining = {}
       /\ updater' = [updater EXCEPT ![u] = [upd EXCEPT !.state = "creating", !.asked = None]]
       /\ UNCHANGED mailbox
    \/ \E uri \in upd.remaining :
        LET asking == [upd EXCEPT !.state = IF phase = "down" THEN "lost" ELSE "resolving",
                                  !.asked = uri, !.remaining = @ \ {uri}]
        IN  /\ updater' = [updater EXCEPT ![u] = asking]
            /\ mailbox' = IF phase = "down" THEN mailbox
                          ELSE Append(mailbox, [from |-> u, uri |-> uri])

StartUpdate(u) ==
    /\ updater[u].state = "waiting"
    /\ \A r \in Dependencies(u) : updater[r].state = "success"
    /\ Resolve(u, updater[u])
    /\ UNCHANGED <<sendErrors, wanted, inbox, phase, cache, life, row, world, faults, changes,
                   answers>>

Fail(u) ==
    LET next == [updater EXCEPT ![u].state = "failed"]
    IN  /\ updater' = next
        /\ mailbox' = WithShutdown(next, mailbox)

\* Mutant: a failure does not reach the dependents.
FailsAlone(u) == FALSE /\ UNCHANGED vars

\* failResourceUpdate: an update whose dependency has failed fails with it.
FailsWithDependency(u) ==
    /\ updater[u].state = "waiting"
    /\ \E r \in Dependencies(u) : updater[r].state = "failed"
    /\ Fail(u)
    /\ UNCHANGED <<sendErrors, wanted, inbox, phase, cache, life, row, world, faults, changes,
                   answers>>

\* resourceResolved and resourceFailedToResolve.
AnswerArrives(u) ==
    /\ updater[u].state = "resolving" /\ inbox[u] # None
    /\ inbox' = [inbox EXCEPT ![u] = None]
    /\ \/ /\ inbox[u].found
          /\ Resolve(u, [updater[u] EXCEPT
                !.props = ResolvePropertyReferences(updater[u].asked, @, inbox[u].answer)])
       \/ ~inbox[u].found /\ Fail(u)
    /\ UNCHANGED <<sendErrors, wanted, phase, cache, life, row, world, faults, changes,
                   answers>>

\* resolveCacheMissingInAction: the state timeout, two status intervals.
ResolveTimeout(u) ==
    /\ updater[u].state = "resolving"
    /\ Fail(u)
    /\ UNCHANGED <<sendErrors, wanted, inbox, phase, cache, life, row, world, faults, changes,
                   answers>>

\* The PluginOperator's create, handleProgressUpdate (updateResourceProperties)
\* and the ResourcePersister's row.
CreateSucceeds(u) ==
    LET next == [updater EXCEPT ![u].state = "success"]
        split == SplitProperties(Created(u), Fields, updater[u].props)
        stored == ApplyToResource(split)
    IN  /\ updater[u].state = "creating"
        /\ updater' = next
        /\ world' = [r \in DOMAIN world \cup {u} |-> IF r = u THEN Created(u) ELSE world[r]]
        /\ row' = [r \in DOMAIN row \cup {u} |-> IF r = u THEN stored ELSE row[r]]
        /\ mailbox' = WithShutdown(next, mailbox)
        /\ UNCHANGED <<sendErrors, wanted, inbox, phase, cache, life, faults, changes, answers>>

CreateFails(u) ==
    /\ updater[u].state = "creating" /\ faults < MaxFaults
    /\ faults' = faults + 1
    /\ Fail(u)
    /\ UNCHANGED <<sendErrors, wanted, inbox, phase, cache, life, row, world, changes, answers>>

---------------------------------------------------------------------------
(* The ResolveCache *)

Request == Head(mailbox)
Resource == Request.uri[1]

Waiting(u) == updater[u].state = "resolving"

\* The answer from a document: String of the property, or not found.  Of a
\* reference object without a value it is the JSON text.
AnswerFrom(doc, uri) ==
    LET prop == doc[uri[2]]
        text == IF prop.kind = "ref" /\ prop.val = None THEN <<"json", Blank>> ELSE String(prop.val)
    IN  IF uri[2] \in DOMAIN doc
        THEN [found |-> TRUE, answer |-> [prop EXCEPT !.val = text]]
        ELSE NoAnswer

\* The cache ends with an error, and what it held is gone.
Terminates ==
    /\ phase' = "down" /\ life' = life + 1
    /\ mailbox' = << >> /\ cache' = Empty

\* Send(from, answer), the end of HandleMessage.  When the receiver has ended
\* and Send says so, HandleMessage returns the error and the cache terminates.
Reply(a, doc) ==
    \/ /\ Waiting(Request.from)
       /\ inbox' = [inbox EXCEPT ![Request.from] = a]
       /\ phase' = "idle" /\ mailbox' = Tail(mailbox) /\ cache' = doc
       /\ answers' = IF a.found
                     THEN answers \cup {[uri |-> Request.uri, answer |-> a.answer, life |-> life]}
                     ELSE answers
       /\ UNCHANGED life
    \/ /\ ~Waiting(Request.from) /\ ~sendErrors
       /\ phase' = "idle" /\ mailbox' = Tail(mailbox) /\ cache' = doc
       /\ UNCHANGED <<inbox, answers, life>>
    \/ /\ ~Waiting(Request.from) /\ sendErrors
       /\ Terminates
       /\ UNCHANGED <<inbox, answers>>

\* The ChangesetSupervisor starts a child that ended with an error again: a new
\* process with an empty cache and an empty mailbox.
Restart ==
    /\ phase = "down" /\ phase' = "idle"
    /\ UNCHANGED <<sendErrors, wanted, updater, inbox, mailbox, cache, life, row, world, faults,
                   changes, answers>>

\* HandleMessage and resolveValue of a resource that is in the cache, or that
\* LoadResource does not find.
AnswersAtOnce ==
    /\ phase = "idle" /\ mailbox # << >> /\ Request # Shutdown
    /\ \/ Resource \in DOMAIN cache /\ Reply(AnswerFrom(cache[Resource], Request.uri), cache)
       \/ Resource \notin DOMAIN cache \cup DOMAIN row /\ Reply(NoAnswer, cache)
    /\ UNCHANGED <<sendErrors, wanted, updater, row, world, faults, changes>>

\* The resource is loaded, the PluginOperator ensured and its Read called.
StartsRead ==
    /\ phase = "idle" /\ mailbox # << >> /\ Request # Shutdown
    /\ Resource \notin DOMAIN cache /\ Resource \in DOMAIN row
    /\ phase' = "reading"
    /\ UNCHANGED <<sendErrors, wanted, updater, inbox, mailbox, cache, life, row, world, faults,
                   changes, answers>>

\* Mutant: nothing is cached.
CachesNothing(doc) ==
    Reply(AnswerFrom(doc, Request.uri), cache)

\* The properties of the progress go into the cache, whatever its status.
Caches(doc) ==
    LET next == [r \in DOMAIN cache \cup {Resource} |-> IF r = Resource THEN doc ELSE cache[r]]
    IN  Reply(AnswerFrom(doc, Request.uri), next)

ReadSucceeds ==
    /\ phase = "reading"
    /\ Caches(PreserveRefMetadata(row[Resource].Properties, world[Resource]))
    /\ UNCHANGED <<sendErrors, wanted, updater, row, world, faults, changes>>

\* A Read that failed for good: a progress without properties.
ReadFails ==
    /\ phase = "reading" /\ faults < MaxFaults
    /\ faults' = faults + 1
    /\ Caches(Empty)
    /\ UNCHANGED <<sendErrors, wanted, updater, row, world, changes>>

\* The call of the PluginOperator fails or takes too long.
CallFails ==
    /\ phase = "reading" /\ faults < MaxFaults
    /\ faults' = faults + 1
    /\ Reply(NoAnswer, cache)
    /\ UNCHANGED <<sendErrors, wanted, updater, row, world, changes>>

ShutsDown ==
    /\ phase = "idle" /\ mailbox # << >> /\ Request = Shutdown
    /\ phase' = "ended" /\ mailbox' = << >>
    /\ UNCHANGED <<sendErrors, wanted, updater, inbox, cache, life, row, world, faults, changes,
                   answers>>

---------------------------------------------------------------------------
\* Someone changes a plain property of a resource at the provider.
OutsideChange ==
    /\ changes < MaxChanges
    /\ changes' = changes + 1
    /\ \E r \in DOMAIN world : \E p \in DOMAIN world[r] \cap Fields :
          world' = [world EXCEPT ![r][p] = Plain(<<"str", "changed">>)]
    /\ UNCHANGED <<sendErrors, wanted, updater, inbox, cacheVars, row, faults>>

UpdaterNext(u) ==
    \/ StartUpdate(u)
    \/ FailsWithDependency(u)
    \/ AnswerArrives(u)
    \/ ResolveTimeout(u)
    \/ CreateSucceeds(u)
    \/ CreateFails(u)

CacheNext ==
    \/ AnswersAtOnce
    \/ StartsRead
    \/ ReadSucceeds
    \/ ReadFails
    \/ CallFails
    \/ ShutsDown
    \/ Restart

Next ==
    \/ \E u \in Updates : UpdaterNext(u)
    \/ CacheNext
    \/ OutsideChange

\* The actors run, timers fire and calls return; the faults need not happen.
Spec == Init /\ [][Next]_vars
FairSpec ==
    /\ Spec
    /\ WF_vars(CacheNext)
    /\ WF_vars(\E u \in Updates : UpdaterNext(u))

---------------------------------------------------------------------------
TypeOK ==
    /\ sendErrors \in SendErrors /\ wanted \in Formas
    /\ \A u \in Updates :
        /\ updater[u].state \in {"waiting", "resolving", "creating", "lost"} \cup Final
        /\ DOMAIN updater[u].props = DOMAIN wanted[u]
    /\ phase \in {"idle", "reading", "down", "ended"} /\ life \in Nat
    /\ DOMAIN cache \subseteq DOMAIN row /\ DOMAIN row = DOMAIN world
    /\ faults \in 0 .. MaxFaults /\ changes \in 0 .. MaxChanges

\* What the provider is asked to create holds values only, no reference and no
\* value object: every value asked for has been set in the document (resolve,
\* ResolvePropertyReferences, ConvertToPluginFormat).  It is stated for
\* documents that name each property they refer to once.
ReferencesAreResolved ==
    \A u \in Updates : updater[u].state = "creating" /\ RefersOnce(wanted[u]) =>
        \A p \in DOMAIN Wire(u) : Wire(u)[p].kind = "plain"

\* An opaque value stays opaque on its way through the references: however many
\* resources refer to it one through the other, and whatever visibility they
\* give the reference, every stored row holds its hash only
\* (preserveRefMetadata, setRefValue, mergeRefsPreservingUserRefs,
\* PersistValueTransformer).  It holds for commands that refer to properties at
\* the top level: of one within another the cache has forgotten what it is.
TopLevel == \A u \in Updates : \A uri \in ExtractResolvableURIs(wanted[u]) : uri[2] \notin Nested
OpaqueIsInherited ==
    TopLevel => \A r \in DOMAIN row : \A p \in DOMAIN row[r].Properties :
        LET val == row[r].Properties[p].val
        IN  val # None /\ val[2] \in Secrets => val[1] = "hash"

\* A SetOnce reference that came with a value is created and stored with that
\* value, whatever the property it refers to holds now (setRefValue).
SetOnceIsKept ==
    \A u \in Updates \cap DOMAIN row : \A p \in RefPaths(wanted[u]) :
        LET old == wanted[u][p]
        IN  old.strat = "SetOnce" /\ old.val # None =>
                row[u].Properties[p].val \in {old.val, Hash(old.val)}

\* The updates of a command see one version of what they refer to as long as
\* the cache lives: two that ask for the same property get the same value,
\* although someone changes the resource in between (resolveValue, cache).  A
\* cache that has ended with the error of a Send is started empty and Reads
\* again, so that updates it answers later may see another version.
OneAnswerPerProperty ==
    \A a, b \in answers : a.uri = b.uri /\ a.life = b.life => a.answer = b.answer

\* Every update ends, even when the cache is busy with a slow Read, has lost its
\* mailbox or was never asked (resolve, resolveCacheMissingInAction).  One that
\* asks a cache that is down ends too, but is lost to the executor, and the
\* updates that depend on it wait for ever.
UpdatesEnd ==
    <>[](\A u \in Updates :
            \/ updater[u].state \in Final
            \/ updater[u].state = "lost" /\ life > 0
            \/ /\ updater[u].state = "waiting"
               /\ \E r \in Dependencies(u) : updater[r].state \in {"waiting", "lost"})

\* The cache ends with the changeset: it "lives for the duration of a changeset
\* execution".  The error of a Send to an updater that is gone ends it before
\* its Shutdown, which may be lost with its mailbox; started again, it has
\* handled what it was sent since and stays.
CacheEnds == <>[](phase = "ended" \/ (life > 0 /\ phase = "idle" /\ mailbox = << >>))

\* References are resolved consistently: the provider is given a value for each,
\* updates that ask the cache for the same property in one of its lives get the
\* same one, and a value that was set once is kept (resolveValue,
\* ResolvePropertyReferences, setRefValue).
ResolvedConsistently ==
    TypeOK /\ ReferencesAreResolved /\ OneAnswerPerProperty /\ SetOnceIsKept

\* Updates and cache end, whatever is slow, fails or comes late between them;
\* what a failed Send leaves behind is named in the parts.
EndsWithCommand == UpdatesEnd /\ CacheEnds

===========================================================================
