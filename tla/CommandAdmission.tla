-------------------------- MODULE CommandAdmission --------------------------
(***************************************************************************)
(* How requests become running commands: ApplyForma, DestroyForma and      *)
(* ReRunIncompleteCommands of internal/metastructure/metastructure.go.     *)
(*                                                                         *)
(* Requests are served concurrently and are no actors: each goes through   *)
(* its checks one by one and then stores its command and starts its        *)
(* executor, while executors change the inventory, syncs record changes    *)
(* made elsewhere, calls fail, and the node crashes and is started again.  *)
(***************************************************************************)
EXTENDS Naturals, FiniteSetsExt

CONSTANTS Settings,     \* what may be requested, and what may go wrong
          Stacks,
          KnownStacks   \* stacks with resources at the start

\* A request: the mode of a destroy is patch, since the API server leaves it
\* empty (FormaCommandFromForma). stacks are those its forma declares, touches
\* those of the resources its updates change: a resource may be in a stack the
\* forma does not declare (validateStackReferences), and what depends on a
\* resource that is deleted is deleted or replaced with it, in whatever stack
\* (findDependencyUpdates).
IsRequest(r) ==
    /\ r.command \in {"apply", "destroy"} /\ r.mode \in {"patch", "reconcile"}
    /\ r.command = "destroy" => r.mode = "patch"
    /\ r.stacks \subseteq Stacks /\ r.touches \subseteq Stacks
    /\ {r.force, r.simulate, r.cyclic, r.empty} \subseteq BOOLEAN

ASSUME KnownAssumption == KnownStacks \subseteq Stacks

\* A setting has the requests, by the identity of their command; what may be
\* going on when a request comes ("requests": other requests; "settled":
\* commands that have recorded progress; "none": nothing); whether calls of
\* actors and sends may fail, and whether Reads may fail in the way updaters
\* have no handler for; and bounds on crashes and syncs.
ASSUME AdmissionAssumption ==
    \A s \in Settings : /\ \A r \in DOMAIN s.requests : IsRequest(s.requests[r])
                        /\ s.overlap \in {"requests", "settled", "none"}
                        /\ s.callErrors \in BOOLEAN /\ s.readErrors \in BOOLEAN
                        /\ s.crashes \in Nat /\ s.syncs \in Nat

VARIABLES setting,
          step,       \* where a request is
          answer,     \* what its client was told
          ts,         \* StartTs of the command of a request
          clock,
          commands,   \* stored commands -> their state
          executors,  \* commands whose executor is running
          hung,       \* those with an updater that will not report
          known,      \* stacks with resources, LoadAllStacks
          rows,       \* resource versions: the time of their command, stack
          up,         \* the node is running
          crashes, syncs,
          gone        \* history: stacks without resources because of a sync or
                      \* of a command that does not declare them

admissionVars == <<ts, clock, commands, executors, hung, known, rows, up, crashes, syncs, gone>>
vars == <<setting, step, answer, admissionVars>>

AllIDs == UNION {DOMAIN s.requests : s \in Settings}
IDs == DOMAIN setting.requests
Req(id) == setting.requests[id]
CallErrors == setting.callErrors

Init ==
    /\ setting \in Settings
    /\ step = [id \in IDs |-> "idle"]
    /\ answer = [id \in IDs |-> "none"]
    /\ ts = [id \in IDs |-> 0]
    /\ clock = 0
    /\ commands = <<>>
    /\ executors = {} /\ hung = {}
    /\ known = KnownStacks /\ gone = {}
    /\ rows = {}
    /\ up = TRUE
    /\ crashes = 0 /\ syncs = 0

-----------------------------------------------------------------------------
\* The order of the steps of ApplyForma and DestroyForma. Whichever does not
\* apply to a request is left out.
AfterPatch(r) == IF r.simulate THEN "simulate" ELSE "store"
AfterConflict(r) == IF r.command = "apply" /\ r.mode = "patch" THEN "patch" ELSE AfterPatch(r)
AfterReconcile(r) == IF r.simulate THEN AfterConflict(r) ELSE "conflict"
AfterStore(r) == IF r.command = "destroy" THEN "cycles" ELSE "ensure"
FirstStep(r) == CASE r.command = "destroy" -> IF r.simulate THEN "simulate" ELSE "conflict"
                  [] r.command = "apply" /\ r.mode = "reconcile" /\ ~r.force -> "reconcile"
                  [] OTHER -> AfterReconcile(r)

At(id, s) == up /\ step[id] = s
Proceed(id, s) == step' = [step EXCEPT ![id] = s] /\ UNCHANGED answer
Reply(id, a) == step' = [step EXCEPT ![id] = "idle"] /\ answer' = [answer EXCEPT ![id] = a]

MayOverlap ==
    \/ setting.overlap = "requests"
    \/ /\ \A id \in IDs : step[id] = "idle"
       /\ \/ setting.overlap = "settled" /\ \A c \in executors : commands[c] = "InProgress"
          \/ executors = {}

\* FormaCommandFromForma; a request without changes, and an apply whose
\* references go in a circle, are answered at once.
Submit(id) ==
    /\ up /\ answer[id] = "none" /\ step[id] = "idle" /\ ts[id] = 0
    /\ MayOverlap
    /\ clock' = clock + 1
    /\ ts' = [ts EXCEPT ![id] = clock + 1]
    /\ CASE Req(id).empty -> Reply(id, "no changes")
         [] ~Req(id).empty /\ Req(id).command = "apply" /\ Req(id).cyclic -> Reply(id, "error")
         [] OTHER -> Proceed(id, FirstStep(Req(id)))
    /\ UNCHANGED <<commands, executors, hung, known, rows, up, crashes, syncs, gone>>

\* GetResourceModificationsSinceLastReconcile: what commands later than the
\* last reconcile, of whichever stack, have written to the stack.
Reconciles == {id \in DOMAIN commands : Req(id).mode = "reconcile"}
Modified(stack) ==
    /\ stack \in known
    /\ Reconciles # {}
    /\ \E row \in rows : row.stack = stack /\ row.ts > Max({ts[id] : id \in Reconciles})

\* Mutant: modifications are not looked for.
SkipReconcileCheck(id) ==
    /\ At(id, "reconcile")
    /\ Proceed(id, AfterReconcile(Req(id)))
    /\ UNCHANGED admissionVars

\* A reconcile is refused if one of its stacks was modified.
CheckReconcile(id) ==
    /\ At(id, "reconcile")
    /\ IF \E s \in Req(id).stacks : Modified(s) THEN Reply(id, "reconcile rejected")
       ELSE Proceed(id, AfterReconcile(Req(id)))
    /\ UNCHANGED admissionVars

\* Mutant: commands are compared by identity instead of stacks.
ConflictsById(id) == id \in DOMAIN commands

\* checkForConflictingCommands and formaTouchesStacks: the incomplete
\* commands are those that have recorded progress.
Conflicts(id) ==
    \E c \in DOMAIN commands : /\ commands[c] = "InProgress"
                               /\ Req(c).stacks \cap Req(id).stacks # {}

CheckConflict(id) ==
    /\ At(id, "conflict")
    /\ IF Conflicts(id) THEN Reply(id, "conflict") ELSE Proceed(id, AfterConflict(Req(id)))
    /\ UNCHANGED admissionVars

AllStacksKnown(id) == Req(id).stacks \subseteq known

\* checkIfPatchCanBeApplied.
CheckPatch(id) ==
    /\ At(id, "patch")
    /\ IF AllStacksKnown(id) THEN Proceed(id, AfterPatch(Req(id))) ELSE Reply(id, "patch rejected")
    /\ UNCHANGED admissionVars

Simulate(id) ==
    /\ At(id, "simulate")
    /\ Reply(id, "simulated")
    /\ UNCHANGED admissionVars

Stored(id) == [c \in DOMAIN commands \cup {id} |-> IF c = id THEN "NotStarted" ELSE commands[c]]

\* StoreNewFormaCommand through the bridge. An error may mean that the
\* answer came too late, and the command is stored all the same.
Store(id) ==
    /\ At(id, "store")
    /\ \/ commands' = Stored(id) /\ Proceed(id, AfterStore(Req(id)))
       \/ CallErrors /\ commands' \in {commands, Stored(id)} /\ Reply(id, "error")
    /\ UNCHANGED <<ts, clock, executors, hung, known, rows, up, crashes, syncs, gone>>

\* The changeset of a destroy is made after its command was stored.
CheckCycles(id) ==
    /\ At(id, "cycles")
    /\ IF Req(id).cyclic THEN Reply(id, "error") ELSE Proceed(id, "ensure")
    /\ UNCHANGED admissionVars

\* EnsureChangesetExecutor; the executor does nothing until it is started.
Ensure(id) ==
    /\ At(id, "ensure")
    /\ \/ Proceed(id, "start")
       \/ CallErrors /\ Reply(id, "error")
    /\ UNCHANGED admissionVars

Start(id) ==
    /\ At(id, "start")
    /\ \/ executors' = executors \cup {id} /\ Reply(id, "accepted")
       \/ CallErrors /\ Reply(id, "error") /\ UNCHANGED executors
    /\ UNCHANGED <<ts, clock, commands, hung, known, rows, up, crashes, syncs, gone>>

-----------------------------------------------------------------------------
\* The first progress of an update is recorded.
ExecutorProgresses(id) ==
    /\ id \in executors /\ commands[id] = "NotStarted"
    /\ commands' = [commands EXCEPT ![id] = "InProgress"]
    /\ UNCHANGED <<step, answer, ts, clock, executors, hung, known, rows, up, crashes, syncs,
                   gone>>

\* An executor changes a resource of a stack it touches: the first one of the
\* stack, the last one (of an apply too: an implicit delete, a dependent, the
\* delete of a replacement), or another.
ExecutorChanges(id, s) ==
    /\ id \in executors /\ commands[id] = "InProgress" /\ s \in Req(id).touches
    /\ rows' = rows \cup {[ts |-> ts[id], stack |-> s]}
    /\ \/ /\ known' = known \ {s}
          /\ gone' = gone \cup ((known \cap {s}) \ Req(id).stacks)
       \/ Req(id).command = "apply" /\ known' = known \cup {s} /\ gone' = gone \ {s}
       \/ s \in known /\ UNCHANGED <<known, gone>>
    /\ rows' # rows \/ known' # known
    /\ UNCHANGED <<step, answer, ts, clock, commands, executors, hung, up, crashes, syncs>>

\* A Read before an update or a delete fails in a way that leaves its updater
\* without a handler: the executor waits for it until the node is stopped.
ReadHangs(id) ==
    /\ id \in executors \ hung /\ setting.readErrors
    /\ hung' = hung \cup {id}
    /\ UNCHANGED <<step, answer, ts, clock, commands, executors, known, rows, up, crashes, syncs,
                   gone>>

\* The last update is final: the command is complete, the executor ends.
ExecutorFinishes(id) ==
    /\ id \in executors \ hung
    /\ commands' = [commands EXCEPT ![id] = "complete"]
    /\ executors' = executors \ {id}
    /\ UNCHANGED <<step, answer, ts, clock, hung, known, rows, up, crashes, syncs, gone>>

\* A call of the executor fails and it ends with updates left.
ExecutorGivesUp(id) ==
    /\ id \in executors
    /\ CallErrors
    /\ executors' = executors \ {id} /\ hung' = hung \ {id}
    /\ UNCHANGED <<step, answer, ts, clock, commands, known, rows, up, crashes, syncs, gone>>

\* A sync command finds that a resource was changed outside of formae, or that
\* it is not found, which is stored as its deletion: of the last one of its
\* stack, perhaps.
SyncFindsChange(s) ==
    /\ up /\ syncs < setting.syncs /\ s \in known
    /\ syncs' = syncs + 1
    /\ clock' = clock + 1
    /\ rows' = rows \cup {[ts |-> clock + 1, stack |-> s]}
    /\ \/ UNCHANGED <<known, gone>>
       \/ known' = known \ {s} /\ gone' = gone \cup {s}
    /\ UNCHANGED <<step, answer, ts, commands, executors, hung, up, crashes>>

Crash ==
    /\ up /\ crashes < setting.crashes
    /\ crashes' = crashes + 1
    /\ up' = FALSE
    /\ executors' = {} /\ hung' = {}
    /\ step' = [id \in IDs |-> "idle"]
    /\ UNCHANGED <<answer, ts, clock, commands, known, rows, syncs, gone>>

\* Mutant: nothing is rerun.
RerunNothing == {}

\* Mutant: what was never started is run too.
RerunUnfinished == {c \in DOMAIN commands : commands[c] # "complete"}

\* LoadIncompleteFormaCommands at the start of the node.
Incomplete == {c \in DOMAIN commands : commands[c] = "InProgress"}

\* Metastructure.Start and ReRunIncompleteCommands, before the API server
\* accepts requests.
ReRun ==
    /\ ~up
    /\ up' = TRUE
    /\ executors' = Incomplete /\ hung' = {}
    /\ UNCHANGED <<step, answer, ts, clock, commands, known, rows, crashes, syncs, gone>>

\* A call of ReRunIncompleteCommands fails: Start returns the error and the
\* agent stops with the commands started so far.
ReRunFails ==
    /\ ~up /\ CallErrors /\ crashes < setting.crashes
    /\ crashes' = crashes + 1
    /\ UNCHANGED <<step, answer, ts, clock, commands, executors, hung, known, rows, up, syncs,
                   gone>>

Step(id) == \/ CheckReconcile(id) \/ CheckConflict(id) \/ CheckPatch(id) \/ Simulate(id)
            \/ Store(id) \/ CheckCycles(id) \/ Ensure(id) \/ Start(id)

Activity ==
        \/ \E id \in IDs : Submit(id) \/ Step(id)
        \/ \E id \in IDs, s \in Stacks : ExecutorChanges(id, s)
        \/ \E id \in IDs : \/ ExecutorProgresses(id) \/ ReadHangs(id)
                           \/ ExecutorFinishes(id) \/ ExecutorGivesUp(id)
        \/ \E s \in Stacks : SyncFindsChange(s)
        \/ Crash
        \/ ReRun
        \/ ReRunFails

Next == Activity /\ UNCHANGED setting

Spec == Init /\ [][Next]_vars

\* Requests go through their steps, executors finish if all their updaters
\* report, the node is started.
FairSpec == /\ Spec
            /\ \A id \in AllIDs : /\ WF_vars(id \in IDs /\ Step(id) /\ UNCHANGED setting)
                                  /\ WF_vars(ExecutorFinishes(id) /\ UNCHANGED setting)
            /\ WF_vars(ReRun /\ UNCHANGED setting)

-----------------------------------------------------------------------------
Answers == {"none", "no changes", "error", "reconcile rejected", "conflict", "patch rejected",
            "simulated", "accepted"}

TypeOK ==
    /\ setting \in Settings
    /\ step \in [IDs -> {"idle", "reconcile", "conflict", "patch", "simulate", "store", "cycles",
                        "ensure", "start"}]
    /\ answer \in [IDs -> Answers]
    /\ ts \in [IDs -> Nat] /\ clock \in Nat
    /\ DOMAIN commands \subseteq IDs
    /\ \A id \in DOMAIN commands : commands[id] \in {"NotStarted", "InProgress", "complete"}
    /\ executors \subseteq DOMAIN commands /\ hung \subseteq executors
    /\ known \subseteq Stacks /\ gone \subseteq Stacks
    /\ up \in BOOLEAN

\* "multiple changeset executors can be running in parallel, as long as they
\* don't touch the same resources": two executors that touch one stack are not
\* stopped by their declarations, that is, at least one of them does not
\* declare it (checkForConflictingCommands compares Forma.Stacks). So where
\* formae declare all they touch, no two executors touch one stack. It takes
\* that requests come one at a time and after the commands before them have
\* recorded progress: otherwise neither sees the other's command.
NoConflictingExecutors ==
    setting.overlap # "requests" =>
    \A c, d \in executors : c # d =>
        \A s \in Req(c).touches \cap Req(d).touches :
            s \notin Req(c).stacks \/ s \notin Req(d).stacks

\* A request that was refused, failed or was simulated is never executed,
\* though its command may have been stored and the node is started again.
RefusedNeverRuns ==
    \A id \in IDs : answer[id] \notin {"none", "accepted"} =>
        id \notin executors /\ (id \in DOMAIN commands => commands[id] = "NotStarted")

\* A patch is stored and started for stacks that still exist: what
\* checkIfPatchCanBeApplied has seen is not out of date when its command is
\* stored and its executor started, though other executors delete resources
\* meanwhile. Only syncs that find resources gone, and commands that delete in
\* stacks they do not declare, come between.
PatchesExistingStacks ==
    setting.overlap # "requests" =>
    \A id \in IDs : /\ Req(id).command = "apply" /\ Req(id).mode = "patch"
                    /\ step[id] \in {"store", "ensure", "start"}
                    => Req(id).stacks \subseteq known \cup gone

\* What has changed in a stack since that stack was last reconciled, of the
\* commands that are older than the request.
LastReconcile(s) == {ts[id] : id \in {r \in Reconciles : s \in Req(r).stacks}}
ModifiedBefore(s, id) ==
    /\ s \in known
    /\ LastReconcile(s) # {}
    /\ \E row \in rows : row.stack = s /\ row.ts > Max(LastReconcile(s)) /\ row.ts < ts[id]

\* "forma rejected because the stacks it references have been modified since
\* the last reconcile command": a reconcile without force is never stored when
\* an older command has changed one of its stacks since it was last reconciled.
\* It takes that nothing runs while its checks are made, and that all requests
\* are about one stack: the last reconcile is taken over all stacks.
NeverOverwrites ==
    [][\A id \in DOMAIN commands' \ DOMAIN commands :
          (/\ setting.overlap = "none" /\ \A c, d \in IDs : Req(c).stacks = Req(d).stacks
           /\ Req(id).mode = "reconcile" /\ ~Req(id).force)
             => \A s \in Req(id).stacks : ~ModifiedBefore(s, id)]_vars

\* "This changeset was validated upon the initial apply so we can safely
\* ignore the error": no changeset that is started has cycles.
StartedAreValidated == \A id \in executors : ~Req(id).cyclic

IsIn(id, state) == id \in DOMAIN commands /\ commands[id] = state

\* A command that has recorded progress is completed in the end, through
\* any crashes, and so stops blocking its stacks; if executors do not give up
\* on failing calls, and if none of its Reads hangs. After a hung Read the
\* stacks stay blocked until the node is started again.
StacksAreFreed ==
    \A id \in AllIDs : ~CallErrors /\ IsIn(id, "InProgress")
                            ~> IsIn(id, "complete") \/ id \in hung

\* Only what has passed the checks of its request runs: nothing that was
\* refused, no patch of a stack that did not exist and no changeset with
\* cycles, through crashes and reruns (ApplyForma, DestroyForma,
\* ReRunIncompleteCommands).
OnlyValidCommandsRun ==
    TypeOK /\ RefusedNeverRuns /\ PatchesExistingStacks /\ StartedAreValidated

=============================================================================
