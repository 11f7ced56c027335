--------------------------- MODULE ResourceUpdater ---------------------------
(***************************************************************************)
(* The ResourceUpdater actor with the PluginOperator it works through:     *)
(* internal/metastructure/resource_update.                                 *)
(*                                                                         *)
(* An updater carries out one resource update: it reads the resource,      *)
(* resolves the values the update refers to, and deletes, creates or       *)
(* updates it, each by one plugin operation.  It records the progress of   *)
(* every operation in the row of the command, hands results to the         *)
(* ResourcePersister, and reports one final state to the executor.  After  *)
(* a crash of the node ReRunIncompleteCommands runs the update again, from *)
(* the progress its row holds.                                             *)
(*                                                                         *)
(* A handler is a chain of calls to other actors; it is split where it     *)
(* waits for an answer, since the node may crash there.  A replace reaches *)
(* no updater: the changeset has split it.                                 *)
(***************************************************************************)
EXTENDS PluginOperator

CONSTANTS Kinds,        \* the operations of the updates considered
          Resolvables,  \* the number of values an update has to resolve
          CallErrors,   \* whether calls to other actors may fail: a set of truth values
          MaxCrashes    \* bound: crashes of the node

ASSUME KindsAssumption == Kinds \subseteq {"create", "update", "delete", "read"}

ASSUME UpdaterAssumption ==
    Resolvables \in Nat /\ CallErrors \subseteq BOOLEAN /\ MaxCrashes \in Nat

VARIABLES kind,         \* the operation of this update
          callErrors,   \* calls may fail in this behaviour
          state,        \* the state of the updater's state machine
          ustate,       \* ResourceUpdate.State
          progress,     \* ResourceUpdate.ProgressResult, by operation
          remaining,    \* the number of RemainingResolvables
          awaiting,     \* what the running handler waits for
          armed,        \* the state timeout is set
          row,          \* the row of the command: state and progress
          report,       \* the state reported by ResourceUpdateFinished
          stored,       \* what became of results: kept by the ResourcePersister,
                        \* or dropped by a filter or by its validation
          crashes       \* number of crashes so far

updaterVars == <<kind, callErrors, state, ustate, progress, remaining, awaiting, armed,
                 row, report, stored, crashes>>

vars == <<updaterVars, operatorVars>>

UpdateStates == {"NotStarted", "InProgress", "Success", "Failed", "Rejected"}

Terminal == {"Success", "Failed", "Rejected"}

Final == {"finished_successfully", "finished_with_error", "rejected"}

\* Where a plugin operation is in progress, and which.
currentOperation ==
    [synchronizing |-> "Read", creating |-> "Create", updating |-> "Update",
     deleting |-> "Delete"]

\* "terminated": a message without a handler ended the process; "unsent": the
\* error of a message it could not send did.
UpdaterStates ==
    DOMAIN currentOperation \cup Final \cup {"initializing", "resolving",
                                             "terminated", "unsent", "down"}

Results == Operations \X {"kept", "dropped"}

\* The progress of an update, at most one entry per operation.
Recorded == [Operations \cup {"none"} -> Progress \cup {NoProgress}]

NothingRecorded == [op \in Operations \cup {"none"} |-> NoProgress]

Found(op) == progress[op] # NoProgress

HasProgress == \E op \in DOMAIN progress : op # "Read" /\ Found(op)

requiredOperations ==
    [read |-> {"Read"}, create |-> {"Create"}, update |-> {"Read", "Update"},
     delete |-> {"Read", "Delete"}][kind]

\* Mutant: a failed operation is not told from one that goes on.
FailureNotCounted(pr) ==
    IF \A op \in requiredOperations : FinishedSuccessfully(pr[op])
      THEN "Success" ELSE "InProgress"

\* updateState: the number of entries is compared, not what they are about.
updateState(pr) ==
    LET made == {op \in DOMAIN pr : pr[op] # NoProgress}
    IN  IF Cardinality(made) < Cardinality(requiredOperations) THEN "InProgress"
        ELSE IF \E op \in made : Failed(pr[op]) THEN "Failed"
        ELSE IF \A op \in made : FinishedSuccessfully(pr[op]) THEN "Success"
        ELSE "InProgress"

-----------------------------------------------------------------------------
(***************************************************************************)
(* Parts of handlers.                                                      *)
(***************************************************************************)

\* The state timeout, renewed whenever it is set again.
StateTimeout == armed' = TRUE

\* Enter the final state f with update state s, the row being r: onStateChange
\* marks the row as complete, reports, and ends the process.
Finish(f, s, r) ==
    /\ state' = f
    /\ ustate' = s
    /\ \/ row' = [r EXCEPT !.state = s]
       \/ callErrors /\ row' = r       \* MarkResourceUpdateAsComplete failed
    /\ report' = s
    /\ awaiting' = "nothing"
    /\ armed' = FALSE

\* synchronize, delete, create, update: the plugin operation of state t is
\* started, unless progress was made before a crash.
Begin(t) ==
    LET op == currentOperation[t]
        p  == progress[op]
    IN  /\ state' = t
        /\ \/ /\ t = "synchronizing" \/ ~Found(op)
              /\ operator' = Requested("start", op, kind \in {"read", "delete"}, 1)
              /\ awaiting' = "start"
              /\ UNCHANGED reply
           \/ /\ t # "synchronizing" /\ Found(op) /\ HasFinished(p)
              /\ reply' = p
              /\ awaiting' = "recovered"
              /\ UNCHANGED operator
           \/ /\ t # "synchronizing" /\ Found(op) /\ ~HasFinished(p)
              /\ operator' = Requested("resume", op, FALSE, p.attempts)
              /\ awaiting' = "resume"
              /\ UNCHANGED reply
        /\ armed' = FALSE
        /\ UNCHANGED <<ustate, row, report>>

\* resolve: ask for the next value, or go on when there is none left.  When the
\* ResolveCache cannot be reached the handler returns an error, which ends the
\* process without a report.
Resolve ==
    \/ /\ remaining > 0
       /\ remaining' = remaining - 1
       /\ \/ state' = "resolving" /\ StateTimeout
          \/ callErrors /\ state' = "unsent" /\ armed' = FALSE
       /\ awaiting' = "nothing"
       /\ UNCHANGED <<ustate, row, report, operator, reply>>
    \/ /\ remaining = 0
       /\ Begin(IF kind = "create" THEN "creating" ELSE "updating")
       /\ UNCHANGED remaining

\* nextState
NextState ==
    \/ /\ state = "initializing" /\ kind = "create"
       /\ Resolve
    \/ /\ state = "initializing" /\ kind \in {"update", "delete"} /\ HasProgress
       /\ Begin(IF kind = "update" THEN "updating" ELSE "deleting")
       /\ UNCHANGED remaining
    \/ /\ state = "initializing" /\ kind # "create" /\ ~HasProgress
       /\ Begin("synchronizing")
       /\ UNCHANGED remaining
    \/ /\ state = "synchronizing" /\ kind = "delete"
       /\ Begin("deleting")
       /\ UNCHANGED remaining
    \/ /\ state = "synchronizing" /\ kind = "update"
       /\ Resolve
    \/ /\ \/ state = "synchronizing" /\ kind = "read"
          \/ state \in {"deleting", "creating", "updating"}
       /\ Finish("finished_successfully",
                 IF kind = "read" THEN ustate ELSE "Success", row)
       /\ UNCHANGED <<remaining, operator, reply>>

\* Mutant: the state is not recorded with the progress.
ProgressAlone(s, p) == [row EXCEPT !.progress[p.op] = p]

\* updateCommandFromProgress, for the row of this update.
UpdateFromProgress(s, p) == [state |-> s, progress |-> [row.progress EXCEPT ![p.op] = p]]

\* handleProgressUpdate, up to the call of the ResourcePersister, which is not
\* made for a discovered resource that a filter of the plugin leaves out.
HandleProgress(p) ==
    /\ \/ \E pr \in {[progress EXCEPT ![p.op] = p]} : \E s \in {updateState(pr)} :
            /\ progress' = pr
            /\ \/ /\ FinishedSuccessfully(p)
                  /\ ustate' = s
                  /\ row' = UpdateFromProgress(s, p)
                  /\ awaiting' = "persist"
                  /\ armed' = FALSE
                  /\ UNCHANGED <<state, report, stored>>
               \/ /\ FinishedSuccessfully(p) /\ kind = "read"
                  /\ Finish("finished_successfully", "Success", UpdateFromProgress(s, p))
                  /\ stored' = stored \cup {<<"Read", "dropped">>}
               \/ /\ Failed(p)
                  /\ Finish("finished_with_error", s, UpdateFromProgress(s, p))
                  /\ UNCHANGED stored
               \/ /\ ~HasFinished(p)
                  /\ ustate' = s
                  /\ row' = UpdateFromProgress(s, p)
                  /\ awaiting' = "nothing"
                  /\ StateTimeout
                  /\ UNCHANGED <<state, report, stored>>
       \/ /\ callErrors          \* RecordProgress or UpdateResourceProgress failed
          /\ progress' \in {progress, [progress EXCEPT ![p.op] = p]}
          /\ Finish("finished_with_error", "Failed", row)
          /\ UNCHANGED stored
    /\ UNCHANGED <<kind, callErrors, remaining, crashes>>

-----------------------------------------------------------------------------
(***************************************************************************)
(* The updater.                                                            *)
(***************************************************************************)

Init ==
    /\ kind \in Kinds
    /\ callErrors \in CallErrors
    /\ state = "initializing"
    /\ ustate = "NotStarted"
    /\ progress = NothingRecorded
    /\ remaining = Resolvables
    /\ awaiting = "nothing"
    /\ armed = FALSE
    /\ row = [state |-> "NotStarted", progress |-> NothingRecorded]
    /\ report = "none"
    /\ stored = {}
    /\ crashes = 0
    /\ InitOperator

\* start
Start ==
    /\ state = "initializing"
    /\ NextState
    /\ UNCHANGED <<kind, callErrors, progress, stored, crashes, mail, cloud, readFailed>>

\* The operator's answer to the call that started the operation, or the
\* progress a previous run has recorded of it, is handled.
ReplyArrives ==
    /\ \/ awaiting = "start" /\ operator.state # "not_started"
       \/ awaiting = "recovered"
       \/ awaiting = "resume" /\ operator.state # "not_started" /\ HasFinished(reply)
    /\ HandleProgress(reply)
    /\ reply' = NoProgress
    /\ UNCHANGED <<operator, mail, cloud, readFailed>>

\* recoverFromPreviousProgress: the operation goes on.
StillRunning ==
    /\ awaiting = "resume" /\ operator.state # "not_started" /\ ~HasFinished(reply)
    /\ awaiting' = "nothing"
    /\ StateTimeout
    /\ reply' = NoProgress
    /\ UNCHANGED <<kind, callErrors, state, ustate, progress, remaining, row, report, stored,
                   crashes, operator, mail, cloud, readFailed>>

\* doPluginOperation fails: the operator could not be started, or its answer
\* came too late.  delete leaves it at that; the others give up.
CallFails ==
    /\ callErrors
    /\ awaiting \in {"start", "resume"}
    /\ operator' \in {operator} \cup
          (IF operator.state = "not_started" THEN {NoOperator} ELSE {})
    /\ \/ /\ state = "deleting" /\ awaiting = "start"
          /\ awaiting' = "nothing"
          /\ UNCHANGED <<state, ustate, row, report, armed>>
       \/ /\ ~(state = "deleting" /\ awaiting = "start")
          /\ Finish("finished_with_error", "Failed", row)
    /\ UNCHANGED <<kind, callErrors, progress, remaining, stored, crashes, reply, mail, cloud,
                   readFailed>>

\* handleProgressUpdate, once the ResourcePersister has answered; a version
\* (changed) means that what it was given differs from what it had.  It answers
\* without one, as if nothing had changed, when required fields are missing and
\* it stores nothing; it does not look at them when the update is a delete.
Persisted ==
    /\ awaiting = "persist"
    /\ \/ \E result \in {"kept", "dropped"}, changed \in BOOLEAN :
             /\ result = "dropped" => kind # "delete" /\ ~changed
             /\ stored' = stored \cup {<<currentOperation[state], result>>}
             /\ \/ /\ state = "synchronizing" /\ kind = "update" /\ changed
                   /\ Finish("rejected", "Rejected", row)
                   /\ UNCHANGED <<remaining, operator, reply>>
                \/ /\ ~(state = "synchronizing" /\ kind = "update" /\ changed)
                   /\ NextState
       \/ /\ callErrors
          /\ Finish("finished_with_error", "Failed", row)
          /\ UNCHANGED <<stored, remaining, operator, reply>>
    /\ UNCHANGED <<kind, callErrors, progress, crashes, mail, cloud, readFailed>>

\* A progress message arrives; only the states of a running operation handle
\* one (not synchronizing), and a process that has ended receives none.
ProgressArrives ==
    /\ mail # << >>
    /\ awaiting = "nothing"
    /\ \/ /\ state \in {"creating", "updating", "deleting"}
          /\ HandleProgress(Head(mail))
       \/ /\ state \notin {"creating", "updating", "deleting"}
          /\ state' = IF state \in Final THEN state ELSE "terminated"
          /\ armed' = FALSE
          /\ UNCHANGED <<kind, callErrors, ustate, progress, remaining, awaiting, row, report,
                         stored, crashes>>
    /\ mail' = Tail(mail)
    /\ UNCHANGED <<operator, reply, cloud, readFailed>>

\* resourceResolved and resourceFailedToResolve: the ResolveCache answers.
ValueResolved ==
    /\ state = "resolving" /\ awaiting = "nothing" /\ armed
    /\ \/ Resolve
       \/ /\ Finish("finished_with_error", "Failed", row)
          /\ UNCHANGED <<remaining, operator, reply>>
    /\ UNCHANGED <<kind, callErrors, progress, stored, crashes, mail, cloud, readFailed>>

\* pluginOperationMissingInAction and resolveCacheMissingInAction; the timeout
\* has no handler in synchronizing.
Timeout ==
    /\ armed
    /\ awaiting = "nothing"
    /\ \/ /\ state # "synchronizing"
          /\ Finish("finished_with_error", "Failed", row)
       \/ /\ state = "synchronizing"
          /\ state' = "terminated"
          /\ armed' = FALSE
          /\ UNCHANGED <<ustate, row, report, awaiting>>
    /\ UNCHANGED <<kind, callErrors, progress, remaining, stored, crashes, operatorVars>>

\* The node crashes.
Crash ==
    /\ crashes < MaxCrashes
    /\ state # "down"
    /\ crashes' = crashes + 1
    /\ state' = "down"
    /\ awaiting' = "nothing"
    /\ armed' = FALSE
    /\ report' = "none"
    /\ operator' = NoOperator
    /\ reply' = NoProgress
    /\ mail' = << >>
    /\ ustate' = "NotStarted"
    /\ progress' = NothingRecorded
    /\ remaining' = 0
    /\ UNCHANGED <<kind, callErrors, row, stored, cloud, readFailed>>

\* ReRunIncompleteCommands: a command is run again when one of its rows is not
\* terminal, with all its updates; so this one may run again though its own is.
\* That some update of the command has recorded progress is assumed here, what
\* becomes of the others is CommandAdmission's. A sync is not rerun: reads belong to syncs only.
ReRun ==
    /\ state = "down"
    /\ kind # "read"
    /\ state' = "initializing"
    /\ progress' = row.progress
    /\ remaining' = Resolvables
    /\ UNCHANGED <<kind, callErrors, ustate, awaiting, armed, row, report, stored, crashes, operatorVars>>

OperatorStep ==
    /\ Execute \/ ResumeWaiting \/ Status \/ Retry
    /\ UNCHANGED updaterVars

Next ==
    \/ Start
    \/ ReplyArrives
    \/ StillRunning
    \/ CallFails
    \/ Persisted
    \/ ProgressArrives
    \/ ValueResolved
    \/ Timeout
    \/ Crash
    \/ ReRun
    \/ OperatorStep

Spec == Init /\ [][Next]_vars

\* The scheduler runs actors with messages, due status checks and retries
\* happen, commands left incomplete are run again, and a plugin does not
\* answer InProgress for ever.  A state timeout is sure to fire only when no
\* message renews it.
Fairness ==
    /\ WF_vars(Start)
    /\ WF_vars(ReplyArrives)
    /\ WF_vars(StillRunning)
    /\ WF_vars(Persisted)
    /\ WF_vars(ProgressArrives)
    /\ WF_vars(Timeout /\ operator.state \notin Alive /\ mail = << >>)
    /\ WF_vars(ReRun /\ row.state \notin Terminal)
    /\ WF_vars(OperatorStep)
    /\ SF_vars(OperatorStep /\ \E a \in Answers \ {"InProgress"} : StatusWith(a))

FairSpec == Spec /\ Fairness

-----------------------------------------------------------------------------
(***************************************************************************)
(* Properties.                                                             *)
(***************************************************************************)

\* Type correctness.  The attempts of an operator stay within the retries
\* configured for it (handlePluginResult).
TypeOK ==
    /\ kind \in Kinds
    /\ state \in UpdaterStates
    /\ ustate \in UpdateStates
    /\ progress \in Recorded
    /\ remaining \in 0 .. Resolvables
    /\ awaiting \in {"nothing", "start", "resume", "recovered", "persist"}
    /\ armed \in BOOLEAN
    /\ row.state \in UpdateStates /\ row.progress \in Recorded
    /\ report \in UpdateStates \cup {"none"}
    /\ stored \subseteq Results
    /\ crashes \in 0 .. MaxCrashes
    /\ operator \in Operators
    /\ reply \in Progress \cup {NoProgress}
    /\ mail \in Seq(Progress)
    /\ cloud \in [Operations -> {"idle", "running", "done"}]
    /\ readFailed \in BOOLEAN

\* The plugin operation that carries out the update.
Mutation == [create |-> "Create", update |-> "Update", delete |-> "Delete",
             read |-> "Read"][kind]

\* The result of the operation that carries out the update is settled: kept,
\* or, if it is not a delete, dropped.
Settled(results) ==
    <<Mutation, "kept">> \in results \/ (kind # "delete" /\ <<Mutation, "dropped">> \in results)

\* An update reported or stored as successful has been carried out: the plugin
\* said so in this run or, before a crash, in an earlier one.  The result of a
\* reported one has also been kept, or dropped by a filter or for its missing
\* fields, which a delete's never is (handleProgressUpdate, storeResourceUpdate,
\* recoverFromPreviousProgress, and updateState, which counts entries).
SuccessIsReal ==
    /\ report = "Success" => Settled(stored)
    /\ "Success" \in {report, row.state} => kind = "read" \/ cloud[Mutation] = "done"

\* Attempts survive crashes: what the row records of an operation never goes
\* back to an earlier attempt, so that a crash does not grant an operation its
\* retries anew (the attempts of retry, PreviousAttempts of resume, the search
\* for progress in create, update and delete).
AttemptsSurviveCrashes ==
    [][\A op \in Operations \ {"Read"} :
         row'.progress[op].attempts >= row.progress[op].attempts]_vars

\* Updater and operator agree on when an operation is over: progress on which
\* the updater will finish, or move on, leaves no operator behind that would
\* go on changing the resource (Failed and handlePluginResult compare the
\* attempts independently).
NoOrphanedOperator ==
    \A p \in {mail[i] : i \in DOMAIN mail}
             \cup (IF awaiting \in {"start", "resume"} THEN {reply} ELSE {}) :
        HasFinished(p) => operator.state \notin Alive

\* A success or a rejection is reported when no operator is at work any more.
\* The report of a failure may leave one: after a timeout or a failed call the
\* updater does not know what its operator does.
ReportEndsOperation == report \in {"Success", "Rejected"} => operator.state \notin Alive

\* What the updater reports is what the row of the command says, unless the
\* call that writes it has failed.
RowAgreesWithReport == report # "none" /\ ~callErrors => row.state = report

\* An updater that waits has set the timeout that will end its wait
\* (handleProgressUpdate, recoverFromPreviousProgress, resolve).  Only a delete
\* whose call of the operator has failed waits without one.
WaitsWithTimeout ==
    state \in {"creating", "updating", "deleting", "resolving"} /\ awaiting = "nothing"
        => armed \/ (callErrors /\ state = "deleting")

\* After the last plugin operation, or after the first error, the updater
\* reports the final state of the update (onStateChange, updateState).  Only
\* after the failure of a Read, the first of two operations, it does not.
ReportsFinalState ==
    report \notin Terminal \cup {"none"} => readFailed /\ kind \in {"update", "delete"}

\* Progress messages and timeouts find a handler in the state they arrive in,
\* except in synchronizing, which they reach only when a Read has failed.
EveryMessageHandled == state = "terminated" => readFailed

\* The update comes to an end: its row gets a terminal state and keeps one,
\* whatever operator, plugin and crashes do; only the read of a sync that a
\* crash has cut off is abandoned (ReRunIncompleteCommands).  Calls do not fail
\* here, and no Read does.
UpdateConcludes ==
    <>[](\/ callErrors
         \/ readFailed
         \/ row.state \in Terminal
         \/ kind = "read" /\ state = "down")

\* What an updater reports is true: a success has been carried out, the state
\* is final, and the row of the update says the same (handleProgressUpdate,
\* updateState, onStateChange).
ReportIsTrue == SuccessIsReal /\ ReportsFinalState /\ RowAgreesWithReport

\* Where updater and operator may part, and where not: no operator works on after
\* the progress that ends its operation, a success or a rejection; a wait has a
\* timeout unless it is that of a delete whose call has failed; and a message
\* without a handler ends the updater only after a failed Read.
NeverPart ==
    /\ TypeOK
    /\ NoOrphanedOperator
    /\ ReportEndsOperation
    /\ WaitsWithTimeout
    /\ EveryMessageHandled

\* The update of this updater, and its row as the executor knows it: what is
\* recorded before the report counts as progress.
ThisUpdate == [uri |-> "uri", key |-> "key", op |-> kind, ns |-> "ns", deps |-> {}, moved |-> FALSE]

SeenRow == IF report = "none" /\ row.state # "NotStarted" THEN "InProgress" ELSE row.state

\* The executor of this update alone, waiting for its updater.
Executor == INSTANCE ChangesetExecutor WITH
    Changesets <- {}, Reports <- UpdateStates \ {"NotStarted"}, Environments <- {},
    Namespaces <- {}, Capacity <- << >>, pipeline <- << >>, exec <- "processing",
    timer <- FALSE, bucket <- << >>, elapsed <- << >>,
    ops <- {ThisUpdate},
    env <- [callErrors |-> callErrors, otherTraffic |-> FALSE],
    updater <- [u \in {ThisUpdate} |-> IF report = "none" THEN "running" ELSE "finished"],
    inbox <- IF report = "none" THEN {}
             ELSE {[uri |-> ThisUpdate.uri, state |-> report, from |-> ThisUpdate]},
    rows <- [u \in {ThisUpdate} |-> SeenRow]

\* The updater is what the executor takes it for: seen from there every step
\* records progress, or reports a state that the row gets too unless the call
\* that writes it fails, or is no step at all (handleProgressUpdate,
\* onStateChange).  A rerun whose calls fail is not: the row may keep what an
\* earlier run has written.
ServesExecutor ==
    [][crashes' = crashes /\ (crashes = 0 \/ ~callErrors) =>
          \/ Executor!UpdaterProgress(ThisUpdate)
          \/ \E s \in UpdateStates \ {"NotStarted"} : Executor!UpdaterFinishes(ThisUpdate, s)
          \/ UNCHANGED <<Executor!vars>>]_vars

=============================================================================
