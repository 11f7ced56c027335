-------------------------- MODULE ChangesetExecutor --------------------------
(***************************************************************************)
(* The ChangesetExecutor actor with its surroundings: the pipeline it owns *)
(* (Changeset), the tokens it asks for (RateLimiter), the resource         *)
(* updaters it spawns, their ResourceUpdateFinished messages, and the rows *)
(* of the command that updaters and executor write through the             *)
(* FormaCommandPersister.  internal/metastructure/changeset.               *)
(*                                                                         *)
(* A message handler is one step, with every call it makes.  An updater is *)
(* what the executor knows of it: it is started, may record progress, and  *)
(* reports one final state; ResourceUpdater is the actor in full.          *)
(***************************************************************************)
EXTENDS FormaCommandPersister, RateLimiter

CONSTANTS Changesets,   \* the sets of resource updates a command may have
          Reports,      \* the states updaters may report
          Environments  \* [callErrors: whether calls to other actors may fail,
                        \*  otherTraffic: whether other executors use the rate
                        \*  limiter too]

ASSUME ChangesetsAssumption ==
    \A c \in Changesets : /\ WellFormed(SplitReplace(c))
                          /\ IsFiniteSet(SplitReplace(c))

ASSUME ReportsAssumption == Reports \subseteq States \ {"NotStarted"}

ASSUME EnvironmentsAssumption ==
    Environments \subseteq [callErrors : BOOLEAN, otherTraffic : BOOLEAN]

VARIABLES ops,          \* the updates of the changeset
          env,          \* the environment of this behaviour
          pipeline,     \* its pipeline
          exec,         \* the state of the executor's state machine
          timer,        \* the rate-limit timeout (a Resume to itself) is pending
          updater,      \* the resource updater of each update
          inbox,        \* ResourceUpdateFinished messages not handled yet
          rows          \* the rows of the stored command

vars == <<ops, env, pipeline, exec, timer, updater, inbox, rows, bucket, elapsed>>

ExecStates == {"refused", "not_started", "processing", "finished_successfully",
               "finished_with_error"}

Finished == {"finished_successfully", "finished_with_error"}

-----------------------------------------------------------------------------
(***************************************************************************)
(* The executor.                                                           *)
(***************************************************************************)

\* The executor is started for updates without a cycle only, once the command
\* is stored.
Init ==
    /\ ops \in {SplitReplace(c) : c \in Changesets}
    /\ env \in Environments
    /\ pipeline = NewPipeline(ops)
    /\ exec = IF HasCycles(ops) THEN "refused" ELSE "not_started"
    /\ timer = FALSE
    /\ updater = [u \in ops |-> "none"]
    /\ inbox = {}
    /\ rows = NewRows(ops)
    /\ InitLimiter

\* The namespaces p has executable updates of, with their number.
Requests(p) ==
    [ns \in {u.ns : u \in Executable(p)} |-> Cardinality(Available(p, ns))]

InNamespace(S, ns) == {u \in S : u.ns = ns}

\* resume for the namespaces in N: tokens are requested and as many updates
\* as were granted are marked as started; which ones, the iteration order of
\* a map decides.
Take(p, N, S) ==
    LET n == [ns \in N |-> Requests(p)[ns]]
    IN  /\ S \subseteq {u \in Executable(p) : u.ns \in N}
        /\ \A ns \in N : Cardinality(InNamespace(S, ns)) = Granted(ns, n[ns])
        /\ pipeline' = MarkStarted(p, S)
        /\ RequestTokens(n)

Spawn(S) == updater' = [u \in ops |-> IF u \in S THEN "running" ELSE updater[u]]

\* Mutant: a shortage of tokens is not noticed.
ShortNever(p) == FALSE

\* The tokens granted for p do not suffice.
Short(p) ==
    \E ns \in DOMAIN Requests(p) : Granted(ns, Requests(p)[ns]) < Requests(p)[ns]

\* resume: all namespaces are served, and the timeout is set, or stays set,
\* when tokens do not suffice.
ResumeWith(p, pending) ==
    /\ \E S \in SUBSET Executable(p) : Take(p, DOMAIN Requests(p), S) /\ Spawn(S)
    /\ timer' = (pending \/ Short(p))
    /\ exec' = "processing"

\* resume gives up: of the namespaces in N, served before, the last one may
\* have updates that were marked but whose updater could not be started.
ResumeFails(p) ==
    /\ env.callErrors
    /\ \E N \in SUBSET DOMAIN Requests(p), S \in SUBSET Executable(p) :
          /\ Take(p, N, S)
          /\ \E T \in SUBSET S :
                /\ \/ T = S /\ N # DOMAIN Requests(p)
                   \/ T # S /\ \E ns \in N : S \ T \subseteq InNamespace(S, ns)
                /\ Spawn(T)
    /\ exec' = "finished_with_error"
    /\ timer' = FALSE

\* start
Start ==
    /\ exec = "not_started"
    /\ \/ /\ ~IsComplete(pipeline)
          /\ ResumeWith(pipeline, FALSE) \/ ResumeFails(pipeline)
       \/ /\ IsComplete(pipeline) \/ env.callErrors    \* EnsureResolveCache failed
          /\ exec' = "finished_with_error"
          /\ UNCHANGED <<pipeline, timer, updater, limiterVars>>
    /\ UNCHANGED <<ops, env, inbox, rows>>

\* resume, on the timeout
Resume ==
    /\ exec = "processing"
    /\ timer
    /\ ResumeWith(pipeline, FALSE) \/ ResumeFails(pipeline)
    /\ UNCHANGED <<ops, env, inbox, rows>>

\* The updates in the pipeline that resourceUpdateFinished takes m to be about.
Candidates(m) ==
    {u \in pipeline.groups : u.uri = m.uri /\ pipeline.state[u] = "InProgress"}

\* resourceUpdateFinished
ResourceUpdateFinished(m) ==
    /\ exec = "processing"
    /\ inbox' = inbox \ {m}
    /\ \/ /\ Candidates(m) = {}
          /\ UNCHANGED <<pipeline, exec, timer, updater, rows, limiterVars>>
       \/ \E u \in Candidates(m) :
             \E recorded \in {SetState(pipeline, {u}, m.state)} :
             \E p \in {UpdatePipeline(ops, recorded, u)},
                failed \in {CascadingFailures(ops, recorded, u)} :
                 /\ \/ rows' = MarkResourcesAsFailed(rows, {v.uri : v \in failed})
                    \/ env.callErrors /\ failed # {} /\ rows' = rows
                 /\ \/ /\ IsComplete(p)
                       /\ pipeline' = p
                       /\ exec' = "finished_successfully"
                       /\ timer' = FALSE
                       /\ UNCHANGED <<updater, limiterVars>>
                    \/ /\ ~IsComplete(p)
                       /\ ResumeWith(p, timer) \/ ResumeFails(p)
    /\ UNCHANGED <<ops, env>>

-----------------------------------------------------------------------------
(***************************************************************************)
(* Its surroundings.                                                       *)
(***************************************************************************)

\* An updater persists the progress of a plugin operation.
UpdaterProgress(u) ==
    /\ updater[u] = "running"
    /\ rows[u] # "InProgress"
    /\ rows' = UpdateFromProgress(rows, u, "InProgress")
    /\ UNCHANGED <<ops, env, pipeline, exec, timer, updater, inbox, limiterVars>>

\* An updater persists its final state, s, and reports it.  The progress of its
\* last plugin operation is persisted first, with the state this gives the
\* update; a later error of the updater makes it fail even so, and an updater
\* that fails before, or with progress that names no operation, writes none to
\* its own row.  Only an update is ever rejected, and only the failed Read of an
\* update or delete is reported with a state that is not final.
UpdaterFinishes(u, s) ==
    /\ updater[u] = "running"
    /\ s = "Rejected" => u.op = "update"
    /\ s \notin Terminal => u.op \in {"update", "delete"}
    /\ \E written \in {rows} \cup
                      {UpdateFromProgress(rows, u, t) : t \in {"InProgress", "Success", "Failed"}} :
          /\ s = "Success" => written[u] = "Success"
          /\ s \notin Terminal => written[u] # "Success"
          /\ \/ rows' = MarkResourceUpdateAsComplete(written, u.uri, s)
             \/ env.callErrors /\ rows' = written
    /\ updater' = [updater EXCEPT ![u] = "finished"]
    /\ inbox' = inbox \cup {[uri |-> u.uri, state |-> s, from |-> u]}
    /\ UNCHANGED <<ops, env, pipeline, exec, timer, limiterVars>>

\* A second passes.
Tick ==
    /\ SecondPasses
    /\ UNCHANGED <<ops, env, pipeline, exec, timer, updater, inbox, rows>>

\* Another executor takes tokens.
OtherExecutor ==
    /\ env.otherTraffic
    /\ \E ns \in Namespaces : Replenished(ns) > 0 /\ RequestTokens([x \in {ns} |-> 1])
    /\ UNCHANGED <<ops, env, pipeline, exec, timer, updater, inbox, rows>>

Next ==
    \/ Start
    \/ Resume
    \/ \E m \in inbox : ResourceUpdateFinished(m)
    \/ \E u \in ops : UpdaterProgress(u)
    \/ \E u \in ops, s \in Reports : UpdaterFinishes(u, s)
    \/ Tick
    \/ OtherExecutor

Spec == Init /\ [][Next]_vars

\* Something happens while it can: the scheduler runs an actor whose mailbox is
\* not empty, timeouts fire, time passes, and a started updater reports; other
\* executors may stay idle.
Fairness ==
    WF_vars(\/ Start
            \/ Resume
            \/ \E m \in inbox : ResourceUpdateFinished(m)
            \/ \E u \in ops, s \in Reports : UpdaterFinishes(u, s)
            \/ Tick)

FairSpec == Spec /\ Fairness

-----------------------------------------------------------------------------
(***************************************************************************)
(* Properties.                                                             *)
(***************************************************************************)

\* Type correctness.  No token bucket is overdrawn, and messages and rows are
\* about updates of the changeset (resume, HandleCall of the rate limiter).
TypeOK ==
    /\ pipeline \in Pipelines(ops)
    /\ exec \in ExecStates
    /\ timer \in BOOLEAN
    /\ updater \in [ops -> {"none", "running", "finished"}]
    /\ rows \in [ops -> States]
    /\ inbox \subseteq [uri : {u.uri : u \in ops}, state : Reports, from : ops]
    /\ LimiterTypeOK

\* An updater is spawned only once every update it depends on has succeeded:
\* dependencies before dependents on create and update, the reverse on delete,
\* the delete half of a replacement before the create half (the links of
\* buildOperationRelationships, kept up to date by UpdatePipeline).
StartsInOrder ==
    \A u \in ops : updater[u] # "none" =>
        \A d \in Upstream(ops, u) : pipeline.state[d] = "Success"

\* What depends on a failed or rejected update is failed with it and never
\* spawned, however the failures of several updates interleave
\* (failResourceUpdate).
FailuresCascade ==
    \A u \in ops : pipeline.state[u] \in {"Failed", "Rejected"} =>
        \A d \in Downstream(ops, u) :
            pipeline.state[d] = "Failed" /\ updater[d] = "none"

\* A processing executor always has something to wait for: a running updater,
\* a message, or its own timeout.  It never sits on executable updates that
\* nothing will wake it up for (HasCycles, and resume's finished flag).
NeverStuck ==
    exec = "processing" =>
        timer \/ inbox # {} \/ \E u \in ops : updater[u] = "running"

\* ResourceUpdateFinished names the resource, not the operation: the lookup of
\* resourceUpdateFinished still finds the update that was sent by, because the
\* two halves of a replacement never run at the same time.
MessageFindsItsUpdate ==
    \A m \in inbox : Candidates(m) = {m.from}

\* A changeset that finished successfully left nothing behind: every update is
\* terminal and no updater runs, and when no call has failed every row of the
\* command is terminal too (IsComplete, and the two writers of the rows).
NothingLeftBehind ==
    exec = "finished_successfully" =>
        /\ \A u \in ops : pipeline.state[u] \in Terminal /\ updater[u] # "running"
        /\ env.callErrors \/ OverallCommandState(rows) # "InProgress"

\* The row of u, the create half of a move and stored first, has the success of
\* the delete half, until the create itself reports; which it never does when
\* what it refers to has failed.
BorrowsSuccess(u) ==
    /\ u.moved /\ u.op = "create" /\ updater[u] # "finished"
    /\ \E d \in ops : d.uri = u.uri /\ d.op = "delete" /\ updater[d] = "finished"

\* The command never claims success for an update that has not succeeded, once
\* the executor has dealt with the update's report (rows are found by KSUID,
\* which the halves of a replacement share).  The create half of a move is the
\* exception.  Where calls fail, an executor that has given up no longer hears of
\* its updaters.
NoFalseSuccess ==
    ~env.callErrors => \A u \in ops : rows[u] = "Success" =>
        \/ pipeline.state[u] = "Success"
        \/ \E m \in inbox : m.from = u
        \/ BorrowsSuccess(u)

\* A changeset is refused by HasCycles exactly when it could not be executed to
\* its end: some of its updates would wait for each other for ever.
CyclesAreDeadlocks ==
    exec = "refused" <=>
        \E S \in (SUBSET ops) \ {{}} : \A g \in S : Upstream(ops, g) \cap S # {}

\* The order in which buildOperationRelationships puts the updates (deletes
\* reversed, the halves of a replacement delete first) never closes a circle by
\* itself: a changeset is refused only for references that go in a circle,
\* among its deletes or among its creates and updates.
CyclesComeFromReferences ==
    exec = "refused" <=>
        \E R \in {{u \in ops : u.op = "delete"}, {u \in ops : IsCreateOrUpdate(u)}} :
            \E S \in (SUBSET R) \ {{}} : \A g \in S : \E h \in S : h.uri \in g.deps

\* No update is executed twice: an updater that has reported is not spawned
\* again (trackedUpdates and the state of the update).
ExecutedOnce ==
    [][\A u \in ops : updater[u] = "finished" => updater'[u] = "finished"]_vars

Order == INSTANCE DependencyOrder WITH st <- pipeline.state

\* The executor implements DependencyOrder: seen through the states of the
\* pipeline, every handler starts what may start, records the end of an update,
\* or fails what depends on it, and nothing else.
ImplementsOrder == Order!Spec

\* Execution comes to an end when every updater reports a final state (Reports;
\* a failed Read of an update or delete may not), whichever updates and calls
\* fail, and when no call has failed the command with it: from then on no row is
\* left that is not terminal.  Other executors could take every token for ever,
\* so there are none here.
CommandCompletes ==
    <>[](~env.otherTraffic =>
            /\ exec \in Finished \cup {"refused"}
            /\ exec # "refused" /\ ops # {} /\ ~env.callErrors =>
                   OverallCommandState(rows) # "InProgress")

\* The rows of the command tell the truth: they are well typed, as messages and
\* tokens are, none claims a success that was not, and a changeset that finished
\* leaves none behind (the two writers of the rows, updaters and executor, and
\* IsComplete).
RowsTellTheTruth == TypeOK /\ NoFalseSuccess /\ NothingLeftBehind

\* HasCycles refuses a changeset exactly when its updates would wait for each
\* other for ever, and only for references that go in a circle.
CyclesAreRefused == CyclesAreDeadlocks /\ CyclesComeFromReferences

=============================================================================
