-------------------------- MODULE CommandCompletion --------------------------
(***************************************************************************)
(* The values in a stored command, from its submission to its completion   *)
(* and over crashes.  Updaters work on the values the command was loaded   *)
(* with and hand them to the plugin; the FormaCommandPersister writes them *)
(* to the rows and, when the executor has finished, replaces those that    *)
(* are opaque by their hashes.  ReRunIncompleteCommands starts again from  *)
(* the rows.                                                               *)
(*                                                                         *)
(* Every update has one opaque value, in clear or as its hash; a delete    *)
(* has that of the stored resource, which is hashed already.  The executor *)
(* is reduced to the order of its updates and to its end; what it does in  *)
(* between is ChangesetExecutor's, what an updater does ResourceUpdater's. *)
(***************************************************************************)
EXTENDS FormaCommandPersister

CONSTANTS Commands,      \* sets of resource updates
          ExecutorFails, \* values of executorFails
          MaxCrashes

ASSUME CompletionAssumption ==
    /\ \A c \in Commands : WellFormed(c)
    /\ ExecutorFails \subseteq BOOLEAN
    /\ MaxCrashes \in Nat

VARIABLES ops,           \* the updates of the command
          rows, vals,    \* the stored command: the state and the value of each update
          progress,      \* updates with a stored record of the plugin's success
          exec,          \* "running", "finishing", "ended" or "down"
          state, mem,    \* the updates in memory: their states and their values
          given,         \* what the plugin was given
          executorFails, \* a call of the executor may fail
          crashes

vars == <<ops, rows, vals, progress, exec, state, mem, given, executorFails, crashes>>

\* The value an update is generated with.
Loaded(u) == IF u.op = "delete" THEN "hash" ELSE "clear"

Init ==
    /\ ops \in Commands
    /\ rows = NewRows(ops) /\ vals = [u \in ops |-> Loaded(u)] /\ progress = {}
    /\ exec = "running" /\ state = NewRows(ops) /\ mem = vals
    /\ given = [u \in ops |-> {}] /\ executorFails \in ExecutorFails /\ crashes = 0

\* The executor spawns an updater for an update whose turn has come.
Start(u) ==
    /\ exec = "running" /\ state[u] = "NotStarted"
    /\ \A d \in Upstream(ops, u) : state[d] = "Success"
    /\ state' = [state EXCEPT ![u] = "InProgress"]
    /\ UNCHANGED <<ops, rows, vals, progress, exec, mem, given, crashes>>

\* The plugin is called, unless a stored record shows that it was, and its
\* success recorded: the state and no properties (updateCommandFromProgress).
\* Updaters go on when the executor has ended.
PluginSucceeds(u) ==
    /\ exec # "down" /\ state[u] = "InProgress" /\ u \notin progress
    /\ given' = [given EXCEPT ![u] = @ \cup {mem[u]}]
    /\ progress' = progress \cup {u}
    /\ rows' = UpdateFromProgress(rows, u, "Success")
    /\ UNCHANGED <<ops, vals, exec, state, mem, crashes>>

\* Mutant: a completed update has the whole command hashed.
CompleteAndHash(u, s) ==
    /\ rows' = MarkResourceUpdateAsComplete(rows, u.uri, s)
    /\ vals' = [v \in ops |-> "hash"]

\* markResourceUpdateAsComplete, with the properties the updater has.
Complete(u, s) ==
    /\ rows' = MarkResourceUpdateAsComplete(rows, u.uri, s)
    /\ vals' = [vals EXCEPT ![FirstRow(rows, u.uri)] = mem[u]]

UpdaterSucceeds(u) ==
    /\ exec # "down" /\ state[u] = "InProgress" /\ u \in progress
    /\ state' = [state EXCEPT ![u] = "Success"]
    /\ Complete(u, "Success")
    /\ UNCHANGED <<ops, progress, exec, mem, given, crashes>>

UpdaterFails(u) ==
    /\ exec # "down" /\ state[u] = "InProgress" /\ u \notin progress
    /\ state' = [state EXCEPT ![u] = "Failed"]
    /\ Complete(u, "Failed")
    /\ UNCHANGED <<ops, progress, exec, mem, given, crashes>>

\* resourceUpdateFinished of a failed update: it and what depends on it fail.
Cascades(u) ==
    /\ exec = "running" /\ state[u] = "Failed"
    /\ \E failed \in {{u} \cup Cascade(ops, [groups |-> ops, state |-> state], u)} :
        /\ \E v \in failed : state[v] # "Failed" \/ rows[v] # "Failed"
        /\ state' = [v \in ops |-> IF v \in failed THEN "Failed" ELSE state[v]]
        /\ rows' = MarkResourcesAsFailed(rows, {v.uri : v \in failed})
    /\ UNCHANGED <<ops, vals, progress, exec, mem, given, crashes>>

\* The changeset is complete and the executor finishes.
Finish ==
    /\ exec = "running"
    /\ \A u \in ops : state[u] \in Terminal
    /\ \A u \in ops : state[u] = "Failed" => rows[u] = "Failed"
    /\ exec' = "finishing"
    /\ UNCHANGED <<ops, rows, vals, progress, state, mem, given, crashes>>

\* A call has failed and it finishes with an error.
GiveUp ==
    /\ exec = "running" /\ executorFails
    /\ exec' = "finishing"
    /\ UNCHANGED <<ops, rows, vals, progress, state, mem, given, crashes>>

\* onStateChange calls markFormaCommandAsComplete, which hashes every row.
MarkFormaCommandAsComplete ==
    /\ exec = "finishing"
    /\ exec' = "ended"
    /\ vals' = [u \in ops |-> "hash"]
    /\ UNCHANGED <<ops, rows, progress, state, mem, given, crashes>>

\* The node stops: what is in memory is lost.
Crash ==
    /\ exec # "down" /\ crashes < MaxCrashes
    /\ crashes' = crashes + 1
    /\ exec' = "down"
    /\ state' = NewRows(ops)
    /\ UNCHANGED <<ops, rows, vals, progress, mem, given>>

\* Mutant: a command is only rerun when nothing of it has ended.
ReRunUntouched ==
    /\ exec = "down"
    /\ exec' = IF \A u \in ops : rows[u] \notin Terminal THEN "running" ELSE "ended"
    /\ mem' = vals
    /\ UNCHANGED <<ops, rows, vals, progress, state, given, crashes>>

\* ReRunIncompleteCommands: from the rows, with every update not started.
ReRun ==
    /\ exec = "down"
    /\ exec' = IF OverallCommandState(rows) = "InProgress" THEN "running" ELSE "ended"
    /\ mem' = vals
    /\ UNCHANGED <<ops, rows, vals, progress, state, given, crashes>>

Activity ==
    \/ \E u \in ops : \/ Start(u) \/ PluginSucceeds(u) \/ UpdaterSucceeds(u)
                      \/ UpdaterFails(u) \/ Cascades(u)
    \/ Finish
    \/ GiveUp
    \/ MarkFormaCommandAsComplete
    \/ Crash
    \/ ReRun

Next == Activity /\ UNCHANGED executorFails

Spec == Init /\ [][Next]_vars

\* Actors with a message are scheduled, plugins answer, an agent is restarted;
\* crashes need not happen.
FairSpec ==
    /\ Spec
    /\ \A u \in UNION Commands :
          /\ WF_vars(u \in ops /\ Start(u) /\ UNCHANGED executorFails)
          /\ WF_vars(/\ u \in ops /\ UNCHANGED executorFails
                     /\ PluginSucceeds(u) \/ UpdaterSucceeds(u) \/ UpdaterFails(u))
          /\ WF_vars(u \in ops /\ Cascades(u) /\ UNCHANGED executorFails)
    /\ WF_vars((Finish \/ MarkFormaCommandAsComplete \/ ReRun) /\ UNCHANGED executorFails)

-----------------------------------------------------------------------------
\* A plugin is given the values of the forma and never their hashes, through
\* any number of crashes and reruns: hashing is for commands that are complete
\* (markFormaCommandAsComplete).  An executor that gives up is excepted: it has
\* its command hashed too, and the next start reruns that command; and so is the
\* create of a resource that moves to another target, whose row takes the value
\* of the delete (markResourceUpdateAsComplete).
PluginGetsValues ==
    ~executorFails => \A u \in ops : u.op # "delete" /\ ~u.moved => "hash" \notin given[u]

\* A command the agent has been stopped in is in the end completed: every row
\* final, and successful only where the plugin has done its part
\* (ReRunIncompleteCommands); unless an executor gives up.  Where a resource
\* moves to another target a stop may come when the delete's success is in the
\* row of the create, and the command ends without it.
CommandSettles ==
    <>[](~executorFails => /\ OverallCommandState(rows) # "InProgress"
                           /\ exec = "ended"
                           /\ \A u \in ops : rows[u] = "Success" =>
                                    u \in progress \/ (u.moved /\ u.op = "create"))

=============================================================================
