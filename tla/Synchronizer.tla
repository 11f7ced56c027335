---------------------------- MODULE Synchronizer ----------------------------
(***************************************************************************)
(* The Synchronizer actor: internal/metastructure/synchronizer.go.         *)
(*                                                                         *)
(* It reads every resource of the inventory with a sync command, on a      *)
(* schedule and on request. The schedule is a single delayed message that  *)
(* is sent again at the end of every scheduled sync, so what has to be     *)
(* right is that this message is neither lost nor multiplied, whatever     *)
(* requests arrive meanwhile and whichever call fails.                     *)
(***************************************************************************)
EXTENDS Naturals, Sequences

CONSTANTS CommandIDs,    \* identities of sync commands; "none" is no command
          Enabled,       \* SynchronizationConfig.Enabled
          MaxForces,     \* bound on requests for a sync
          MaxFailures    \* bound on failing calls (each restarts the actor)

ASSUME SynchronizerAssumption ==
    /\ "none" \notin CommandIDs
    /\ Enabled \in BOOLEAN
    /\ MaxForces \in Nat /\ MaxFailures \in Nat

VARIABLES syncState,        \* state of the state machine
          isScheduledSync,  \* what the last Synchronize asked for
          commandID,        \* the command whose end is awaited
          inbox,            \* mailbox of the actor
          timers,           \* SendAfter messages that have not fired
          executors,        \* sync commands whose ChangesetExecutor runs
          incomplete,       \* sync commands stored as not finished
          hung,             \* sync commands with an updater that will not report
          forces, failures

vars == <<syncState, isScheduledSync, commandID, inbox, timers, executors,
          incomplete, hung, forces, failures>>

Synchronize(once) == [type |-> "Synchronize", once |-> once, id |-> "none"]
ChangesetCompleted(id) == [type |-> "ChangesetCompleted", once |-> FALSE, id |-> id]
Message == {Synchronize(b) : b \in BOOLEAN} \cup {ChangesetCompleted(c) : c \in CommandIDs}

\* The message the actor sends itself when it starts.
FirstMessages == IF Enabled THEN <<Synchronize(FALSE)>> ELSE <<>>

Init ==
    /\ syncState = "idle"
    /\ isScheduledSync = FALSE
    /\ commandID = "none"
    /\ inbox = FirstMessages
    /\ timers = 0
    /\ executors = {} /\ incomplete = {} /\ hung = {}
    /\ forces = 0 /\ failures = 0

-----------------------------------------------------------------------------
\* Mutant: the end of any sync schedules the next one.
AlwaysSchedule(scheduled) == timers' = timers + 1

\* Mutant: the end of a sync schedules nothing.
NeverSchedule(scheduled) == timers' = timers

scheduleNextSync(scheduled) ==
    timers' = timers + (IF scheduled THEN 1 ELSE 0)

\* TerminateReasonPanic: the supervisor starts the actor anew, with an empty
\* mailbox; timers and reports addressed to the old process are lost.
Restart ==
    /\ failures < MaxFailures
    /\ failures' = failures + 1
    /\ syncState' = "idle"
    /\ isScheduledSync' = FALSE
    /\ commandID' = "none"
    /\ inbox' = FirstMessages
    /\ timers' = 0

\* The first message of the mailbox is m.
Receives(m) == inbox # <<>> /\ Head(inbox) = m

\* synchronize while a sync is running: the flag is set, nothing is started.
SynchronizeAgain(once) ==
    /\ syncState = "synchronizing"
    /\ Receives(Synchronize(once))
    /\ isScheduledSync' = ~once
    /\ inbox' = Tail(inbox)
    /\ UNCHANGED <<syncState, commandID, timers, executors, incomplete, hung, forces, failures>>

\* synchronizeAllResources finds nothing in the inventory.
NothingToSynchronize(once) ==
    /\ syncState = "idle"
    /\ Receives(Synchronize(once))
    /\ isScheduledSync' = ~once
    /\ inbox' = Tail(inbox)
    /\ scheduleNextSync(~once)
    /\ UNCHANGED <<syncState, commandID, executors, incomplete, hung, forces, failures>>

\* synchronizeAllResources stores a command for all resources, asks for its
\* executor and starts it.
SynchronizeAllResources(once) ==
    /\ syncState = "idle"
    /\ Receives(Synchronize(once))
    /\ \E id \in CommandIDs \ (executors \cup incomplete \cup {commandID}) :
          /\ commandID' = id
          /\ executors' = executors \cup {id}
          /\ incomplete' = incomplete \cup {id}
    /\ isScheduledSync' = ~once
    /\ syncState' = "synchronizing"
    /\ inbox' = Tail(inbox)
    /\ UNCHANGED <<timers, hung, forces, failures>>

\* A call fails: before the command is stored, or after (no executor for it
\* is running then, and the stored command is never finished).
SynchronizeFails(once) ==
    /\ syncState = "idle"
    /\ Receives(Synchronize(once))
    /\ \/ incomplete' = incomplete
       \/ \E id \in CommandIDs \ (executors \cup incomplete \cup {commandID}) :
             incomplete' = incomplete \cup {id}
    /\ Restart
    /\ UNCHANGED <<executors, hung, forces>>

\* changesetCompleted, and onStateChange with it. The branch for a command
\* that is not awaited is left out: AwaitsARunningCommand shows it is dead.
SyncCompleted(id) ==
    /\ syncState = "synchronizing"
    /\ Receives(ChangesetCompleted(id))
    /\ \/ /\ id = commandID
          /\ syncState' = "idle"
          /\ scheduleNextSync(isScheduledSync)
          /\ inbox' = Tail(inbox)
          /\ UNCHANGED <<isScheduledSync, commandID, failures>>
       \/ /\ id = commandID /\ isScheduledSync
          /\ Restart                               \* SendAfter fails
    /\ UNCHANGED <<executors, incomplete, hung, forces>>

\* A Read of the sync fails in a way its plugin operator would recover from:
\* the updater has no handler for that, and does not report (NeverPart and
\* UpdateConcludes of ResourceUpdater except this case), so the executor waits on.
ReadHangs(id) ==
    /\ id \in executors \ hung
    /\ hung' = hung \cup {id}
    /\ UNCHANGED <<syncState, isScheduledSync, commandID, inbox, timers, executors, incomplete,
                   forces, failures>>

\* The executor of a sync command finishes: it marks the command as complete
\* and reports to the actor that asked for it.
ExecutorFinishes(id) ==
    /\ id \in executors \ hung
    /\ executors' = executors \ {id}
    /\ incomplete' = incomplete \ {id}
    /\ inbox' = IF id = commandID THEN Append(inbox, ChangesetCompleted(id)) ELSE inbox
    /\ UNCHANGED <<syncState, isScheduledSync, commandID, timers, hung, forces, failures>>

\* The interval has passed since SendAfter.
TimerFires ==
    /\ timers > 0
    /\ timers' = timers - 1
    /\ inbox' = Append(inbox, Synchronize(FALSE))
    /\ UNCHANGED <<syncState, isScheduledSync, commandID, executors, incomplete, hung,
                   forces, failures>>

\* Metastructure.ForceSync.
ForceSync ==
    /\ forces < MaxForces
    /\ forces' = forces + 1
    /\ inbox' = Append(inbox, Synchronize(TRUE))
    /\ UNCHANGED <<syncState, isScheduledSync, commandID, timers, executors,
                   incomplete, hung, failures>>

Handle == \/ \E once \in BOOLEAN : \/ SynchronizeAgain(once)
                                   \/ NothingToSynchronize(once)
                                   \/ SynchronizeAllResources(once)
                                   \/ SynchronizeFails(once)
          \/ \E id \in CommandIDs : SyncCompleted(id)

Next == \/ Handle
        \/ \E id \in CommandIDs : ExecutorFinishes(id)
        \/ \E id \in CommandIDs : ReadHangs(id)
        \/ TimerFires
        \/ ForceSync

Spec == Init /\ [][Next]_vars

\* The actor runs while its mailbox has messages, timers fire, and executors
\* finish if all their updaters report (CommandCompletes of ChangesetExecutor).
FairSpec == /\ Spec
            /\ WF_vars(Handle)
            /\ WF_vars(TimerFires)
            /\ \A id \in CommandIDs : WF_vars(ExecutorFinishes(id))

-----------------------------------------------------------------------------
TypeOK ==
    /\ syncState \in {"idle", "synchronizing"}
    /\ isScheduledSync \in BOOLEAN
    /\ commandID \in CommandIDs \cup {"none"}
    /\ inbox \in Seq(Message)
    /\ timers \in Nat
    /\ executors \subseteq CommandIDs /\ incomplete \subseteq CommandIDs
    /\ hung \subseteq CommandIDs
    /\ forces \in Nat /\ failures \in Nat

AtMostOne(S) == \A x, y \in S : x = y
Positions(m) == {i \in DOMAIN inbox : inbox[i] = m}

\* A scheduled sync that is running will schedule the next one.
ScheduleInProgress == syncState = "synchronizing" /\ isScheduledSync

\* The schedule never multiplies: of the timer, the scheduled request in the
\* mailbox and the scheduled sync in progress there is at most one, however
\* forced syncs and restarts of the actor interleave with it.
OneSchedule ==
    /\ timers <= 1
    /\ timers = 1 => Positions(Synchronize(FALSE)) = {}
    /\ AtMostOne(Positions(Synchronize(FALSE)))
    /\ ScheduleInProgress => Positions(Synchronize(FALSE)) = {} /\ timers = 0
    /\ ~Enabled => ~ScheduleInProgress /\ timers = 0 /\ Positions(Synchronize(FALSE)) = {}

\* The actor waits for a command exactly while that command can still report
\* to it: its executor runs, or its one report is in the mailbox (changesetCompleted has
\* no handler in idle, where a report would end the actor).
AwaitsARunningCommand ==
    /\ syncState = "synchronizing" =>
          \/ commandID \in executors /\ Positions(ChangesetCompleted(commandID)) = {}
          \/ commandID \notin executors /\ Positions(ChangesetCompleted(commandID)) # {}
    /\ \A id \in CommandIDs :
          /\ Positions(ChangesetCompleted(id)) # {} => syncState = "synchronizing" /\ id = commandID
          /\ AtMostOne(Positions(ChangesetCompleted(id)))

\* Only one sync reads the inventory at a time, and a sync command is
\* incomplete in the datastore while it runs.
OneSyncAtATime ==
    /\ \A c, d \in executors : c = d
    /\ executors \subseteq incomplete

\* A forced sync that is requested during a scheduled one makes the end of that
\* one schedule nothing.
Overtaken == ScheduleInProgress /\ Positions(Synchronize(TRUE)) # {}

Scheduled == \/ NothingToSynchronize(FALSE)
             \/ SynchronizeAllResources(FALSE)

\* "It runs on a scheduled interval": a scheduled sync is looked at by an
\* idle synchronizer again and again, through empty inventories, forced syncs,
\* failing calls and restarts (scheduleNextSync, changesetCompleted).  Two
\* things end the schedule: a forced sync that overtakes a scheduled one, and a
\* sync that is awaited for ever because one of its Reads hangs.
RunsOnSchedule ==
    Enabled => <>Overtaken \/ <>[](syncState = "synchronizing" /\ commandID \in hung)
                           \/ []<><<Scheduled>>_vars

\* There is one schedule, one sync at a time, and the one that is awaited is the
\* one that runs, however forced syncs, failing calls and restarts of the actor
\* interleave with it (synchronize, scheduleNextSync, changesetCompleted).
NoStraySync == TypeOK /\ OneSchedule /\ AwaitsARunningCommand /\ OneSyncAtATime

=============================================================================
