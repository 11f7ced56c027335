------------------------- MODULE SynchronizerProofs -------------------------
(***************************************************************************)
(* Theorems about Synchronizer, for every set of command identities and    *)
(* any number of forced syncs and failing calls.                           *)
(***************************************************************************)
EXTENDS Synchronizer, TLAPS

\* Executors are those of the sync that is awaited: none is left behind when
\* the actor is idle, which is the only state a failing call can restart it in
\* with a command not yet finished.
ExecutorsAwaited ==
    /\ \A id \in executors : syncState = "synchronizing" /\ id = commandID
    /\ syncState = "synchronizing" => commandID \in CommandIDs

IInv == NoStraySync /\ ExecutorsAwaited

-----------------------------------------------------------------------------
\* OneSchedule, in terms of where the scheduled requests are.
Waiting == Positions(Synchronize(FALSE))

\* schedule, spelt out once for the prover.
LEMMA ScheduleDef ==
    OneSchedule <=> /\ timers <= 1
                    /\ timers = 1 => Waiting = {}
                    /\ AtMostOne(Waiting)
                    /\ ScheduleInProgress => Waiting = {} /\ timers = 0
                    /\ ~Enabled => ~ScheduleInProgress /\ timers = 0 /\ Waiting = {}
BY DEF OneSchedule, Waiting

\* The same in the next state.
LEMMA NextScheduleDef ==
    OneSchedule' <=> /\ timers' <= 1
                     /\ timers' = 1 => Waiting' = {}
                     /\ AtMostOne(Waiting')
                     /\ ScheduleInProgress' => Waiting' = {} /\ timers' = 0
                     /\ ~Enabled => ~ScheduleInProgress' /\ timers' = 0 /\ Waiting' = {}
BY DEF OneSchedule, Waiting

\* A mailbox with a single message.
LEMMA OneMessage ==
    ASSUME NEW m \in Message, NEW s, s = <<m>>
    PROVE  s \in Seq(Message) /\ DOMAIN s = 1 .. 1 /\ s[1] = m
OBVIOUS

\* A scheduled request is a message, and no completion.
LEMMA OnlyRequest ==
    Synchronize(FALSE) \in Message /\ \A c : Synchronize(FALSE) # ChangesetCompleted(c)
BY DEF Message, Synchronize, ChangesetCompleted

\* Where messages are once the first one has been taken from the mailbox.
LEMMA PositionsTail ==
    ASSUME inbox \in Seq(Message), inbox # << >>, inbox' = Tail(inbox), NEW m
    PROVE  /\ \A i \in Positions(m)' : i \in Nat /\ i + 1 \in Positions(m) /\ i + 1 # 1
           /\ \A i \in Positions(m) : i \in Nat /\ (i # 1 => i - 1 \in Positions(m)')
BY DEF Positions

\* Where messages are once one has been added to the mailbox.
LEMMA PositionsAppend ==
    ASSUME inbox \in Seq(Message), NEW n \in Message, inbox' = Append(inbox, n), NEW m
    PROVE  Positions(m)' = Positions(m) \cup (IF m = n THEN {Len(inbox) + 1} ELSE {})
BY DEF Positions

\* The messages, and that no two of them are the same.
LEMMA MessageType ==
    /\ \A b \in BOOLEAN : Synchronize(b) \in Message
    /\ \A c \in CommandIDs : ChangesetCompleted(c) \in Message
    /\ \A a, b \in BOOLEAN : a # b => Synchronize(a) # Synchronize(b)
    /\ \A b \in BOOLEAN : \A c : Synchronize(b) # ChangesetCompleted(c)
    /\ \A c, d : ChangesetCompleted(c) = ChangesetCompleted(d) => c = d
BY DEF Message, Synchronize, ChangesetCompleted

\* The first message is gone, and the rest of the mailbox is as it was.
LEMMA TakeFirst ==
    ASSUME inbox \in Seq(Message), NEW m, Receives(m), inbox' = Tail(inbox)
    PROVE  /\ inbox' \in Seq(Message)
           /\ 1 \in Positions(m)
           /\ AtMostOne(Positions(m)) => Positions(m)' = {}
           /\ \A n : Positions(n) = {} => Positions(n)' = {}
           /\ \A n : n # m /\ Positions(n) # {} => Positions(n)' # {}
           /\ \A n : AtMostOne(Positions(n)) => AtMostOne(Positions(n)')
<1>1. inbox # << >> /\ Head(inbox) = m
  BY DEF Receives
<1>2. inbox' \in Seq(Message)
  BY <1>1
<1>3. 1 \in Positions(m)
  BY <1>1 DEF Positions
<1>4. ASSUME AtMostOne(Positions(m)) PROVE Positions(m)' = {}
  BY <1>1, <1>3, <1>4, PositionsTail DEF AtMostOne
<1>5. ASSUME NEW n, Positions(n) = {} PROVE Positions(n)' = {}
  BY <1>1, <1>5, PositionsTail
<1>6. ASSUME NEW n, n # m, Positions(n) # {} PROVE Positions(n)' # {}
  <2>1. PICK i \in Positions(n) : TRUE
    BY <1>6
  <2>2. i # 1
    BY <1>1, <1>6, <2>1 DEF Positions
  <2> QED
    BY <1>1, <2>1, <2>2, PositionsTail
<1>7. ASSUME NEW n, AtMostOne(Positions(n)) PROVE AtMostOne(Positions(n)')
  <2> SUFFICES ASSUME NEW i \in Positions(n)', NEW j \in Positions(n)' PROVE i = j
    BY DEF AtMostOne
  <2>1. i \in Nat /\ j \in Nat /\ i + 1 \in Positions(n) /\ j + 1 \in Positions(n)
    BY <1>1, PositionsTail
  <2>2. i + 1 = j + 1
    BY <1>7, <2>1 DEF AtMostOne
  <2> QED
    BY <2>1, <2>2
<1> QED
  BY <1>2, <1>3, <1>4, <1>5, <1>6, <1>7

\* A request is taken from the mailbox: a scheduled one was the only one, and
\* reports stay where they are.
LEMMA TakeRequest ==
    ASSUME inbox \in Seq(Message), AtMostOne(Waiting),
           NEW once \in BOOLEAN, Receives(Synchronize(once)), inbox' = Tail(inbox)
    PROVE  /\ inbox' \in Seq(Message)
           /\ ~once => Waiting # {} /\ Waiting' = {}
           /\ Waiting = {} => Waiting' = {}
           /\ AtMostOne(Waiting')
           /\ \A c \in CommandIDs :
                 /\ Positions(ChangesetCompleted(c))' = {} <=> Positions(ChangesetCompleted(c)) = {}
                 /\ AtMostOne(Positions(ChangesetCompleted(c)))
                       => AtMostOne(Positions(ChangesetCompleted(c))')
<1>1. ASSUME ~once
      PROVE  Waiting # {} /\ Waiting' = {}
  <2>1. once = FALSE
    BY <1>1
  <2> QED
    BY <2>1, TakeFirst DEF Waiting
<1>2. \A c \in CommandIDs : ChangesetCompleted(c) # Synchronize(once)
  BY MessageType
<1> QED
  BY <1>1, <1>2, TakeFirst DEF Waiting

\* A restarted actor has at most the request it sends itself.
LEMMA RestartedMailbox ==
    ASSUME Restart
    PROVE  /\ inbox' \in Seq(Message)
           /\ AtMostOne(Waiting')
           /\ ~Enabled => Waiting' = {}
           /\ \A c : Positions(ChangesetCompleted(c))' = {}
<1>1. CASE Enabled
  <2>1. inbox' = <<Synchronize(FALSE)>>
    BY <1>1 DEF Restart, FirstMessages
  <2>2. inbox' \in Seq(Message) /\ DOMAIN inbox' = 1 .. 1 /\ inbox'[1] = Synchronize(FALSE)
    BY <2>1, OnlyRequest, OneMessage
  <2>3. \A c : Positions(ChangesetCompleted(c))' = {}
    <3>1. \A i \in 1 .. 1 : i = 1
      OBVIOUS
    <3> QED
      BY <2>2, <3>1, OnlyRequest DEF Positions
  <2>4. AtMostOne(Waiting')
    BY <2>2 DEF Positions, AtMostOne, Waiting
  <2> QED
    BY <1>1, <2>2, <2>3, <2>4
<1>2. CASE ~Enabled
  <2>1. inbox' = << >>
    BY <1>2 DEF Restart, FirstMessages
  <2> QED
    BY <2>1 DEF Positions, AtMostOne, Waiting
<1> QED
  BY <1>1, <1>2

\* The initial state is consistent.
LEMMA InitIInv == Init => IInv
<1> SUFFICES ASSUME Init PROVE IInv
  OBVIOUS
<1>1. CASE Enabled
  <2>1. inbox = <<Synchronize(FALSE)>>
    BY <1>1 DEF Init, FirstMessages
  <2>2. inbox \in Seq(Message) /\ DOMAIN inbox = 1 .. 1 /\ inbox[1] = Synchronize(FALSE)
    BY <2>1, OnlyRequest, OneMessage
  <2>3. \A c : Positions(ChangesetCompleted(c)) = {}
    <3>1. \A i \in 1 .. 1 : i = 1
      OBVIOUS
    <3> QED
      BY <2>2, <3>1, OnlyRequest DEF Positions
  <2>4. AtMostOne(Waiting)
    BY <2>2 DEF Positions, AtMostOne, Waiting
  <2>5. OneSchedule
    BY <1>1, <2>4, ScheduleDef DEF Init, ScheduleInProgress
  <2>6. AwaitsARunningCommand
    BY <2>3 DEF Init, AwaitsARunningCommand, AtMostOne
  <2> QED
    BY <2>2, <2>5, <2>6 DEF Init, IInv, NoStraySync, TypeOK, OneSyncAtATime, ExecutorsAwaited
<1>2. CASE ~Enabled
  <2>1. inbox = << >>
    BY <1>2 DEF Init, FirstMessages
  <2>2. \A m : Positions(m) = {}
    BY <2>1 DEF Positions
  <2>3. Waiting = {} /\ AtMostOne(Waiting)
    BY <2>2 DEF Waiting, AtMostOne
  <2>4. OneSchedule
    BY <2>3, ScheduleDef DEF Init, ScheduleInProgress
  <2>5. AwaitsARunningCommand
    BY <2>2 DEF Init, AwaitsARunningCommand, AtMostOne
  <2>6. inbox \in Seq(Message)
    BY <2>1
  <2> QED
    BY <2>4, <2>5, <2>6 DEF Init, IInv, NoStraySync, TypeOK, OneSyncAtATime, ExecutorsAwaited
<1> QED
  BY <1>1, <1>2

\* Every step keeps the schedule single and the awaited command running.
LEMMA StepIInv == IInv /\ [Next]_vars => IInv'
<1> SUFFICES ASSUME IInv, [Next]_vars PROVE IInv'
  OBVIOUS
<1> DEFINE D(c) == ChangesetCompleted(c)
<1>a. /\ TypeOK /\ OneSchedule /\ AwaitsARunningCommand /\ OneSyncAtATime
      /\ ExecutorsAwaited
  BY DEF IInv, NoStraySync
<1>b. inbox \in Seq(Message)
  BY <1>a DEF TypeOK
<1> USE SynchronizerAssumption
<1>1. ASSUME NEW once \in BOOLEAN, SynchronizeAgain(once) PROVE IInv'
  <2>1. Receives(Synchronize(once)) /\ inbox' = Tail(inbox)
    BY <1>1 DEF SynchronizeAgain
  <2>2. /\ inbox' \in Seq(Message)
        /\ ~once => Waiting # {} /\ Waiting' = {}
        /\ Waiting = {} => Waiting' = {}
        /\ AtMostOne(Waiting')
        /\ \A c \in CommandIDs : /\ Positions(D(c))' = {} <=> Positions(D(c)) = {}
                                 /\ AtMostOne(Positions(D(c))) => AtMostOne(Positions(D(c))')
    BY <1>a, <1>b, <2>1, TakeRequest, ScheduleDef
  <2>3. TypeOK'
    BY <1>1, <1>a, <2>2 DEF SynchronizeAgain, TypeOK
  <2>4. OneSchedule'
    BY <1>1, <1>a, <2>2, ScheduleDef, NextScheduleDef DEF SynchronizeAgain, TypeOK, ScheduleInProgress
  <2>5. AwaitsARunningCommand'
    <3>1. commandID \in CommandIDs /\ UNCHANGED <<syncState, commandID, executors>>
      BY <1>1, <1>a DEF SynchronizeAgain, TypeOK, AwaitsARunningCommand, ExecutorsAwaited
    <3> QED
      BY <1>a, <2>2, <3>1 DEF AwaitsARunningCommand
  <2> QED
    BY <1>1, <1>a, <2>3, <2>4, <2>5 DEF SynchronizeAgain, IInv, NoStraySync, OneSyncAtATime,
        ExecutorsAwaited
<1>2. ASSUME NEW once \in BOOLEAN, NothingToSynchronize(once) PROVE IInv'
  <2>1. Receives(Synchronize(once)) /\ inbox' = Tail(inbox)
    BY <1>2 DEF NothingToSynchronize
  <2>2. /\ inbox' \in Seq(Message)
        /\ ~once => Waiting # {} /\ Waiting' = {}
        /\ Waiting = {} => Waiting' = {}
        /\ AtMostOne(Waiting')
        /\ \A c \in CommandIDs : /\ Positions(D(c))' = {} <=> Positions(D(c)) = {}
                                 /\ AtMostOne(Positions(D(c))) => AtMostOne(Positions(D(c))')
    BY <1>a, <1>b, <2>1, TakeRequest, ScheduleDef
  <2>3. TypeOK'
    BY <1>2, <1>a, <2>2 DEF NothingToSynchronize, scheduleNextSync, TypeOK
  <2>4. OneSchedule'
    BY <1>2, <1>a, <2>2, ScheduleDef, NextScheduleDef DEF NothingToSynchronize, scheduleNextSync,
        TypeOK, ScheduleInProgress
  <2>5. AwaitsARunningCommand'
    BY <1>2, <1>a, <2>2 DEF NothingToSynchronize, TypeOK, AwaitsARunningCommand, AtMostOne
  <2> QED
    BY <1>2, <1>a, <2>3, <2>4, <2>5 DEF NothingToSynchronize, IInv, NoStraySync,
        OneSyncAtATime, ExecutorsAwaited
<1>3. ASSUME NEW once \in BOOLEAN, SynchronizeAllResources(once) PROVE IInv'
  <2>1. /\ syncState = "idle" /\ Receives(Synchronize(once)) /\ inbox' = Tail(inbox)
        /\ syncState' = "synchronizing" /\ isScheduledSync' = ~once
        /\ UNCHANGED <<timers, hung, forces, failures>>
    BY <1>3 DEF SynchronizeAllResources
  <2>2. PICK id \in CommandIDs \ (executors \cup incomplete \cup {commandID}) :
             /\ commandID' = id
             /\ executors' = executors \cup {id}
             /\ incomplete' = incomplete \cup {id}
    BY <1>3 DEF SynchronizeAllResources
  <2>3. /\ inbox' \in Seq(Message)
        /\ ~once => Waiting # {} /\ Waiting' = {}
        /\ Waiting = {} => Waiting' = {}
        /\ AtMostOne(Waiting')
        /\ \A c \in CommandIDs : Positions(D(c))' = {} <=> Positions(D(c)) = {}
    BY <1>a, <1>b, <2>1, TakeRequest, ScheduleDef
  <2>4. executors = {} /\ \A c \in CommandIDs : Positions(D(c))' = {}
    BY <1>a, <2>1, <2>3 DEF AwaitsARunningCommand, ExecutorsAwaited
  <2>5. TypeOK'
    BY <1>a, <2>1, <2>2, <2>3 DEF TypeOK
  <2>6. OneSchedule'
    <3>1. ScheduleInProgress' <=> ~once
      BY <2>1 DEF ScheduleInProgress
    <3> QED
      BY <1>a, <2>1, <2>3, <3>1, ScheduleDef, NextScheduleDef DEF TypeOK
  <2>7. AwaitsARunningCommand'
    BY <2>1, <2>2, <2>4 DEF AwaitsARunningCommand, AtMostOne
  <2> QED
    BY <1>a, <2>1, <2>2, <2>4, <2>5, <2>6, <2>7 DEF IInv, NoStraySync, OneSyncAtATime,
        ExecutorsAwaited
<1>4. ASSUME syncState = "idle" \/ executors = {}, Restart, executors' = executors,
             hung' = hung, forces' = forces, incomplete \subseteq incomplete', incomplete' \subseteq CommandIDs
      PROVE  IInv'
  <2>1. executors = {}
    BY <1>4, <1>a DEF ExecutorsAwaited
  <2>2. /\ inbox' \in Seq(Message)
        /\ AtMostOne(Waiting')
        /\ ~Enabled => Waiting' = {}
        /\ \A c : Positions(D(c))' = {}
    BY <1>4, RestartedMailbox
  <2>3. TypeOK'
    <3>1. isScheduledSync' \in BOOLEAN /\ commandID' \in CommandIDs \cup {"none"}
      BY <1>4 DEF Restart
    <3> QED
      BY <1>4, <1>a, <2>2, <3>1 DEF Restart, TypeOK
  <2>4. OneSchedule'
    BY <1>4, <2>2, NextScheduleDef DEF Restart, ScheduleInProgress
  <2>5. AwaitsARunningCommand'
    BY <1>4, <2>2 DEF Restart, AwaitsARunningCommand, AtMostOne
  <2> QED
    BY <1>4, <2>1, <2>3, <2>4, <2>5 DEF Restart, IInv, NoStraySync, OneSyncAtATime,
        ExecutorsAwaited
<1>5. ASSUME NEW once \in BOOLEAN, SynchronizeFails(once) PROVE IInv'
  <2>1. incomplete \subseteq incomplete' /\ incomplete' \subseteq CommandIDs
    BY <1>5, <1>a DEF SynchronizeFails, TypeOK
  <2> QED
    BY <1>4, <1>5, <2>1 DEF SynchronizeFails
<1>6. ASSUME NEW id \in CommandIDs, SyncCompleted(id) PROVE IInv'
  <2>1. /\ syncState = "synchronizing" /\ Receives(D(id)) /\ id = commandID
        /\ UNCHANGED <<executors, incomplete, hung, forces>>
    BY <1>6 DEF SyncCompleted
  <2>2. 1 \in Positions(D(id))
    BY <2>1, <1>b DEF Receives, Positions
  <2>3. executors = {}
    BY <1>a, <2>1, <2>2 DEF AwaitsARunningCommand, ExecutorsAwaited
  <2>4. CASE Restart
    BY <1>4, <1>a, <2>1, <2>3, <2>4 DEF TypeOK
  <2>5. CASE /\ syncState' = "idle"
             /\ scheduleNextSync(isScheduledSync)
             /\ inbox' = Tail(inbox)
             /\ UNCHANGED <<isScheduledSync, commandID, failures>>
    <3>1. /\ inbox' \in Seq(Message)
          /\ AtMostOne(Positions(D(id))) => Positions(D(id))' = {}
          /\ Waiting = {} => Waiting' = {}
          /\ AtMostOne(Waiting) => AtMostOne(Waiting')
          /\ \A c \in CommandIDs : Positions(D(c)) = {} => Positions(D(c))' = {}
      BY <1>b, <2>1, <2>5, TakeFirst DEF Waiting
    <3>2. \A c \in CommandIDs : Positions(D(c))' = {}
      BY <1>a, <2>1, <3>1 DEF AwaitsARunningCommand
    <3>3. TypeOK'
      BY <1>a, <2>1, <2>5, <3>1 DEF TypeOK, scheduleNextSync
    <3>4. OneSchedule'
      BY <1>a, <2>1, <2>5, <3>1, ScheduleDef, NextScheduleDef DEF TypeOK, ScheduleInProgress,
          scheduleNextSync
    <3>5. AwaitsARunningCommand'
      BY <2>5, <3>2 DEF AwaitsARunningCommand, AtMostOne
    <3> QED
      BY <1>a, <2>1, <2>3, <2>5, <3>3, <3>4, <3>5 DEF IInv, NoStraySync, OneSyncAtATime,
          ExecutorsAwaited
  <2> QED
    BY <1>6, <2>4, <2>5 DEF SyncCompleted
<1>7. ASSUME NEW id \in CommandIDs, ExecutorFinishes(id) PROVE IInv'
  <2>1. /\ id \in executors /\ id = commandID /\ syncState = "synchronizing"
        /\ executors' = executors \ {id} /\ incomplete' = incomplete \ {id}
        /\ inbox' = Append(inbox, D(id))
        /\ UNCHANGED <<syncState, isScheduledSync, commandID, timers, hung, forces, failures>>
    BY <1>7, <1>a DEF ExecutorFinishes, ExecutorsAwaited
  <2>2. executors' = {} /\ Positions(D(id)) = {}
    BY <1>a, <2>1 DEF ExecutorsAwaited, AwaitsARunningCommand
  <2>3. inbox' \in Seq(Message) /\ \A m : Positions(m)' = Positions(m) \cup
                                       (IF m = D(id) THEN {Len(inbox) + 1} ELSE {})
    BY <1>b, <2>1, MessageType, PositionsAppend
  <2>4. /\ Waiting' = Waiting
        /\ Positions(D(id))' = {Len(inbox) + 1}
        /\ \A c \in CommandIDs : c # id => Positions(D(c))' = Positions(D(c))
    BY <2>2, <2>3, MessageType DEF Waiting
  <2>5. TypeOK'
    BY <1>a, <2>1, <2>3 DEF TypeOK
  <2>6. OneSchedule'
    BY <1>a, <2>1, <2>4, ScheduleDef, NextScheduleDef DEF ScheduleInProgress
  <2>7. AwaitsARunningCommand'
    BY <1>a, <2>1, <2>2, <2>4 DEF AwaitsARunningCommand, AtMostOne
  <2> QED
    BY <1>a, <2>1, <2>2, <2>5, <2>6, <2>7 DEF IInv, NoStraySync, OneSyncAtATime,
        ExecutorsAwaited
<1>8. ASSUME NEW once \in BOOLEAN, inbox' = Append(inbox, Synchronize(once)),
             \/ once /\ UNCHANGED <<timers, failures>> /\ forces' = forces + 1
             \/ ~once /\ timers > 0 /\ timers' = timers - 1 /\ UNCHANGED <<forces, failures>>,
             UNCHANGED <<syncState, isScheduledSync, commandID, executors, incomplete, hung>>
      PROVE  IInv'
  <2>1. inbox' \in Seq(Message) /\ \A m : Positions(m)' = Positions(m) \cup
                                       (IF m = Synchronize(once) THEN {Len(inbox) + 1} ELSE {})
    BY <1>b, <1>8, MessageType, PositionsAppend
  <2>2. /\ \A c : Positions(D(c))' = Positions(D(c))
        /\ once => Waiting' = Waiting
        /\ ~once => Waiting' = Waiting \cup {Len(inbox) + 1}
    BY <2>1, MessageType DEF Waiting
  <2>3. TypeOK'
    BY <1>8, <1>a, <2>1 DEF TypeOK
  <2>4. OneSchedule'
    BY <1>8, <1>a, <2>2, ScheduleDef, NextScheduleDef DEF TypeOK, ScheduleInProgress, AtMostOne
  <2>5. AwaitsARunningCommand'
    BY <1>8, <1>a, <2>2 DEF AwaitsARunningCommand
  <2> QED
    BY <1>8, <1>a, <2>3, <2>4, <2>5 DEF IInv, NoStraySync, OneSyncAtATime, ExecutorsAwaited
<1>9. CASE TimerFires
  BY <1>8, <1>9 DEF TimerFires
<1>10. CASE ForceSync
  BY <1>8, <1>10 DEF ForceSync
<1>11. CASE UNCHANGED vars
  BY <1>11, <1>a DEF vars, IInv, NoStraySync, TypeOK, OneSchedule, ScheduleInProgress,
      AwaitsARunningCommand, OneSyncAtATime, ExecutorsAwaited, Positions
<1>12. ASSUME NEW id \in CommandIDs, ReadHangs(id) PROVE IInv'
  <2>1. /\ UNCHANGED <<syncState, isScheduledSync, commandID, inbox, timers, executors,
                       incomplete, forces, failures>>
        /\ hung' = hung \cup {id}
    BY <1>12 DEF ReadHangs
  <2>2. TypeOK'
    BY <1>a, <2>1 DEF TypeOK
  <2> QED
    BY <1>a, <2>1, <2>2 DEF IInv, NoStraySync, OneSchedule, ScheduleInProgress,
        AwaitsARunningCommand, OneSyncAtATime, ExecutorsAwaited, Positions
<1> QED
  BY <1>1, <1>2, <1>3, <1>5, <1>6, <1>7, <1>9, <1>10, <1>11, <1>12 DEF Next, Handle

\* The schedule of the synchronizer is never multiplied, at most one sync runs,
\* and the command it awaits is the one that runs and will report once, however
\* forced syncs, failing calls and restarts interleave (synchronize,
\* scheduleNextSync, changesetCompleted).
THEOREM SynchronizerNeverStrays == Spec => []NoStraySync
<1>1. IInv => NoStraySync
  BY DEF IInv
<1> QED
  BY InitIInv, StepIInv, <1>1, PTL DEF Spec

=============================================================================
