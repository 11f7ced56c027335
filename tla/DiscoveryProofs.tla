--------------------------- MODULE DiscoveryProofs ---------------------------
(***************************************************************************)
(* Theorems about Discovery, for every configuration, every cloud and      *)
(* every capacity of the rate limiter, any failing calls and any number of *)
(* forced and scheduled discoveries.                                       *)
(*                                                                         *)
(* The parts of IInv follow a list operation on its way: it is queued,     *)
(* then at work, then answered in the inbox, then the cause of a sync, and *)
(* only the end of that sync queues the operations nested in it.           *)
(***************************************************************************)
EXTENDS Discovery, FiniteSetTheorems, TLAPS

\* Operations on targets whose plugin is installed.
Live == [type : Types, target : Scannable, params : IDs \cup {None}]
LiveIn(ns) == {op \in Live : Targets[op.target] = ns}

Discovers == {Discover(once) : once \in BOOLEAN}
Listings == {Listing(op, error, ids) : op \in Live, error \in BOOLEAN, ids \in SUBSET IDs}
Completions == {ChangesetCompleted(c, ok) : c \in CommandIDs, ok \in BOOLEAN}
Messages == Discovers \cup {ResumeScanning} \cup Listings \cup Completions

\* What an inbox b holds: operations that are answered, commands that are
\* completed, no two answers for the same one.
AnsweredIn(b) == {op \in Live : \E i \in DOMAIN b : b[i].type = "Listing" /\ b[i].op = op}
CompletedIn(b) ==
    {c \in CommandIDs : \E i \in DOMAIN b : b[i].type = "ChangesetCompleted" /\ b[i].id = c}
ResumesIn(b) == \E i \in DOMAIN b : b[i] = ResumeScanning
AnswersOnce(b) ==
    \A i, j \in DOMAIN b :
        b[i].type = "Listing" /\ b[j].type = "Listing" /\ b[i].op = b[j].op => i = j
CompletesOnce(b) ==
    \A i, j \in DOMAIN b :
        /\ b[i].type = "ChangesetCompleted" /\ b[j].type = "ChangesetCompleted"
        /\ b[i].id = b[j].id
        => i = j

\* Where an operation can be.
Queued == UNION {Range(queued[ns]) : ns \in DOMAIN queued}
AtWork == UNION {Range(operators[ns]) : ns \in Namespaces}
Answered == AnsweredIn(inbox)
Syncing == Range(syncing)
Present == Queued \cup AtWork \cup Answered \cup Syncing

\* The executors that will report to the discovery.
Reporting == {c \in DOMAIN executors : executors[c].mine}

\* p lists roots of the forest of types, n is nested in something p lists.
NestedIn(n, p) ==
    /\ p.params = None /\ Descriptors[p.type].parents = {}
    /\ p.type \in Descriptors[n.type].parents
    /\ p.target = n.target
    /\ \E r \in Cloud : r.id = n.params /\ r.type = p.type

RootsOK == \A t \in DOMAIN roots : /\ Descriptors[t].parents = {}
                                   /\ roots[t] \subseteq Types
                                   /\ \A n \in roots[t] : t \in Descriptors[n].parents

StrongTypes ==
    /\ LimiterTypeOK
    /\ discState \in {"idle", "discovering"} /\ isScheduled \in BOOLEAN
    /\ DOMAIN roots \subseteq Types /\ RootsOK
    /\ DOMAIN queued \subseteq Namespaces
    /\ \A ns \in DOMAIN queued : queued[ns] \in Seq(LiveIn(ns))
    /\ listing \subseteq Live
    /\ DOMAIN syncing \subseteq CommandIDs \cup {None}
    /\ \A c \in DOMAIN syncing : syncing[c] \in Live
    /\ recent \subseteq IDs /\ inventory \subseteq IDs
    /\ inbox \in Seq(Messages)
    /\ operators \in [Namespaces -> Seq(Live)]
    /\ \A ns \in Namespaces : operators[ns] \in Seq(LiveIn(ns))
    /\ DOMAIN executors \subseteq CommandIDs /\ hung \subseteq CommandIDs
    /\ \A c \in DOMAIN executors : executors[c] \in [ids : SUBSET IDs, mine : BOOLEAN]
    /\ synced \in [IDs -> Nat]
    /\ resumeTimers \in Nat /\ discoverTimers \in Nat /\ failures \in Nat

\* What is registered is under way, and a command that will be reported is
\* awaited.
Registered ==
    /\ listing \subseteq AtWork \cup Answered
    /\ DOMAIN syncing \subseteq Reporting \cup CompletedIn(inbox) \cup
                                (IF failures > 0 THEN {None} ELSE {})
    /\ Reporting \cup CompletedIn(inbox) \subseteq DOMAIN syncing
    /\ CompletedIn(inbox) \cap DOMAIN executors = {}
    /\ CompletesOnce(inbox)

Idle == discState = "idle" => DOMAIN queued = {} /\ listing = {} /\ DOMAIN syncing = {}

\* An operation is in one place only, and registered while a plugin has it.
OnePlace ==
    /\ \A ns \in DOMAIN queued : IsInjective(queued[ns])
    /\ \A ns \in Namespaces : IsInjective(operators[ns])
    /\ AnswersOnce(inbox)
    /\ IsInjective(syncing)
    /\ Queued \cap (AtWork \cup Answered \cup Syncing) = {}
    /\ AtWork \cap (Answered \cup Syncing) = {}
    /\ Answered \cap Syncing = {}
    /\ AtWork \cup Answered \subseteq listing

\* Root types are listed without a parameter, and what is nested in an
\* operation comes after it.
Rooted == \A p \in Present : Descriptors[p.type].parents = {} => p.params = None
Later == \A n, p \in Present : ~NestedIn(n, p)

\* What was synchronized is in the inventory or on its way there.
OnTheWay ==
    failures = 0 =>
        \A id \in IDs \ Filtered :
            /\ synced[id] <= 1
            /\ synced[id] = 1 => \/ id \in inventory
                                 \/ /\ id \in recent
                                    /\ \E c \in Reporting : id \in executors[c].ids
Books == ParentsTold => OnePlace /\ Rooted /\ Later

IInv == StrongTypes /\ QueueIsResumed /\ Registered /\ Idle /\ Books /\ OnTheWay

-----------------------------------------------------------------------------
\* Types of messages tell them apart.
LEMMA MessageTypes ==
    ASSUME NEW m \in Messages
    PROVE  /\ m.type = "Listing" => /\ m.op \in Live /\ m.error \in BOOLEAN /\ m.ids \subseteq IDs
                                    /\ m # ResumeScanning
           /\ m.type = "ChangesetCompleted" => m.id \in CommandIDs /\ m # ResumeScanning
           /\ m.type = "Discover" => m # ResumeScanning
           /\ m.type = "ResumeScanning" => m = ResumeScanning
<1>1. CASE \E once \in BOOLEAN : m = Discover(once)
      BY <1>1 DEF Discover, ResumeScanning
<1>2. CASE m = ResumeScanning
      BY <1>2 DEF ResumeScanning
<1>3. CASE \E op \in Live, error \in BOOLEAN, ids \in SUBSET IDs : m = Listing(op, error, ids)
      BY <1>3 DEF Listing, ResumeScanning
<1>4. CASE \E c \in CommandIDs, ok \in BOOLEAN : m = ChangesetCompleted(c, ok)
      BY <1>4 DEF ChangesetCompleted, ResumeScanning
<1>5. QED BY <1>1, <1>2, <1>3, <1>4 DEF Messages, Discovers, Listings, Completions

\* The messages of t are those of b after its head h, one place earlier, or
\* ResumeScanning.
IsShift(b, t, h) ==
    /\ DOMAIN b \subseteq Nat /\ DOMAIN t \subseteq Nat
    /\ 1 \in DOMAIN b /\ h = b[1]
    /\ \A i \in DOMAIN t :
          (i + 1 \in DOMAIN b /\ i + 1 # 1 /\ t[i] = b[i + 1]) \/ t[i].type = "ResumeScanning"
    /\ \A i \in DOMAIN b : i = 1 \/ (i - 1 \in DOMAIN t /\ t[i - 1] = b[i])

\* Then t holds what b holds but for its head.
LEMMA Shifted ==
    ASSUME NEW b, NEW t, NEW h, IsShift(b, t, h)
    PROVE  /\ AnsweredIn(t) \subseteq AnsweredIn(b)
           /\ \A op \in AnsweredIn(b) : op \in AnsweredIn(t) \/ (h.type = "Listing" /\ h.op = op)
           /\ CompletedIn(t) \subseteq CompletedIn(b)
           /\ \A c \in CompletedIn(b) :
                 c \in CompletedIn(t) \/ (h.type = "ChangesetCompleted" /\ h.id = c)
           /\ AnswersOnce(b) => AnswersOnce(t) /\ (h.type = "Listing" => h.op \notin AnsweredIn(t))
           /\ CompletesOnce(b) => /\ CompletesOnce(t)
                                  /\ h.type = "ChangesetCompleted" => h.id \notin CompletedIn(t)
<1>1. AnsweredIn(t) \subseteq AnsweredIn(b)
      BY DEF IsShift, AnsweredIn
<1>2. \A op \in AnsweredIn(b) : op \in AnsweredIn(t) \/ (h.type = "Listing" /\ h.op = op)
      BY DEF IsShift, AnsweredIn
<1>3. CompletedIn(t) \subseteq CompletedIn(b)
      BY DEF IsShift, CompletedIn
<1>4. \A c \in CompletedIn(b) : c \in CompletedIn(t) \/ (h.type = "ChangesetCompleted" /\ h.id = c)
      BY DEF IsShift, CompletedIn
<1>5. AnswersOnce(b) => AnswersOnce(t)
      BY DEF IsShift, AnswersOnce
<1>6. AnswersOnce(b) => (h.type = "Listing" => h.op \notin AnsweredIn(t))
      BY DEF IsShift, AnswersOnce, AnsweredIn
<1>7. CompletesOnce(b) => CompletesOnce(t)
      BY DEF IsShift, CompletesOnce
<1>8. CompletesOnce(b) => (h.type = "ChangesetCompleted" => h.id \notin CompletedIn(t))
      BY DEF IsShift, CompletesOnce, CompletedIn
<1>9. QED BY <1>1, <1>2, <1>3, <1>4, <1>5, <1>6, <1>7, <1>8

\* t is an inbox with what was in b, but for the head h.
Took(b, t, h) ==
    /\ t \in Seq(Messages)
    /\ AnsweredIn(t) \subseteq AnsweredIn(b)
    /\ \A op \in AnsweredIn(b) : op \in AnsweredIn(t) \/ (h.type = "Listing" /\ h.op = op)
    /\ CompletedIn(t) \subseteq CompletedIn(b)
    /\ \A c \in CompletedIn(b) :
          c \in CompletedIn(t) \/ (h.type = "ChangesetCompleted" /\ h.id = c)
    /\ AnswersOnce(b) => AnswersOnce(t) /\ (h.type = "Listing" => h.op \notin AnsweredIn(t))
    /\ CompletesOnce(b) => /\ CompletesOnce(t)
                           /\ h.type = "ChangesetCompleted" => h.id \notin CompletedIn(t)
    /\ ResumesIn(b) /\ h.type # "ResumeScanning" => ResumesIn(t)

\* The message at the head is taken and the actor may tell itself to resume.
LEMMA HeadTaken ==
    ASSUME NEW b \in Seq(Messages), b # <<>>,
           NEW z \in Seq({ResumeScanning}), NEW t, t = Tail(b) \o z
    PROVE  Took(b, t, Head(b)) /\ (Len(z) > 0 => ResumesIn(t))
<1>1. /\ Tail(b) \in Seq(Messages) /\ Len(Tail(b)) = Len(b) - 1 /\ Len(b) > 0
      /\ Head(b) = b[1] /\ \A i \in 1..Len(b) - 1 : Tail(b)[i] = b[i + 1]
      /\ Len(b) \in Nat
      OBVIOUS
<1>2. z \in Seq(Messages) /\ \A i \in 1..Len(z) : z[i] = ResumeScanning
      BY DEF Messages
<1>3. /\ t \in Seq(Messages) /\ Len(t) = Len(b) - 1 + Len(z) /\ Len(z) \in Nat
      /\ DOMAIN t = 1..Len(b) - 1 + Len(z) /\ DOMAIN b = 1..Len(b)
      /\ \A i \in 1..Len(b) - 1 : t[i] = b[i + 1]
      /\ \A i \in DOMAIN t : i > Len(b) - 1 => t[i] = ResumeScanning
      BY <1>1, <1>2
<1>4. /\ \A i \in DOMAIN t : (i + 1 \in DOMAIN b /\ t[i] = b[i + 1]) \/ t[i] = ResumeScanning
      /\ \A i \in DOMAIN b : i = 1 \/ (i - 1 \in DOMAIN t /\ t[i - 1] = b[i])
      /\ 1 \in DOMAIN b
      BY <1>1, <1>3
<1>5. ResumeScanning.type = "ResumeScanning"
      BY DEF ResumeScanning
<1>6. /\ DOMAIN b \subseteq Nat /\ DOMAIN t \subseteq Nat
      /\ \A i \in DOMAIN t :
            (i + 1 \in DOMAIN b /\ i + 1 # 1 /\ t[i] = b[i + 1]) \/ t[i].type = "ResumeScanning"
      BY <1>3, <1>4, <1>5
<1>7. ASSUME ResumesIn(b), Head(b).type # "ResumeScanning" PROVE ResumesIn(t)
      <2>1. PICK i \in DOMAIN b : b[i] = ResumeScanning BY <1>7, Zenon DEF ResumesIn
      <2>2. i # 1 BY <1>1, <1>5, <1>7, <2>1
      <2>3. i - 1 \in DOMAIN t /\ t[i - 1] = ResumeScanning BY <1>4, <2>1, <2>2
      <2>4. QED BY <2>3, Zenon DEF ResumesIn
<1>8. ASSUME Len(z) > 0 PROVE ResumesIn(t)
      <2>1. Len(b) \in DOMAIN t /\ t[Len(b)] = ResumeScanning BY <1>1, <1>3, <1>8
      <2>2. QED BY <2>1, Zenon DEF ResumesIn
<1>9. QED
      <2>1. IsShift(b, t, Head(b)) BY <1>1, <1>4, <1>6 DEF IsShift
      <2>2. /\ AnsweredIn(t) \subseteq AnsweredIn(b)
            /\ \A op \in AnsweredIn(b) :
                  op \in AnsweredIn(t) \/ (Head(b).type = "Listing" /\ Head(b).op = op)
            /\ CompletedIn(t) \subseteq CompletedIn(b)
            /\ \A c \in CompletedIn(b) :
                  c \in CompletedIn(t) \/ (Head(b).type = "ChangesetCompleted" /\ Head(b).id = c)
            /\ AnswersOnce(b) => AnswersOnce(t) /\ (Head(b).type = "Listing" =>
                                                       Head(b).op \notin AnsweredIn(t))
            /\ CompletesOnce(b) => CompletesOnce(t) /\ (Head(b).type = "ChangesetCompleted" =>
                                                       Head(b).id \notin CompletedIn(t))
            BY <2>1, Shifted, Zenon
      <2>3. QED BY <1>3, <1>7, <1>8, <2>2 DEF Took

\* t is an inbox with what was in b and m.
Got(b, t, m) ==
    /\ t \in Seq(Messages)
    /\ AnsweredIn(t) = AnsweredIn(b) \cup (IF m.type = "Listing" THEN {m.op} ELSE {})
    /\ CompletedIn(t) = CompletedIn(b) \cup (IF m.type = "ChangesetCompleted" THEN {m.id} ELSE {})
    /\ AnswersOnce(b) /\ (m.type = "Listing" => m.op \notin AnsweredIn(b)) => AnswersOnce(t)
    /\ CompletesOnce(b) /\ (m.type = "ChangesetCompleted" => m.id \notin CompletedIn(b))
          => CompletesOnce(t)
    /\ ResumesIn(b) => ResumesIn(t)
    /\ m = ResumeScanning => ResumesIn(t)

\* A message arrives.
LEMMA MessageArrives ==
    ASSUME NEW b \in Seq(Messages), NEW m \in Messages, NEW t, t = Append(b, m)
    PROVE  Got(b, t, m)
<1>1. /\ t \in Seq(Messages) /\ Len(t) = Len(b) + 1 /\ Len(b) \in Nat
      /\ DOMAIN t = 1..Len(b) + 1 /\ DOMAIN b = 1..Len(b)
      /\ t[Len(b) + 1] = m
      /\ \A i \in DOMAIN b : b[i] \in Messages /\ t[i] = b[i]
      OBVIOUS
<1>2. \A i \in DOMAIN t : (i = Len(b) + 1 /\ t[i] = m) \/ (i \in DOMAIN b /\ t[i] = b[i])
      BY <1>1
<1>3. /\ m.type = "Listing" => m.op \in Live
      /\ m.type = "ChangesetCompleted" => m.id \in CommandIDs
      /\ \A i \in DOMAIN b : /\ b[i].type = "Listing" => b[i].op \in Live
                             /\ b[i].type = "ChangesetCompleted" => b[i].id \in CommandIDs
      BY <1>1, MessageTypes
<1>4. Len(b) + 1 \in DOMAIN t /\ \A i \in DOMAIN b : i \in DOMAIN t
      BY <1>1
<1>5. AnsweredIn(t) = AnsweredIn(b) \cup (IF m.type = "Listing" THEN {m.op} ELSE {})
      BY <1>1, <1>2, <1>3, <1>4 DEF AnsweredIn
<1>6. CompletedIn(t) = CompletedIn(b) \cup (IF m.type = "ChangesetCompleted" THEN {m.id} ELSE {})
      BY <1>1, <1>2, <1>3, <1>4 DEF CompletedIn
<1>7. AnswersOnce(b) /\ (m.type = "Listing" => m.op \notin AnsweredIn(b)) => AnswersOnce(t)
      BY <1>2, <1>3 DEF AnswersOnce, AnsweredIn
<1>8. CompletesOnce(b) /\ (m.type = "ChangesetCompleted" => m.id \notin CompletedIn(b))
         => CompletesOnce(t)
      BY <1>2, <1>3 DEF CompletesOnce, CompletedIn
<1>9. (ResumesIn(b) => ResumesIn(t)) /\ (m = ResumeScanning => ResumesIn(t))
      BY <1>1, <1>4 DEF ResumesIn
<1>10. QED BY <1>1, <1>5, <1>6, <1>7, <1>8, <1>9 DEF Got

\* The inbox of a process that has just started.
LEMMA FirstInbox ==
    /\ FirstMessages \in Seq(Messages)
    /\ AnsweredIn(FirstMessages) = {} /\ CompletedIn(FirstMessages) = {}
    /\ AnswersOnce(FirstMessages) /\ CompletesOnce(FirstMessages)
<1>1. Discover(FALSE) \in Messages /\ Discover(FALSE).type = "Discover"
      <2>1. FALSE \in BOOLEAN OBVIOUS
      <2>2. Discover(FALSE) \in Discovers BY <2>1, Zenon DEF Discovers
      <2>3. QED BY <2>2 DEF Messages, Discover
<1>2. /\ FirstMessages \in Seq(Messages) /\ DOMAIN FirstMessages = {1}
      /\ FirstMessages[1] = Discover(FALSE)
      <2>1. ASSUME NEW d \in Messages
            PROVE  <<d>> \in Seq(Messages) /\ DOMAIN <<d>> = {1} /\ <<d>>[1] = d
            OBVIOUS
      <2>2. QED BY <1>1, <2>1, Zenon DEF FirstMessages
<1>3. \A i \in DOMAIN FirstMessages : i = 1 /\ FirstMessages[i].type = "Discover"
      BY <1>1, <1>2
<1>4. QED BY <1>2, <1>3 DEF AnsweredIn, CompletedIn, AnswersOnce, CompletesOnce

-----------------------------------------------------------------------------
\* The empty sequence, as a sequence and as a function.
LEMMA EmptySequence ==
    /\ DOMAIN <<>> = {} /\ Range(<<>>) = {} /\ IsInjective(<<>>)
    /\ \A S : <<>> \in Seq(S)
<1>1. DOMAIN <<>> = {} /\ \A S : <<>> \in Seq(S)
      OBVIOUS
<1>2. QED BY <1>1 DEF Range, IsInjective

\* The process has just started.
Fresh ==
    /\ discState = "idle" /\ isScheduled = FALSE
    /\ roots = <<>> /\ queued = <<>> /\ listing = {} /\ syncing = <<>> /\ recent = {}
    /\ inbox = FirstMessages /\ resumeTimers = 0 /\ discoverTimers = 0
    /\ operators = NoOperators
    /\ LimiterTypeOK /\ inventory \subseteq IDs /\ synced \in [IDs -> Nat] /\ failures \in Nat
    /\ DOMAIN executors \subseteq CommandIDs /\ hung \subseteq CommandIDs
    /\ \A c \in DOMAIN executors : /\ executors[c] \in [ids : SUBSET IDs, mine : BOOLEAN]
                                   /\ ~executors[c].mine
    /\ failures = 0 => \A id \in IDs \ Filtered :
                         synced[id] <= 1 /\ (synced[id] = 1 => id \in inventory)

\* A discovery that has just started, or started again, has open books.
LEMMA FreshIInv == Fresh => IInv
<1> SUFFICES ASSUME Fresh PROVE IInv OBVIOUS
<1>1. /\ DOMAIN queued = {} /\ DOMAIN syncing = {} /\ DOMAIN roots = {}
      /\ Range(syncing) = {} /\ IsInjective(syncing)
      BY EmptySequence DEF Fresh
<1>2. /\ \A ns \in Namespaces : operators[ns] = <<>>
      /\ operators \in [Namespaces -> Seq(Live)]
      /\ \A ns \in Namespaces : operators[ns] \in Seq(LiveIn(ns))
      BY EmptySequence DEF Fresh, NoOperators
<1>3. \A ns \in Namespaces : Range(operators[ns]) = {} /\ IsInjective(operators[ns])
      BY <1>2, EmptySequence, Zenon
<1>4. StrongTypes
      BY <1>1, <1>2, FirstInbox DEF Fresh, StrongTypes, RootsOK
<1>5. /\ Queued = {} /\ AtWork = {} /\ Answered = {} /\ Syncing = {} /\ Present = {}
      /\ Reporting = {}
      <2>1. Queued = {} BY <1>1 DEF Queued
      <2>2. AtWork = {} BY <1>3 DEF AtWork
      <2>3. Answered = {} BY FirstInbox DEF Fresh, Answered
      <2>4. Syncing = {} BY <1>1 DEF Syncing
      <2>5. Reporting = {} BY DEF Fresh, Reporting
      <2>6. QED BY <2>1, <2>2, <2>3, <2>4, <2>5 DEF Present
<1>6. QueueIsResumed /\ Idle
      BY <1>1 DEF Fresh, QueueIsResumed, Idle
<1>7. Registered
      BY <1>1, <1>5, FirstInbox DEF Fresh, Registered
<1>8. OnePlace
      BY <1>1, <1>3, <1>5, FirstInbox DEF Fresh, OnePlace
<1>9. Rooted /\ Later
      BY <1>5 DEF Rooted, Later
<1>10. OnTheWay
       BY DEF Fresh, OnTheWay
<1>11. QED BY <1>4, <1>6, <1>7, <1>8, <1>9, <1>10 DEF IInv, Books

\* Initially the actor is fresh.
LEMMA InitIInv == Init => IInv
<1> SUFFICES ASSUME Init PROVE IInv OBVIOUS
<1>1. LimiterTypeOK
      BY CapacityAssumption DEF Init, InitLimiter, LimiterTypeOK
<1>2. DOMAIN executors = {}
      BY EmptySequence DEF Init
<1>3. /\ inventory \subseteq IDs /\ synced \in [IDs -> Nat] /\ failures \in Nat
      /\ \A id \in IDs : synced[id] = 0
      BY DiscoveryAssumption DEF Init
<1>4. QED BY <1>1, <1>2, <1>3, FreshIInv DEF Init, Fresh

\* The supervisor starts the process again.
LEMMA RestartKeeps ==
    ASSUME IInv, Restart, failures' \in Nat, LimiterTypeOK', UNCHANGED <<hung, inventory, synced>>,
           failures' = 0 => failures = 0 /\ discState = "idle"
    PROVE  IInv'
<1>1. /\ DOMAIN executors' \subseteq CommandIDs
      /\ \A c \in DOMAIN executors' : /\ executors'[c] \in [ids : SUBSET IDs, mine : BOOLEAN]
                                      /\ ~executors'[c].mine
      <2>1. DOMAIN executors' = DOMAIN executors
            BY DEF Restart
      <2>2. ASSUME NEW c \in DOMAIN executors
            PROVE  executors'[c] \in [ids : SUBSET IDs, mine : BOOLEAN] /\ ~executors'[c].mine
            <3>1. executors[c] \in [ids : SUBSET IDs, mine : BOOLEAN] BY DEF IInv, StrongTypes
            <3>2. executors'[c] = [executors[c] EXCEPT !.mine = FALSE] BY DEF Restart
            <3>3. QED BY <3>1, <3>2
      <2>3. QED BY <2>1, <2>2 DEF IInv, StrongTypes
<1>2. failures' = 0 => \A id \in IDs \ Filtered :
                          synced'[id] <= 1 /\ (synced'[id] = 1 => id \in inventory')
      <2>1. discState = "idle" => Reporting = {}
            BY DEF IInv, Idle, Registered
      <2>2. QED BY <2>1 DEF IInv, OnTheWay
<1>3. inventory' \subseteq IDs /\ synced' \in [IDs -> Nat] /\ hung' \subseteq CommandIDs
      BY DEF IInv, StrongTypes
<1>4. /\ discState' = "idle" /\ isScheduled' = FALSE
      /\ roots' = <<>> /\ queued' = <<>> /\ listing' = {} /\ syncing' = <<>> /\ recent' = {}
      /\ inbox' = FirstMessages /\ resumeTimers' = 0 /\ discoverTimers' = 0
      /\ operators' = NoOperators
      BY DEF Restart
<1>5. Fresh'
      BY <1>1, <1>2, <1>3, <1>4 DEF Fresh
<1>6. (Fresh => IInv)'
      BY FreshIInv, PTL
<1>7. QED BY <1>5, <1>6

-----------------------------------------------------------------------------
\* What each kind of message is.
LEMMA Kinds ==
    /\ ResumeScanning \in Messages /\ ResumeScanning.type = "ResumeScanning"
    /\ \A once \in BOOLEAN : Discover(once) \in Messages /\ Discover(once).type = "Discover"
    /\ \A op \in Live, error \in BOOLEAN, ids \in SUBSET IDs :
          /\ Listing(op, error, ids) \in Messages
          /\ Listing(op, error, ids).type = "Listing" /\ Listing(op, error, ids).op = op
    /\ \A c \in CommandIDs, ok \in BOOLEAN :
          /\ ChangesetCompleted(c, ok) \in Messages
          /\ ChangesetCompleted(c, ok).type = "ChangesetCompleted"
          /\ ChangesetCompleted(c, ok).id = c
<1>1. ResumeScanning \in Messages BY DEF Messages
<1>2. \A once \in BOOLEAN : Discover(once) \in Discovers
      BY Zenon DEF Discovers
<1>3. \A op \in Live, error \in BOOLEAN, ids \in SUBSET IDs : Listing(op, error, ids) \in Listings
      BY DEF Listings
<1>4. \A c \in CommandIDs, ok \in BOOLEAN : ChangesetCompleted(c, ok) \in Completions
      BY DEF Completions
<1>5. QED
      BY <1>1, <1>2, <1>3, <1>4 DEF Messages, ResumeScanning, Discover, Listing, ChangesetCompleted

\* The head of the inbox is taken, as in the code of every handler.
LEMMA Received ==
    ASSUME NEW b \in Seq(Messages), NEW m, b # <<>>, Head(b) = m
    PROVE  m \in Messages /\ <<>> \in Seq({ResumeScanning}) /\ Tail(b) = Tail(b) \o <<>>
OBVIOUS

\* A step changes no more than the inbox, timers and buckets, and neither takes
\* nor brings an answer.
Aside ==
    /\ inbox' \in Seq(Messages)
    /\ AnsweredIn(inbox') = AnsweredIn(inbox) /\ CompletedIn(inbox') = CompletedIn(inbox)
    /\ AnswersOnce(inbox) => AnswersOnce(inbox')
    /\ CompletesOnce(inbox) => CompletesOnce(inbox')
    /\ ResumesIn(inbox) \/ resumeTimers > 0 => ResumesIn(inbox') \/ resumeTimers' > 0
    /\ resumeTimers' \in Nat /\ discoverTimers' \in Nat /\ isScheduled' \in BOOLEAN
    /\ LimiterTypeOK'
    /\ UNCHANGED <<discState, roots, queued, listing, syncing, recent, operators, executors,
                   hung, inventory, synced, failures>>

\* Such a step keeps the invariant.
LEMMA AsideKeeps == ASSUME IInv, Aside PROVE IInv'
<1>1. StrongTypes'
      BY DEF Aside, IInv, StrongTypes, RootsOK
<1>2. QueueIsResumed'
      BY DEF Aside, IInv, QueueIsResumed, Pending, ResumesIn
<1>3. /\ Queued' = Queued /\ AtWork' = AtWork /\ Answered' = Answered /\ Syncing' = Syncing
      /\ Reporting' = Reporting
      BY DEF Aside, Queued, AtWork, Answered, Syncing, Reporting
<1>4. Registered' /\ Idle'
      BY <1>3 DEF Aside, IInv, Registered, Idle
<1>5. Books'
      BY <1>3 DEF Aside, IInv, Books, OnePlace, Rooted, Later, Present
<1>6. OnTheWay'
      BY <1>3 DEF Aside, IInv, OnTheWay
<1>7. QED BY <1>1, <1>2, <1>4, <1>5, <1>6 DEF IInv

\* Steps that only send or take a word between the actor, its timers and the
\* operator, and the passing of time.
LEMMA DiscoverAgainKeeps ==
    ASSUME IInv, NEW once \in BOOLEAN, DiscoverAgain(once) PROVE IInv'
<1>1. inbox \in Seq(Messages) /\ inbox # <<>> /\ Head(inbox) = Discover(once)
      BY DEF IInv, StrongTypes, DiscoverAgain, Receives
<1>2. Head(inbox).type = "Discover" /\ inbox' = Tail(inbox) \o <<>>
      BY <1>1, Kinds, Received DEF DiscoverAgain
<1>3. <<>> \in Seq({ResumeScanning})
      OBVIOUS
<1>4. Took(inbox, inbox', Head(inbox))
      BY <1>1, <1>2, <1>3, HeadTaken
<1>5. Aside
      BY <1>2, <1>4
         DEF Took, Aside, DiscoverAgain, listVars, limiterVars, IInv, StrongTypes, LimiterTypeOK
<1>6. QED BY <1>5, AsideKeeps

\* Timers, forced discoveries and the passing of time keep the invariant.
LEMMA TimersKeep ==
    ASSUME IInv, ResumeTimerFires \/ DiscoverTimerFires \/ ForceDiscovery \/ Second PROVE IInv'
<1>1. /\ inbox \in Seq(Messages) /\ resumeTimers \in Nat /\ discoverTimers \in Nat
      /\ isScheduled \in BOOLEAN /\ LimiterTypeOK
      BY DEF IInv, StrongTypes
<1>2. CASE ResumeTimerFires
      <2>1. /\ inbox' = Append(inbox, ResumeScanning) /\ ResumeScanning \in Messages
            /\ ResumeScanning.type = "ResumeScanning"
            BY <1>2, Kinds DEF ResumeTimerFires
      <2>2. Got(inbox, inbox', ResumeScanning)
            BY <1>1, <2>1, MessageArrives
      <2>3. /\ inbox' \in Seq(Messages) /\ ResumesIn(inbox')
            /\ AnsweredIn(inbox') = AnsweredIn(inbox) /\ CompletedIn(inbox') = CompletedIn(inbox)
            /\ AnswersOnce(inbox) => AnswersOnce(inbox')
            /\ CompletesOnce(inbox) => CompletesOnce(inbox')
            BY <2>1, <2>2 DEF Got
      <2>4. resumeTimers' \in Nat
            BY <1>1, <1>2 DEF ResumeTimerFires
      <2>5. Aside
            BY <1>1, <1>2, <2>3, <2>4
               DEF Aside, ResumeTimerFires, limiterVars, LimiterTypeOK
      <2>6. QED BY <2>5, AsideKeeps
<1>3. CASE DiscoverTimerFires
      <2>1. inbox' = Append(inbox, Discover(FALSE)) /\ Discover(FALSE) \in Messages
            BY <1>3, Kinds DEF DiscoverTimerFires
      <2>2. Got(inbox, inbox', Discover(FALSE))
            BY <1>1, <2>1, MessageArrives
      <2>3. discoverTimers' \in Nat
            BY <1>1, <1>3 DEF DiscoverTimerFires
      <2>4. /\ inbox' \in Seq(Messages) /\ (ResumesIn(inbox) => ResumesIn(inbox'))
            /\ AnsweredIn(inbox') = AnsweredIn(inbox) /\ CompletedIn(inbox') = CompletedIn(inbox)
            /\ AnswersOnce(inbox) => AnswersOnce(inbox')
            /\ CompletesOnce(inbox) => CompletesOnce(inbox')
            BY <2>2, Kinds DEF Got
      <2>5. Aside
            BY <1>1, <1>3, <2>3, <2>4
               DEF Aside, DiscoverTimerFires, listVars, limiterVars, LimiterTypeOK
      <2>6. QED BY <2>5, AsideKeeps
<1>4. CASE ForceDiscovery
      <2>1. inbox' = Append(inbox, Discover(TRUE)) /\ Discover(TRUE) \in Messages
            BY <1>4, Kinds DEF ForceDiscovery
      <2>2. Got(inbox, inbox', Discover(TRUE))
            BY <1>1, <2>1, MessageArrives
      <2>3. /\ inbox' \in Seq(Messages) /\ (ResumesIn(inbox) => ResumesIn(inbox'))
            /\ AnsweredIn(inbox') = AnsweredIn(inbox) /\ CompletedIn(inbox') = CompletedIn(inbox)
            /\ AnswersOnce(inbox) => AnswersOnce(inbox')
            /\ CompletesOnce(inbox) => CompletesOnce(inbox')
            BY <2>2, Kinds DEF Got
      <2>4. Aside
            BY <1>1, <1>4, <2>3
               DEF Aside, ForceDiscovery, listVars, limiterVars, LimiterTypeOK
      <2>5. QED BY <2>4, AsideKeeps
<1>5. CASE Second
      <2>1. LimiterTypeOK'
            BY <1>1, <1>5 DEF Second, SecondPasses, LimiterTypeOK
      <2>2. Aside
            BY <1>1, <1>5, <2>1 DEF Aside, Second, discVars
      <2>3. QED BY <2>2, AsideKeeps
<1>6. QED BY <1>2, <1>3, <1>4, <1>5

-----------------------------------------------------------------------------
\* The sequence a followed by b.
LEMMA ConcatFacts ==
    ASSUME NEW S, NEW a \in Seq(S), NEW b \in Seq(S), NEW t, t = a \o b
    PROVE  /\ t \in Seq(S) /\ Len(t) = Len(a) + Len(b)
           /\ DOMAIN t = 1..Len(a) + Len(b)
           /\ \A j \in 1..Len(a) : t[j] = a[j]
           /\ \A j \in 1..Len(b) : t[j + Len(a)] = b[j]
           /\ Len(a) \in Nat /\ Len(b) \in Nat
OBVIOUS

\* The sequence s without its i-th element.
LEMMA RemoveAtFacts ==
    ASSUME NEW S, NEW s \in Seq(S), NEW i \in DOMAIN s
    PROVE  /\ RemoveAt(s, i) \in Seq(S)
           /\ Range(RemoveAt(s, i)) \subseteq Range(s)
           /\ \A x \in Range(s) : x = s[i] \/ x \in Range(RemoveAt(s, i))
           /\ IsInjective(s) => IsInjective(RemoveAt(s, i)) /\ s[i] \notin Range(RemoveAt(s, i))
           /\ s[i] \in Range(s)
<1> DEFINE t == RemoveAt(s, i)
<1>1. /\ t \in Seq(S) /\ DOMAIN s = 1..Len(s) /\ Len(s) \in Nat /\ i \in 1..Len(s)
      /\ DOMAIN t = 1..Len(s) - 1
      /\ \A j \in 1..Len(s) - 1 : t[j] = IF j < i THEN s[j] ELSE s[j + 1]
      <2>1. DOMAIN s = 1..Len(s) /\ Len(s) \in Nat /\ i \in 1..Len(s)
            OBVIOUS
      <2> DEFINE a == SubSeq(s, 1, i - 1)
                 b == SubSeq(s, i + 1, Len(s))
      <2>2. a \in Seq(S) /\ Len(a) = i - 1 /\ \A j \in 1..i - 1 : a[j] = s[j]
            BY <2>1
      <2>3. b \in Seq(S) /\ Len(b) = Len(s) - i /\ \A j \in 1..Len(s) - i : b[j] = s[j + i]
            BY <2>1
      <2>4. t = a \o b
            BY DEF RemoveAt
      <2> HIDE DEF a, b, t
      <2>5. /\ t \in Seq(S) /\ DOMAIN t = 1..Len(s) - 1
            /\ \A j \in 1..i - 1 : t[j] = a[j]
            /\ \A j \in 1..Len(s) - i : t[j + (i - 1)] = b[j]
            <3>1. t = a \o b /\ Len(a) = i - 1 /\ Len(b) = Len(s) - i
                  BY <2>2, <2>3, <2>4
            <3>2. /\ t \in Seq(S) /\ DOMAIN t = 1..Len(a) + Len(b)
                  /\ \A j \in 1..Len(a) : t[j] = a[j]
                  /\ \A j \in 1..Len(b) : t[j + Len(a)] = b[j]
                  <4>1. a \in Seq(S) /\ b \in Seq(S) BY <2>2, <2>3
                  <4>2. QED BY <2>4, <4>1, ConcatFacts
            <3>3. Len(a) + Len(b) = Len(s) - 1 BY <2>1, <3>1
            <3>4. QED BY <3>1, <3>2, <3>3
      <2>6. ASSUME NEW j \in 1..Len(s) - 1, ~(j < i) PROVE t[j] = s[j + 1]
            <3>1. j - (i - 1) \in 1..Len(s) - i /\ j = (j - (i - 1)) + (i - 1)
                  BY <2>1, <2>6
            <3>2. t[j] = b[j - (i - 1)] /\ b[j - (i - 1)] = s[(j - (i - 1)) + i]
                  BY <2>3, <2>5, <3>1
            <3>3. (j - (i - 1)) + i = j + 1 BY <2>1
            <3>4. QED BY <3>2, <3>3
      <2>7. ASSUME NEW j \in 1..Len(s) - 1
            PROVE  t[j] = IF j < i THEN s[j] ELSE s[j + 1]
            <3>1. CASE j < i
                  <4>1. j \in 1..i - 1 BY <2>1, <3>1
                  <4>2. QED BY <2>2, <2>5, <3>1, <4>1
            <3>2. CASE ~(j < i)
                  BY <2>6, <3>2
            <3>3. QED BY <3>1, <3>2
      <2>8. QED BY <2>1, <2>5, <2>7
<1> HIDE DEF t
<1>2. \A j \in DOMAIN t : \E k \in DOMAIN s : k # i /\ t[j] = s[k] /\ (IF j < i THEN k = j ELSE k = j + 1)
      BY <1>1
<1>3. \A k \in DOMAIN s : k = i \/ \E j \in DOMAIN t : t[j] = s[k]
      <2>1. ASSUME NEW k \in DOMAIN s, k < i PROVE k \in DOMAIN t /\ t[k] = s[k]
            BY <1>1, <2>1
      <2>2. ASSUME NEW k \in DOMAIN s, k > i PROVE k - 1 \in DOMAIN t /\ t[k - 1] = s[k]
            BY <1>1, <2>2
      <2>3. QED BY <1>1, <2>1, <2>2
<1>4. Range(t) \subseteq Range(s) /\ \A x \in Range(s) : x = s[i] \/ x \in Range(t)
      BY <1>2, <1>3 DEF Range
<1>5. ASSUME IsInjective(s) PROVE IsInjective(t) /\ s[i] \notin Range(t)
      <2>1. s[i] \notin Range(t) BY <1>2, <1>5 DEF IsInjective, Range
      <2>2. ASSUME NEW a \in DOMAIN t, NEW b \in DOMAIN t, t[a] = t[b] PROVE a = b
            <3>1. PICK k \in DOMAIN s : t[a] = s[k] /\ (IF a < i THEN k = a ELSE k = a + 1)
                  BY <1>2
            <3>2. PICK l \in DOMAIN s : t[b] = s[l] /\ (IF b < i THEN l = b ELSE l = b + 1)
                  BY <1>2
            <3>3. k = l BY <1>5, <2>2, <3>1, <3>2 DEF IsInjective
            <3>4. QED BY <1>1, <3>1, <3>2, <3>3
      <2>3. QED BY <2>1, <2>2, Zenon DEF IsInjective
<1>6. s[i] \in Range(s) BY DEF Range
<1>7. QED BY <1>1, <1>4, <1>5, <1>6 DEF t

\* A plugin answers: the operation goes from its operator to the inbox.
LEMMA OperatorListsKeeps ==
    ASSUME IInv, NEW ns \in Namespaces, NEW i \in DOMAIN operators[ns], OperatorLists(ns, i)
    PROVE  IInv'
<1> DEFINE op == operators[ns][i]
<1> HIDE DEF op
<1>1. /\ operators \in [Namespaces -> Seq(Live)]
      /\ \A n \in Namespaces : operators[n] \in Seq(LiveIn(n))
      /\ inbox \in Seq(Messages) /\ failures \in Nat
      BY DEF IInv, StrongTypes
<1>2. /\ RemoveAt(operators[ns], i) \in Seq(LiveIn(ns)) /\ RemoveAt(operators[ns], i) \in Seq(Live)
      /\ op \in LiveIn(ns) /\ op \in Live
      /\ Range(RemoveAt(operators[ns], i)) \subseteq Range(operators[ns])
      /\ \A x \in Range(operators[ns]) : x = op \/ x \in Range(RemoveAt(operators[ns], i))
      /\ IsInjective(operators[ns]) => /\ IsInjective(RemoveAt(operators[ns], i))
                                       /\ op \notin Range(RemoveAt(operators[ns], i))
      /\ op \in Range(operators[ns])
      <2>1. operators[ns] \in Seq(LiveIn(ns)) /\ operators[ns] \in Seq(Live) BY <1>1
      <2>2. op \in LiveIn(ns) /\ op \in Live BY <2>1 DEF op
      <2>3. QED BY <2>1, <2>2, RemoveAtFacts DEF op
<1>3. /\ \A n \in Namespaces :
            operators'[n] = IF n = ns THEN RemoveAt(operators[ns], i) ELSE operators[n]
      /\ operators' \in [Namespaces -> Seq(Live)]
      /\ \A n \in Namespaces : operators'[n] \in Seq(LiveIn(n))
      BY <1>1, <1>2 DEF OperatorLists
<1>4. PICK m \in Messages : m.type = "Listing" /\ m.op = op /\ inbox' = Append(inbox, m)
      <2>1. Answer(op) \in SUBSET IDs /\ {} \in SUBSET IDs BY DEF Answer, IDs
      <2>2. /\ Listing(op, FALSE, Answer(op)) \in Messages
            /\ Listing(op, FALSE, Answer(op)).type = "Listing"
            /\ Listing(op, FALSE, Answer(op)).op = op
            BY <1>2, <2>1, Kinds
      <2>3. /\ Listing(op, TRUE, {}) \in Messages
            /\ Listing(op, TRUE, {}).type = "Listing" /\ Listing(op, TRUE, {}).op = op
            BY <1>2, <2>1, Kinds
      <2>4. \/ inbox' = Append(inbox, Listing(op, FALSE, Answer(op)))
            \/ inbox' = Append(inbox, Listing(op, TRUE, {}))
            BY Zenon DEF OperatorLists, op
      <2>5. QED BY <2>2, <2>3, <2>4
<1>5. Got(inbox, inbox', m)
      BY <1>1, <1>4, MessageArrives
<1>6. failures' \in Nat /\ failures' >= failures
      <2>1. failures' = failures \/ failures' = failures + 1
            BY Zenon DEF OperatorLists, CallFails
      <2>2. QED BY <1>1, <2>1
<1>7. UNCHANGED <<discState, isScheduled, roots, queued, listing, resumeTimers, syncing, recent,
                  discoverTimers, executors, hung, inventory, synced, bucket, elapsed>>
      BY DEF OperatorLists, listVars, limiterVars
<1>8. StrongTypes'
      BY <1>3, <1>5, <1>6, <1>7 DEF IInv, StrongTypes, Got, RootsOK, LimiterTypeOK
<1>9. QueueIsResumed'
      BY <1>5, <1>7 DEF IInv, QueueIsResumed, Pending, Got, ResumesIn
<1>10. /\ AtWork' \subseteq AtWork /\ op \in AtWork /\ \A x \in AtWork : x = op \/ x \in AtWork'
       /\ Answered' = Answered \cup {op} /\ CompletedIn(inbox') = CompletedIn(inbox)
       /\ Queued' = Queued /\ Syncing' = Syncing /\ Reporting' = Reporting
       <2>1. AtWork' \subseteq AtWork /\ op \in AtWork /\ \A x \in AtWork : x = op \/ x \in AtWork'
             BY <1>2, <1>3 DEF AtWork
       <2>2. Answered' = Answered \cup {op} /\ CompletedIn(inbox') = CompletedIn(inbox)
             BY <1>4, <1>5 DEF Got, Answered
       <2>3. QED BY <1>7, <2>1, <2>2 DEF Queued, Syncing, Reporting
<1>11. Registered'
       <2>1. CompletesOnce(inbox) => CompletesOnce(inbox')
             BY <1>4, <1>5 DEF Got
       <2>2. (IF failures > 0 THEN {None} ELSE {}) \subseteq (IF failures' > 0 THEN {None} ELSE {})
             BY <1>1, <1>6
       <2>3. QED BY <1>7, <1>10, <2>1, <2>2 DEF IInv, Registered, Answered
<1>12. Idle'
       BY <1>7 DEF IInv, Idle
<1>13. ASSUME OnePlace, Rooted, Later PROVE OnePlace' /\ Rooted' /\ Later'
       <2>1. op \notin AtWork'
             <3>1. ASSUME NEW n \in Namespaces, op \in Range(operators'[n]) PROVE FALSE
                   <4>1. n # ns BY <1>2, <1>3, <1>13, <3>1 DEF OnePlace
                   <4>2. op \in LiveIn(n) BY <1>3, <3>1 DEF Range
                   <4>3. QED BY <1>2, <4>1, <4>2 DEF LiveIn
             <3>2. QED BY <3>1 DEF AtWork
       <2>2. \A n \in Namespaces : IsInjective(operators'[n])
             BY <1>2, <1>3, <1>13 DEF OnePlace
       <2>3. AnswersOnce(inbox')
             BY <1>4, <1>5, <1>10, <1>13 DEF Got, OnePlace, Answered
       <2>4. OnePlace'
             BY <1>7, <1>10, <1>13, <2>1, <2>2, <2>3 DEF OnePlace
       <2>5. Present' = Present
             BY <1>10 DEF Present
       <2>6. QED BY <1>13, <2>4, <2>5 DEF Rooted, Later
<1>14. OnTheWay'
       BY <1>1, <1>6, <1>7, <1>10 DEF IInv, OnTheWay
<1>15. QED BY <1>8, <1>9, <1>11, <1>12, <1>13, <1>14 DEF IInv, Books

-----------------------------------------------------------------------------
\* What all ends of processListing have in common: the answer is taken from the
\* inbox and its operation is no longer registered.
Answers(m) ==
    /\ Receives(m) /\ m.type = "Listing"
    /\ inbox' = Tail(inbox) /\ listing' = Remaining(m)
    /\ UNCHANGED <<isScheduled, roots, queued, resumeTimers, operators, hung,
                   inventory, bucket, elapsed>>

Answer1(m) ==
    /\ inbox' \in Seq(Messages) /\ m.op \in Live /\ m.ids \subseteq IDs
    /\ Answered' \subseteq Answered /\ m.op \in Answered
    /\ \A x \in Answered : x = m.op \/ x \in Answered'
    /\ CompletedIn(inbox') = CompletedIn(inbox) /\ CompletesOnce(inbox')
    /\ Queued' = Queued /\ AtWork' = AtWork
    /\ listing' \subseteq AtWork' \cup Answered' /\ listing' \subseteq Live
    /\ QueueIsResumed'
    /\ OnePlace => /\ AnswersOnce(inbox') /\ m.op \notin Answered' \cup AtWork \cup Queued \cup Syncing
                   /\ AtWork' \cup Answered' \subseteq listing'

\* The first listing leaves the inbox, and its operation the books.
LEMMA AnswerTaken == ASSUME IInv, NEW m, Answers(m) PROVE Answer1(m)
<1>1. inbox \in Seq(Messages) /\ inbox # <<>> /\ Head(inbox) = m
      BY DEF IInv, StrongTypes, Answers, Receives
<1>2. /\ m \in Messages /\ <<>> \in Seq({ResumeScanning}) /\ inbox' = Tail(inbox) \o <<>>
      BY <1>1, Received DEF Answers
<1>3. Took(inbox, inbox', m)
      BY <1>1, <1>2, HeadTaken
<1>4. m.op \in Live /\ m.ids \subseteq IDs /\ m.type = "Listing"
      BY <1>2, MessageTypes DEF Answers
<1>5. m.op \in Answered
      <2>1. 1 \in DOMAIN inbox /\ inbox[1] = m BY <1>1
      <2>2. QED BY <1>4, <2>1 DEF Answered, AnsweredIn
<1>6. /\ inbox' \in Seq(Messages)
      /\ Answered' \subseteq Answered /\ \A x \in Answered : x = m.op \/ x \in Answered'
      /\ CompletedIn(inbox') = CompletedIn(inbox) /\ CompletesOnce(inbox')
      BY <1>3, <1>4 DEF Took, Answered, IInv, Registered
<1>7. Queued' = Queued /\ AtWork' = AtWork
      BY DEF Answers, Queued, AtWork
<1>8. listing' \subseteq AtWork' \cup Answered' /\ listing' \subseteq Live
      BY <1>6, <1>7 DEF Answers, Remaining, IInv, Registered, StrongTypes
<1>9. QueueIsResumed'
      <2>1. ResumesIn(inbox) => ResumesIn(inbox') BY <1>3, <1>4 DEF Took
      <2>2. QED BY <2>1 DEF Answers, IInv, QueueIsResumed, Pending, ResumesIn
<1>10. ASSUME OnePlace
       PROVE  /\ AnswersOnce(inbox') /\ m.op \notin Answered' \cup AtWork \cup Queued \cup Syncing
              /\ AtWork' \cup Answered' \subseteq listing'
       <2>1. AnswersOnce(inbox') /\ m.op \notin Answered'
             BY <1>3, <1>4, <1>10 DEF Took, OnePlace, Answered
       <2>2. m.op \notin AtWork \cup Queued \cup Syncing
             BY <1>5, <1>10 DEF OnePlace
       <2>3. AtWork \cup Answered \subseteq listing
             BY <1>10 DEF OnePlace
       <2>4. QED BY <1>6, <1>7, <2>1, <2>2, <2>3 DEF Answers, Remaining
<1>11. QED BY <1>4, <1>5, <1>6, <1>7, <1>8, <1>9, <1>10 DEF Answer1

\* Goto changes the state and may start the timer of the next discovery.
LEMMA GotoTypes ==
    ASSUME NEW st \in {"idle", "discovering"}, Goto(st), discoverTimers \in Nat
    PROVE  discState' = st /\ discState' \in {"idle", "discovering"} /\ discoverTimers' \in Nat
BY DEF Goto

\* The state after a piece of work is idle only without work.
LEMMA AfterWork ==
    ASSUME NEW q, NEW l, NEW s
    PROVE  /\ StateAfter(q, l, s) \in {"idle", "discovering"}
           /\ StateAfter(q, l, s) = "idle" => DOMAIN q = {} /\ l = {} /\ DOMAIN s = {}
BY DEF StateAfter, HasOutstandingWork

\* A listing that failed or brings nothing new keeps the invariant.
LEMMA NothingNewKeeps == ASSUME IInv, NEW m, NothingNew(m) PROVE IInv'
<1>1. Answers(m) /\ UNCHANGED <<syncing, recent, executors, synced, failures>>
      BY DEF NothingNew, Answers, limiterVars
<1>2. Answer1(m)
      BY <1>1, AnswerTaken
<1>3. /\ discState' \in {"idle", "discovering"} /\ discoverTimers' \in Nat
      /\ discState' = "idle" => DOMAIN queued = {} /\ listing' = {} /\ DOMAIN syncing = {}
      <2>1. Goto(StateAfter(queued, listing', syncing)) /\ discoverTimers \in Nat
            BY DEF NothingNew, IInv, StrongTypes
      <2>2. QED BY <2>1, GotoTypes, AfterWork
<1>4. StrongTypes'
      BY <1>1, <1>2, <1>3 DEF IInv, StrongTypes, Answers, Answer1, RootsOK, LimiterTypeOK
<1>5. Idle'
      BY <1>1, <1>3 DEF Idle, Answers
<1>6. Syncing' = Syncing /\ Reporting' = Reporting
      BY <1>1 DEF Syncing, Reporting
<1>7. Registered'
      BY <1>1, <1>2, <1>6 DEF IInv, Registered, Answer1
<1>8. Books'
      <2>1. Present' \subseteq Present
            BY <1>2, <1>6 DEF Present, Answer1
      <2>2. OnePlace => OnePlace'
            BY <1>1, <1>2, <1>6 DEF OnePlace, Answers, Answer1
      <2>3. QED BY <2>1, <2>2 DEF IInv, Books, Rooted, Later
<1>9. OnTheWay'
      BY <1>1, <1>6 DEF IInv, OnTheWay, Answers
<1>10. QED BY <1>2, <1>4, <1>5, <1>7, <1>8, <1>9 DEF IInv, Answer1

\* The function f with c mapped to x as well.
With(f, c, x) == [y \in DOMAIN f \cup {c} |-> IF y = c THEN x ELSE f[y]]

\* A function extended by one argument.
LEMMA Extended ==
    ASSUME NEW f, NEW c, NEW x
    PROVE  /\ Range(With(f, c, x)) \subseteq Range(f) \cup {x}
           /\ IsInjective(f) /\ x \notin Range(f) => IsInjective(With(f, c, x))
<1> DEFINE g == With(f, c, x)
<1>1. /\ DOMAIN g = DOMAIN f \cup {c} /\ g[c] = x
      /\ \A y \in DOMAIN f : y # c => g[y] = f[y]
      BY DEF With
<1> HIDE DEF g
<1>2. Range(g) \subseteq Range(f) \cup {x}
      BY <1>1 DEF Range
<1>3. IsInjective(f) /\ x \notin Range(f) => IsInjective(g)
      BY <1>1 DEF Range, IsInjective
<1>4. QED BY <1>2, <1>3 DEF g

\* A listing whose new resources are synchronized keeps the invariant.
LEMMA SyncNewKeeps == ASSUME IInv, NEW m, SyncNew(m) PROVE IInv'
<1>1. Answers(m) /\ failures' = failures
      BY DEF SyncNew, Answers, limiterVars
<1>2. Answer1(m)
      BY <1>1, AnswerTaken
<1>3. New(m) \subseteq IDs /\ recent' = recent \cup New(m)
      BY <1>2 DEF New, Answer1, SyncNew
<1>4. PICK c \in CommandIDs \ DOMAIN executors :
         /\ ~ \E i \in DOMAIN inbox : inbox[i].type = "ChangesetCompleted" /\ inbox[i].id = c
         /\ syncing' = With(syncing, c, m.op)
         /\ executors' = With(executors, c, [ids |-> New(m), mine |-> TRUE])
      BY Zenon DEF SyncNew, With
<1>5. c \notin CompletedIn(inbox) /\ c \notin Reporting /\ c \notin DOMAIN syncing /\ c # None
      <2>1. c \notin CompletedIn(inbox) BY <1>4, Zenon DEF CompletedIn
      <2>2. c \notin Reporting /\ c # None BY <1>4, DiscoveryAssumption DEF Reporting
      <2>3. QED BY <2>1, <2>2 DEF IInv, Registered
<1>6. /\ DOMAIN syncing' = DOMAIN syncing \cup {c} /\ syncing'[c] = m.op
      /\ \A y \in DOMAIN syncing : syncing'[y] = syncing[y]
      /\ Syncing' \subseteq Syncing \cup {m.op}
      /\ IsInjective(syncing) /\ m.op \notin Syncing => IsInjective(syncing')
      <2>1. /\ DOMAIN With(syncing, c, m.op) = DOMAIN syncing \cup {c}
            /\ With(syncing, c, m.op)[c] = m.op
            /\ \A y \in DOMAIN syncing : y # c => With(syncing, c, m.op)[y] = syncing[y]
            BY DEF With
      <2>2. /\ Range(With(syncing, c, m.op)) \subseteq Range(syncing) \cup {m.op}
            /\ IsInjective(syncing) /\ m.op \notin Range(syncing)
                  => IsInjective(With(syncing, c, m.op))
            BY Extended
      <2>3. syncing' = With(syncing, c, m.op) BY <1>4
      <2>4. QED BY <1>5, <2>1, <2>2, <2>3 DEF Syncing
<1>7. /\ DOMAIN executors' = DOMAIN executors \cup {c}
      /\ executors'[c] = [ids |-> New(m), mine |-> TRUE]
      /\ \A y \in DOMAIN executors : executors'[y] = executors[y]
      <2>1. PICK x : x = [ids |-> New(m), mine |-> TRUE]
            OBVIOUS
      <2>2. /\ DOMAIN With(executors, c, x) = DOMAIN executors \cup {c}
            /\ With(executors, c, x)[c] = x
            /\ \A y \in DOMAIN executors : y # c => With(executors, c, x)[y] = executors[y]
            BY DEF With
      <2>3. executors' = With(executors, c, x) /\ c \notin DOMAIN executors BY <1>4, <2>1
      <2>4. QED BY <2>1, <2>2, <2>3
<1>8. /\ Reporting' = Reporting \cup {c} /\ executors'[c].ids = New(m)
      /\ executors'[c] \in [ids : SUBSET IDs, mine : BOOLEAN]
      BY <1>3, <1>7 DEF Reporting
<1>9. discState' = "discovering" /\ discoverTimers' \in Nat
      BY GotoTypes DEF SyncNew, IInv, StrongTypes
<1>10. /\ synced' \in [IDs -> Nat]
       /\ \A id \in IDs : synced'[id] = synced[id] + (IF id \in New(m) THEN 1 ELSE 0)
       BY DEF SyncNew, IInv, StrongTypes
<1>11. StrongTypes'
       <2>1. /\ DOMAIN syncing' \subseteq CommandIDs \cup {None}
             /\ \A x \in DOMAIN syncing' : syncing'[x] \in Live
             BY <1>2, <1>6 DEF IInv, StrongTypes, Answer1
       <2>2. /\ DOMAIN executors' \subseteq CommandIDs
             /\ \A x \in DOMAIN executors' : executors'[x] \in [ids : SUBSET IDs, mine : BOOLEAN]
             BY <1>4, <1>7, <1>8 DEF IInv, StrongTypes
       <2>3. recent' \subseteq IDs
             BY <1>3 DEF IInv, StrongTypes
       <2>4. QED BY <1>1, <1>2, <1>9, <1>10, <2>1, <2>2, <2>3
                 DEF IInv, StrongTypes, Answers, Answer1, RootsOK, LimiterTypeOK
<1>12. Idle'
       BY <1>9 DEF Idle
<1>13. Registered'
       BY <1>1, <1>2, <1>5, <1>6, <1>7, <1>8 DEF IInv, Registered, Answer1
<1>14. Books'
       <2>1. Present' \subseteq Present
             BY <1>2, <1>6 DEF Present, Answer1
       <2>2. ASSUME OnePlace PROVE OnePlace'
             <3>1. m.op \notin Answered' \cup AtWork \cup Queued \cup Syncing
                   BY <1>2, <2>2 DEF Answer1
             <3>2. IsInjective(syncing')
                   BY <1>6, <2>2, <3>1 DEF OnePlace
             <3>3. QED BY <1>1, <1>2, <1>6, <2>2, <3>1, <3>2 DEF OnePlace, Answers, Answer1
       <2>3. QED BY <2>1, <2>2 DEF IInv, Books, Rooted, Later
<1>15. OnTheWay'
       <2> SUFFICES ASSUME failures = 0, NEW id \in IDs \ Filtered
                    PROVE  /\ synced'[id] <= 1
                           /\ synced'[id] = 1 =>
                                 \/ id \in inventory'
                                 \/ id \in recent' /\ \E x \in Reporting' : id \in executors'[x].ids
           BY <1>1 DEF OnTheWay
       <2>1. synced[id] \in Nat /\ synced[id] <= 1
             BY DEF IInv, OnTheWay, StrongTypes
       <2>2. CASE id \in New(m)
             <3>1. id \notin recent /\ id \notin inventory
                   BY <2>2 DEF New, resourceExists
             <3>2. synced[id] = 0
                   BY <2>1, <3>1 DEF IInv, OnTheWay
             <3>3. QED BY <1>3, <1>8, <1>10, <2>2, <3>2
       <2>3. CASE id \notin New(m)
             <3>1. synced'[id] = synced[id]
                   BY <1>10, <2>1, <2>3
             <3>2. \A x \in Reporting : executors'[x] = executors[x]
                   BY <1>7 DEF Reporting
             <3>3. QED BY <1>1, <1>3, <1>8, <2>1, <3>1, <3>2 DEF IInv, OnTheWay, Answers
       <2>4. QED BY <2>2, <2>3
<1>16. QED BY <1>2, <1>11, <1>12, <1>13, <1>14, <1>15 DEF IInv, Answer1

\* So does one whose sync could not be started.
LEMMA SyncNewFailsKeeps == ASSUME IInv, NEW m, SyncNewFails(m) PROVE IInv'
<1>1. Answers(m) /\ UNCHANGED <<executors, synced>> /\ CallFails
      BY DEF SyncNewFails, Answers, limiterVars
<1>2. Answer1(m)
      BY <1>1, AnswerTaken
<1>3. failures' \in Nat /\ failures' > 0
      BY <1>1 DEF CallFails, IInv, StrongTypes
<1>4. recent' \subseteq IDs
      BY <1>2 DEF SyncNewFails, New, IInv, StrongTypes, Answer1
<1> DEFINE last == ~HasOutstandingWork(queued, listing', syncing)
<1>5. /\ discState' \in {"idle", "discovering"} /\ discoverTimers' \in Nat
      /\ discState' = "idle" => last
      /\ \/ last /\ syncing' = syncing
         \/ ~last /\ syncing' = With(syncing, None, m.op)
      <2>1. Goto(IF last THEN "idle" ELSE "discovering") /\ discoverTimers \in Nat
            BY DEF SyncNewFails, IInv, StrongTypes
      <2>2. syncing' = IF last THEN syncing ELSE With(syncing, None, m.op)
            BY Zenon DEF SyncNewFails, With
      <2> HIDE DEF last
      <2>3. CASE last BY <2>1, <2>2, <2>3, GotoTypes
      <2>4. CASE ~last BY <2>1, <2>2, <2>4, GotoTypes
      <2>5. QED BY <2>3, <2>4
<1>6. Idle'
      BY <1>1, <1>5 DEF Idle, HasOutstandingWork, Answers
<1>7. /\ DOMAIN syncing \subseteq DOMAIN syncing' /\ DOMAIN syncing' \subseteq DOMAIN syncing \cup {None}
      /\ \A y \in DOMAIN syncing' : syncing'[y] = m.op \/ (y \in DOMAIN syncing /\ syncing'[y] = syncing[y])
      /\ Syncing' \subseteq Syncing \cup {m.op}
      /\ IsInjective(syncing) /\ m.op \notin Syncing => IsInjective(syncing')
      <2> HIDE DEF last
      <2>1. CASE last /\ syncing' = syncing
            BY <2>1 DEF Syncing
      <2>2. CASE syncing' = With(syncing, None, m.op)
            <3>1. /\ DOMAIN With(syncing, None, m.op) = DOMAIN syncing \cup {None}
                  /\ With(syncing, None, m.op)[None] = m.op
                  /\ \A y \in DOMAIN syncing :
                        y # None => With(syncing, None, m.op)[y] = syncing[y]
                  BY DEF With
            <3>2. /\ Range(With(syncing, None, m.op)) \subseteq Range(syncing) \cup {m.op}
                  /\ IsInjective(syncing) /\ m.op \notin Range(syncing)
                        => IsInjective(With(syncing, None, m.op))
                  BY Extended
            <3>3. syncing' = With(syncing, None, m.op) BY <2>2
            <3>4. QED BY <3>1, <3>2, <3>3 DEF Syncing
      <2>3. QED BY <1>5, <2>1, <2>2
<1>8. StrongTypes'
      <2>1. /\ DOMAIN syncing' \subseteq CommandIDs \cup {None}
            /\ \A x \in DOMAIN syncing' : syncing'[x] \in Live
            BY <1>2, <1>7 DEF IInv, StrongTypes, Answer1
      <2>2. QED BY <1>1, <1>2, <1>3, <1>4, <1>5, <2>1
                DEF IInv, StrongTypes, Answers, Answer1, RootsOK, LimiterTypeOK
<1>9. Reporting' = Reporting
      BY <1>1 DEF Reporting
<1>10. Registered'
       BY <1>1, <1>2, <1>3, <1>7, <1>9 DEF IInv, Registered, Answer1
<1>11. Books'
       <2>1. Present' \subseteq Present
             BY <1>2, <1>7 DEF Present, Answer1
       <2>2. ASSUME OnePlace PROVE OnePlace'
             <3>1. m.op \notin Answered' \cup AtWork \cup Queued \cup Syncing
                   BY <1>2, <2>2 DEF Answer1
             <3>2. IsInjective(syncing')
                   BY <1>7, <2>2, <3>1 DEF OnePlace
             <3>3. QED BY <1>1, <1>2, <1>7, <2>2, <3>1, <3>2 DEF OnePlace, Answers, Answer1
       <2>3. QED BY <2>1, <2>2 DEF IInv, Books, Rooted, Later
<1>12. OnTheWay'
       BY <1>3 DEF OnTheWay
<1>13. QED BY <1>2, <1>6, <1>8, <1>10, <1>11, <1>12 DEF IInv, Answer1

\* A Read that hangs: the executor will not report, and is one call that
\* has failed.
LEMMA ReadHangsKeeps == ASSUME IInv, NEW c \in CommandIDs, ReadHangs(c) PROVE IInv'
<1>1. /\ UNCHANGED <<discState, isScheduled, roots, queued, listing, resumeTimers, syncing,
                     recent, inbox, discoverTimers, operators, executors, inventory, synced,
                     bucket, elapsed>>
      /\ hung' \subseteq CommandIDs
      /\ failures \in Nat /\ failures' \in Nat /\ failures' > 0
      BY DEF ReadHangs, CallFails, listVars, limiterVars, IInv, StrongTypes
<1>2. StrongTypes'
      BY <1>1 DEF IInv, StrongTypes, RootsOK, LimiterTypeOK
<1>3. /\ Queued' = Queued /\ AtWork' = AtWork /\ Answered' = Answered /\ Syncing' = Syncing
      /\ Reporting' = Reporting /\ Present' = Present
      BY <1>1 DEF Queued, AtWork, Answered, Syncing, Reporting, Present
<1>4. Registered'
      BY <1>1, <1>3 DEF IInv, Registered, Answered
<1>5. QueueIsResumed' /\ Idle' /\ Books'
      BY <1>1, <1>3 DEF IInv, QueueIsResumed, Pending, Idle, Books, OnePlace, Rooted, Later
<1>6. OnTheWay'
      BY <1>1 DEF OnTheWay
<1>7. QED BY <1>2, <1>4, <1>5, <1>6 DEF IInv

\* An executor finishes: its resources are in the inventory if it went well,
\* and the discovery hears of it if the executor is its own.
LEMMA ExecutorFinishesKeeps ==
    ASSUME IInv, NEW c \in CommandIDs, NEW ok \in BOOLEAN, ExecutorFinishes(c, ok)
    PROVE  IInv'
<1>1. /\ UNCHANGED <<discState, isScheduled, roots, queued, listing, resumeTimers, syncing,
                     recent, discoverTimers, operators, synced, bucket, elapsed>>
      /\ c \in DOMAIN executors /\ inbox \in Seq(Messages) /\ hung' = hung
      BY DEF ExecutorFinishes, listVars, limiterVars, IInv, StrongTypes
<1>2. executors[c] \in [ids : SUBSET IDs, mine : BOOLEAN]
      BY <1>1 DEF IInv, StrongTypes
<1>3. /\ DOMAIN executors' = DOMAIN executors \ {c}
      /\ \A x \in DOMAIN executors' : executors'[x] = executors[x]
      BY DEF ExecutorFinishes
<1>4. PICK stored \in SUBSET Storable(c) :
         /\ inventory' = inventory \cup stored
         /\ IF ok /\ stored = Storable(c) THEN UNCHANGED failures ELSE CallFails
      BY DEF ExecutorFinishes
<1>5. /\ failures' \in Nat /\ failures' >= failures /\ failures \in Nat
      /\ failures' = 0 => inventory' = inventory \cup Storable(c)
      /\ inventory' \subseteq IDs /\ inventory \subseteq inventory'
      BY <1>2, <1>4 DEF CallFails, Storable, IInv, StrongTypes
<1>6. Reporting' = Reporting \ {c}
      BY <1>3 DEF Reporting
<1>7. /\ inbox' \in Seq(Messages) /\ Answered' = Answered
      /\ AnswersOnce(inbox) => AnswersOnce(inbox')
      /\ CompletesOnce(inbox')
      /\ CompletedIn(inbox') = CompletedIn(inbox) \cup (Reporting \cap {c})
      /\ ResumesIn(inbox) => ResumesIn(inbox')
      <2>1. CASE executors[c].mine
            <3>1. /\ ChangesetCompleted(c, ok) \in Messages
                  /\ ChangesetCompleted(c, ok).type = "ChangesetCompleted"
                  /\ ChangesetCompleted(c, ok).id = c
                  BY Kinds
            <3>2. inbox' = Append(inbox, ChangesetCompleted(c, ok))
                  BY <2>1 DEF ExecutorFinishes
            <3>3. Got(inbox, inbox', ChangesetCompleted(c, ok))
                  BY <1>1, <3>1, <3>2, MessageArrives
            <3>4. c \notin CompletedIn(inbox) /\ CompletesOnce(inbox) /\ c \in Reporting
                  BY <1>1, <2>1 DEF IInv, Registered, Reporting
            <3>5. QED BY <3>1, <3>3, <3>4 DEF Got, Answered
      <2>2. CASE ~executors[c].mine
            <3>1. inbox' = inbox /\ c \notin Reporting
                  BY <2>2 DEF ExecutorFinishes, Reporting
            <3>2. QED BY <1>1, <3>1 DEF Answered, IInv, Registered
      <2>3. QED BY <2>1, <2>2
<1>8. Queued' = Queued /\ AtWork' = AtWork /\ Syncing' = Syncing
      BY <1>1 DEF Queued, AtWork, Syncing
<1>9. StrongTypes'
      <2>1. /\ DOMAIN executors' \subseteq CommandIDs
            /\ \A x \in DOMAIN executors' : executors'[x] \in [ids : SUBSET IDs, mine : BOOLEAN]
            BY <1>3 DEF IInv, StrongTypes
      <2>2. QED BY <1>1, <1>5, <1>7, <2>1 DEF IInv, StrongTypes, RootsOK, LimiterTypeOK
<1>10. QueueIsResumed'
       BY <1>1, <1>7 DEF IInv, QueueIsResumed, Pending, ResumesIn
<1>11. Registered'
       <2>1. (IF failures > 0 THEN {None} ELSE {}) \subseteq (IF failures' > 0 THEN {None} ELSE {})
             BY <1>5
       <2>2. QED BY <1>1, <1>3, <1>6, <1>7, <1>8, <2>1 DEF IInv, Registered, Answered
<1>12. Idle'
       BY <1>1 DEF IInv, Idle
<1>13. Books'
       <2>1. Present' = Present BY <1>7, <1>8 DEF Present
       <2>2. OnePlace => OnePlace' BY <1>1, <1>7, <1>8 DEF OnePlace
       <2>3. QED BY <2>1, <2>2 DEF IInv, Books, Rooted, Later
<1>14. OnTheWay'
       <2> SUFFICES ASSUME failures' = 0, NEW id \in IDs \ Filtered
                    PROVE  /\ synced[id] <= 1
                           /\ synced[id] = 1 =>
                                 \/ id \in inventory'
                                 \/ id \in recent /\ \E x \in Reporting' : id \in executors'[x].ids
           BY <1>1 DEF OnTheWay
       <2>1. failures = 0 /\ inventory' = inventory \cup Storable(c)
             BY <1>5
       <2>2. \A x \in Reporting : x = c \/ (x \in Reporting' /\ executors'[x] = executors[x])
             BY <1>3, <1>6 DEF Reporting
       <2>3. QED BY <2>1, <2>2 DEF IInv, OnTheWay, Storable
<1>15. QED BY <1>9, <1>10, <1>11, <1>12, <1>13, <1>14 DEF IInv

-----------------------------------------------------------------------------
\* A call fails, or a message has no handler: the process starts again.
LEMMA RestartsKeep == ASSUME IInv, ResumeFails \/ Unhandled PROVE IInv'
<1>1. LimiterTypeOK /\ failures \in Nat
      BY DEF IInv, StrongTypes
<1>2. Restart /\ UNCHANGED <<hung, inventory, synced, bucket, elapsed>>
      BY Zenon DEF ResumeFails, Unhandled, limiterVars
<1>3. \/ failures' = failures + 1
      \/ failures' = failures /\ discState = "idle"
      BY Zenon DEF ResumeFails, Unhandled, CallFails
<1>4. failures' \in Nat /\ (failures' = 0 => failures = 0 /\ discState = "idle")
      BY <1>1, <1>3
<1>5. LimiterTypeOK'
      BY <1>1, <1>2 DEF LimiterTypeOK
<1>6. QED BY <1>2, <1>4, <1>5, RestartKeeps

\* What the sequence a followed by b consists of.
LEMMA ConcatRange ==
    ASSUME NEW S, NEW a \in Seq(S), NEW b \in Seq(S)
    PROVE  /\ a \o b \in Seq(S)
           /\ Range(a \o b) = Range(a) \cup Range(b)
           /\ IsInjective(a) /\ IsInjective(b) /\ Range(a) \cap Range(b) = {}
                 => IsInjective(a \o b)
<1>1. PICK t : t = a \o b OBVIOUS
<1>2. /\ t \in Seq(S) /\ DOMAIN t = 1..Len(a) + Len(b)
      /\ \A j \in 1..Len(a) : t[j] = a[j]
      /\ \A j \in 1..Len(b) : t[j + Len(a)] = b[j]
      /\ Len(a) \in Nat /\ Len(b) \in Nat
      BY <1>1, ConcatFacts
<1>3. DOMAIN a = 1..Len(a) /\ DOMAIN b = 1..Len(b)
      OBVIOUS
<1>4. \A j \in DOMAIN t : \/ j \in DOMAIN a /\ t[j] = a[j]
                          \/ j - Len(a) \in DOMAIN b /\ t[j] = b[j - Len(a)] /\ j \notin DOMAIN a
      <2>1. ASSUME NEW j \in 1..Len(a) + Len(b), j > Len(a)
            PROVE  j - Len(a) \in 1..Len(b) /\ (j - Len(a)) + Len(a) = j
            BY <1>2, <2>1
      <2>2. QED BY <1>2, <1>3, <2>1
<1>5. /\ \A j \in DOMAIN a : j \in DOMAIN t
      /\ \A j \in DOMAIN b : j + Len(a) \in DOMAIN t
      BY <1>2, <1>3
<1>6. Range(t) = Range(a) \cup Range(b)
      <2>1. Range(t) \subseteq Range(a) \cup Range(b)
            BY <1>4, Zenon DEF Range
      <2>2. Range(a) \subseteq Range(t) /\ Range(b) \subseteq Range(t)
            BY <1>2, <1>3, <1>5 DEF Range
      <2>3. QED BY <2>1, <2>2
<1>7. ASSUME IsInjective(a), IsInjective(b), Range(a) \cap Range(b) = {},
             NEW i \in DOMAIN t, NEW j \in DOMAIN t, t[i] = t[j]
      PROVE  i = j
      <2>1. CASE i \in DOMAIN a /\ t[i] = a[i] /\ j \in DOMAIN a /\ t[j] = a[j]
            BY <1>7, <2>1, Zenon DEF IsInjective
      <2>2. CASE /\ i - Len(a) \in DOMAIN b /\ t[i] = b[i - Len(a)]
                 /\ j - Len(a) \in DOMAIN b /\ t[j] = b[j - Len(a)]
            <3>1. i - Len(a) = j - Len(a)
                  BY <1>7, <2>2, Zenon DEF IsInjective
            <3>2. QED BY <1>2, <3>1
      <2>3. CASE /\ i \in DOMAIN a /\ t[i] = a[i]
                 /\ j - Len(a) \in DOMAIN b /\ t[j] = b[j - Len(a)]
            <3>1. t[i] \in Range(a) /\ t[j] \in Range(b) BY <2>3, Zenon DEF Range
            <3>2. QED BY <1>7, <3>1
      <2>4. CASE /\ j \in DOMAIN a /\ t[j] = a[j]
                 /\ i - Len(a) \in DOMAIN b /\ t[i] = b[i - Len(a)]
            <3>1. t[j] \in Range(a) /\ t[i] \in Range(b) BY <2>4, Zenon DEF Range
            <3>2. QED BY <1>7, <3>1
      <2>5. QED BY <1>4, <2>1, <2>2, <2>3, <2>4
<1>8. IsInjective(a) /\ IsInjective(b) /\ Range(a) \cap Range(b) = {} => IsInjective(t)
      BY <1>7, Zenon DEF IsInjective
<1>9. QED BY <1>1, <1>2, <1>6, <1>8

\* A sequence in two parts.
LEMMA SplitRange ==
    ASSUME NEW S, NEW s \in Seq(S), NEW k \in 0..Len(s)
    PROVE  /\ SubSeq(s, 1, k) \in Seq(S) /\ SubSeq(s, k + 1, Len(s)) \in Seq(S)
           /\ Range(SubSeq(s, 1, k)) \subseteq Range(s)
           /\ Range(SubSeq(s, k + 1, Len(s))) \subseteq Range(s)
           /\ IsInjective(s) =>
                 /\ IsInjective(SubSeq(s, 1, k)) /\ IsInjective(SubSeq(s, k + 1, Len(s)))
                 /\ Range(SubSeq(s, 1, k)) \cap Range(SubSeq(s, k + 1, Len(s))) = {}
<1>1. PICK a, b : a = SubSeq(s, 1, k) /\ b = SubSeq(s, k + 1, Len(s)) OBVIOUS
<1>2. DOMAIN s = 1..Len(s) /\ Len(s) \in Nat /\ k \in Nat /\ k <= Len(s)
      OBVIOUS
<1>3. /\ a \in Seq(S) /\ DOMAIN a = 1..k
      /\ \A j \in DOMAIN a : j \in DOMAIN s /\ j <= k /\ a[j] = s[j]
      BY <1>1, <1>2
<1>4. /\ b \in Seq(S) /\ DOMAIN b = 1..Len(s) - k
      /\ \A j \in DOMAIN b : j + k \in DOMAIN s /\ j + k > k /\ b[j] = s[j + k]
      BY <1>1, <1>2
<1>5. Range(a) \subseteq Range(s) /\ Range(b) \subseteq Range(s)
      BY <1>3, <1>4 DEF Range
<1>6. ASSUME IsInjective(s)
      PROVE  IsInjective(a) /\ IsInjective(b) /\ Range(a) \cap Range(b) = {}
      <2>1. IsInjective(a) BY <1>3, <1>6 DEF IsInjective
      <2>2. IsInjective(b) BY <1>2, <1>4, <1>6 DEF IsInjective
      <2>3. ASSUME NEW i \in DOMAIN a, NEW j \in DOMAIN b, a[i] = b[j] PROVE FALSE
            <3>1. i = j + k BY <1>3, <1>4, <1>6, <2>3 DEF IsInjective
            <3>2. QED BY <1>2, <1>3, <1>4, <3>1
      <2>4. QED BY <2>1, <2>2, <2>3 DEF Range
<1>7. QED BY <1>1, <1>3, <1>4, <1>5, <1>6

\* The image of two finite sets under a pair of arguments.
LEMMA FinitePairs ==
    ASSUME NEW A, IsFiniteSet(A), NEW B, IsFiniteSet(B), NEW f, NEW T,
           DOMAIN f = A \X B, T \subseteq {f[p] : p \in A \X B}
    PROVE  IsFiniteSet(T)
<1>1. IsFiniteSet(A \X B)
      BY FS_Product
<1> DEFINE R == {f[p] : p \in A \X B}
           g == [p \in A \X B |-> f[p]]
<1>2. g \in Surjection(A \X B, R)
      BY DEF Surjection
<1>3. IsFiniteSet(R)
      BY <1>1, <1>2, FS_Surjection
<1>4. QED BY <1>3, FS_Subset

\* Both kinds of operations to be queued are finitely many.
LEMMA FiniteOperations ==
    IsFiniteSet(Scannable) /\ \A ns : IsFiniteSet(RootOperations(ns))
<1>1. IsFiniteSet(Scannable)
      BY DiscoveryAssumption, FS_Subset DEF Scannable
<1>2. ASSUME NEW ns PROVE IsFiniteSet(RootOperations(ns))
      <2> DEFINE f == [p \in Types \X DOMAIN Targets |-> Operation(p[1], p[2], None)]
      <2>1. ASSUME NEW x \in RootOperations(ns)
            PROVE  x \in {f[p] : p \in Types \X DOMAIN Targets}
            <3>1. PICK type \in DOMAIN Roots(ns), target \in Scannable :
                     x = Operation(type, target, None)
                  BY DEF RootOperations
            <3>2. type \in Types /\ target \in DOMAIN Targets
                  BY DEF Roots, Supported, Scannable
            <3>3. x = f[<<type, target>>]
                  BY <3>1, <3>2
            <3>4. QED BY <3>2, <3>3
      <2>2. DOMAIN f = Types \X DOMAIN Targets
            OBVIOUS
      <2> HIDE DEF f
      <2>3. RootOperations(ns) \subseteq {f[p] : p \in Types \X DOMAIN Targets}
            BY <2>1
      <2>4. IsFiniteSet(Types) /\ IsFiniteSet(DOMAIN Targets)
            BY DiscoveryAssumption
      <2>5. QED BY <2>2, <2>3, <2>4, FinitePairs
<1>3. QED BY <1>1, <1>2

\* What is nested in an operation is finite.
LEMMA FiniteNested ==
    ASSUME RootsOK, NEW op PROVE IsFiniteSet(Nested(op))
<1> DEFINE f == [p \in Cloud \X Types |-> [parent |-> p[1].id, type |-> p[2]]]
<1>1. ASSUME NEW x \in Nested(op) PROVE x \in {f[p] : p \in Cloud \X Types}
      <2>1. op.type \in DOMAIN roots
            BY DEF Nested
      <2>2. PICK r \in Parents(op), t \in roots[op.type] : x = [parent |-> r.id, type |-> t]
            BY <2>1 DEF Nested
      <2>3. r \in Cloud /\ t \in Types
            BY <2>1 DEF Parents, RootsOK
      <2>4. x = f[<<r, t>>]
            BY <2>2, <2>3
      <2>5. QED BY <2>3, <2>4
<1>2. DOMAIN f = Cloud \X Types
      OBVIOUS
<1> HIDE DEF f
<1>3. Nested(op) \subseteq {f[p] : p \in Cloud \X Types}
      BY <1>1
<1>4. IsFiniteSet(Cloud) /\ IsFiniteSet(Types)
      BY DiscoveryAssumption
<1>5. QED BY <1>2, <1>3, <1>4, FinitePairs

\* The elements of a finite set in some order.
LEMMA Ordered ==
    ASSUME NEW S, IsFiniteSet(S), NEW order \in SetToSeqs(S)
    PROVE  order \in Seq(S) /\ IsInjective(order) /\ Range(order) \subseteq S
<1>1. Cardinality(S) \in Nat
      BY FS_CardinalityType
<1>2. /\ order \in [1..Cardinality(S) -> S]
      /\ \A i, j \in 1..Cardinality(S) : i # j => order[i] # order[j]
      BY DEF SetToSeqs
<1>3. QED BY <1>1, <1>2 DEF IsInjective, Range

\* One ResumeScanning for each element of a finite set.
LEMMA Resumes ==
    ASSUME NEW S, IsFiniteSet(S)
    PROVE  /\ [i \in 1..Cardinality(S) |-> ResumeScanning] \in Seq({ResumeScanning})
           /\ S # {} => Len([i \in 1..Cardinality(S) |-> ResumeScanning]) > 0
<1>1. Cardinality(S) \in Nat /\ (S # {} => Cardinality(S) # 0)
      BY FS_CardinalityType, FS_EmptySet
<1>2. PICK n \in Nat : n = Cardinality(S)
      BY <1>1
<1>3. ASSUME NEW x PROVE [i \in 1..n |-> x] \in Seq({x}) /\ Len([i \in 1..n |-> x]) = n
      OBVIOUS
<1>4. QED BY <1>1, <1>2, <1>3

-----------------------------------------------------------------------------
\* The tokens granted are as many as there are, at most as many as are needed.
LEMMA TakenFacts ==
    ASSUME LimiterTypeOK, NEW ns \in Namespaces, NEW n \in Nat
    PROVE  Granted(ns, n) \in 0..n /\ Replenished(ns) - Granted(ns, n) \in Nat
<1>1. Replenished(ns) \in Nat
      BY CapacityAssumption DEF LimiterTypeOK, Replenished
<1>2. QED BY <1>1 DEF Granted

\* Operations on targets of one namespace.
LEMMA LiveSequence ==
    ASSUME NEW ns, NEW s \in Seq(LiveIn(ns))
    PROVE  s \in Seq(Live) /\ Range(s) \subseteq LiveIn(ns) /\ LiveIn(ns) \subseteq Live
<1>1. LiveIn(ns) \subseteq Live
      BY DEF LiveIn
<1>2. Range(s) \subseteq LiveIn(ns)
      BY DEF Range
<1>3. QED BY <1>1, <1>2

\* The first operations of a queue go to the plugin.
LEMMA ResumeKeeps == ASSUME IInv, Resume PROVE IInv'
<1>1. /\ StrongTypes /\ inbox \in Seq(Messages) /\ inbox # <<>> /\ Head(inbox) = ResumeScanning
      /\ discState = "discovering" /\ LimiterTypeOK
      BY DEF IInv, StrongTypes, Resume, Receives
<1>2. UNCHANGED <<discState, isScheduled, roots, syncing, recent, discoverTimers, executors,
                  hung, inventory, synced, failures>>
      BY DEF Resume
<1>3. /\ inbox' \in Seq(Messages) /\ Answered' = Answered
      /\ CompletedIn(inbox') = CompletedIn(inbox)
      /\ AnswersOnce(inbox) => AnswersOnce(inbox')
      /\ CompletesOnce(inbox) => CompletesOnce(inbox')
      <2>1. ResumeScanning.type = "ResumeScanning" BY Kinds
      <2>2. <<>> \in Seq({ResumeScanning}) /\ inbox' = Tail(inbox) \o <<>>
            BY <1>1, Received DEF Resume
      <2>3. Took(inbox, inbox', ResumeScanning)
            BY <1>1, <2>2, HeadTaken
      <2>4. QED BY <2>1, <2>3 DEF Took, Answered
<1>4. ASSUME NEW ns \in DOMAIN queued
      PROVE  /\ ns \in Namespaces /\ queued[ns] \in Seq(LiveIn(ns))
             /\ Scanned(ns) \in Seq(LiveIn(ns))
             /\ Range(Scanned(ns)) \subseteq Range(queued[ns])
             /\ LET rest == SubSeq(queued[ns], Taken(ns) + 1, Len(queued[ns])) IN
                /\ rest \in Seq(LiveIn(ns)) /\ Range(rest) \subseteq Range(queued[ns])
                /\ IsInjective(queued[ns]) => /\ IsInjective(Scanned(ns)) /\ IsInjective(rest)
                                              /\ Range(Scanned(ns)) \cap Range(rest) = {}
             /\ Replenished(ns) - Granted(ns, Len(queued[ns])) \in Nat
      <2>1. ns \in Namespaces /\ queued[ns] \in Seq(LiveIn(ns))
            BY <1>1 DEF StrongTypes
      <2>2. Len(queued[ns]) \in Nat
            BY <2>1
      <2>3. Taken(ns) \in 0..Len(queued[ns]) /\ Replenished(ns) - Granted(ns, Len(queued[ns])) \in Nat
            BY <1>1, <2>1, <2>2, TakenFacts DEF Taken
      <2>4. QED BY <2>1, <2>3, SplitRange DEF Scanned
<1> DEFINE moved == UNION {Range(Scanned(ns)) : ns \in DOMAIN queued}
<1>5. PICK deleted \in IF Short = {} THEN {DOMAIN queued} ELSE SUBSET (DOMAIN queued \ Short) :
         queued' = [ns \in DOMAIN queued \ deleted |->
                      SubSeq(queued[ns], Taken(ns) + 1, Len(queued[ns]))]
      BY Zenon DEF Resume
<1>6. /\ DOMAIN queued' \subseteq DOMAIN queued
      /\ \A ns \in DOMAIN queued' :
            queued'[ns] = SubSeq(queued[ns], Taken(ns) + 1, Len(queued[ns]))
      /\ Short = {} => DOMAIN queued' = {}
      BY <1>5
<1>7. \A ns \in Namespaces :
         operators'[ns] = IF ns \in DOMAIN queued THEN operators[ns] \o Scanned(ns) ELSE operators[ns]
      BY Zenon DEF Resume
<1>8. \A ns \in Namespaces :
         /\ operators[ns] \in Seq(LiveIn(ns)) /\ operators'[ns] \in Seq(LiveIn(ns))
         /\ ns \in DOMAIN queued => Range(operators'[ns]) = Range(operators[ns]) \cup Range(Scanned(ns))
         /\ ns \notin DOMAIN queued => operators'[ns] = operators[ns]
         /\ IsInjective(operators[ns]) /\ (ns \in DOMAIN queued =>
                  IsInjective(Scanned(ns)) /\ Range(operators[ns]) \cap Range(Scanned(ns)) = {})
               => IsInjective(operators'[ns])
      <2> SUFFICES ASSUME NEW ns \in Namespaces
                   PROVE  /\ operators[ns] \in Seq(LiveIn(ns)) /\ operators'[ns] \in Seq(LiveIn(ns))
                          /\ ns \in DOMAIN queued =>
                               Range(operators'[ns]) = Range(operators[ns]) \cup Range(Scanned(ns))
                          /\ ns \notin DOMAIN queued => operators'[ns] = operators[ns]
                          /\ IsInjective(operators[ns]) /\ (ns \in DOMAIN queued =>
                                /\ IsInjective(Scanned(ns))
                                /\ Range(operators[ns]) \cap Range(Scanned(ns)) = {})
                             => IsInjective(operators'[ns])
          OBVIOUS
      <2>1. operators[ns] \in Seq(LiveIn(ns))
            BY <1>1 DEF StrongTypes
      <2>2. CASE ns \in DOMAIN queued
            <3>1. Scanned(ns) \in Seq(LiveIn(ns)) /\ operators'[ns] = operators[ns] \o Scanned(ns)
                  BY <1>4, <1>7, <2>2
            <3>2. QED BY <2>1, <2>2, <3>1, ConcatRange
      <2>3. CASE ns \notin DOMAIN queued
            BY <1>7, <2>1, <2>3
      <2>4. QED BY <2>2, <2>3
<1>9. listing' = listing \cup moved
      BY DEF Resume
<1>10. /\ moved \subseteq Queued /\ Queued' \subseteq Queued
       /\ AtWork' = AtWork \cup moved
       /\ Syncing' = Syncing /\ Reporting' = Reporting
       <2>1. moved \subseteq Queued
             BY <1>4 DEF Queued
       <2>2. Queued' \subseteq Queued
             BY <1>4, <1>6 DEF Queued
       <2>3. AtWork' = AtWork \cup moved
             <3>1. AtWork' \subseteq AtWork \cup moved BY <1>8 DEF AtWork
             <3>2. AtWork \subseteq AtWork' BY <1>8 DEF AtWork
             <3>3. moved \subseteq AtWork' BY <1>4, <1>8 DEF AtWork
             <3>4. QED BY <3>1, <3>2, <3>3
       <2>4. QED BY <1>2, <2>1, <2>2, <2>3 DEF Syncing, Reporting
<1>11. moved \subseteq Live
       BY <1>4, LiveSequence
<1>12. StrongTypes'
       <2>1. LimiterTypeOK'
             <3>1. RequestTokens([ns \in DOMAIN queued |-> Len(queued[ns])])
                   BY Zenon DEF Resume
             <3>2. bucket' \in [Namespaces -> Nat]
                   BY <1>1, <1>4, <3>1 DEF RequestTokens, LimiterTypeOK
             <3>3. elapsed' \in [Namespaces -> BOOLEAN]
                   BY <3>1 DEF RequestTokens
             <3>4. QED BY <3>2, <3>3 DEF LimiterTypeOK
       <2>2. resumeTimers' \in Nat
             BY <1>1 DEF Resume, ResumeLater, StrongTypes
       <2>3. \A ns \in DOMAIN queued' : queued'[ns] \in Seq(LiveIn(ns))
             BY <1>4, <1>6
       <2>4. operators' \in [Namespaces -> Seq(Live)]
             <3>1. \A ns \in Namespaces : operators'[ns] \in Seq(Live)
                   BY <1>8, LiveSequence
             <3>2. DOMAIN operators' = Namespaces /\ operators' = [ns \in Namespaces |-> operators'[ns]]
                   BY DEF Resume
             <3>3. QED BY <3>1, <3>2
       <2>5. QED BY <1>1, <1>2, <1>3, <1>6, <1>8, <1>9, <1>11, <2>1, <2>2, <2>3, <2>4
                 DEF StrongTypes, RootsOK
<1>13. QueueIsResumed'
       <2>1. DOMAIN queued' # {} => resumeTimers' > 0
             BY <1>1, <1>6 DEF Resume, ResumeLater, StrongTypes
       <2>2. QED BY <2>1 DEF QueueIsResumed
<1>14. Registered'
       BY <1>2, <1>3, <1>9, <1>10 DEF IInv, Registered, Answered
<1>15. Idle'
       BY <1>1, <1>2 DEF Idle
<1>16. ASSUME OnePlace PROVE OnePlace'
       <2>1. Queued' \cap moved = {}
             <3>1. ASSUME NEW n \in DOMAIN queued', NEW k \in DOMAIN queued, NEW x,
                          x \in Range(queued'[n]), x \in Range(Scanned(k))
                   PROVE  FALSE
                   <4>1. n \in DOMAIN queued /\ x \in Range(queued[n]) /\ x \in Range(queued[k])
                         BY <1>4, <1>6, <3>1
                   <4>2. x \in LiveIn(n) /\ x \in LiveIn(k)
                         BY <1>4, <4>1 DEF Range
                   <4>3. n = k
                         BY <4>2 DEF LiveIn
                   <4>4. QED BY <1>4, <1>6, <1>16, <3>1, <4>3 DEF OnePlace
             <3>2. QED BY <3>1 DEF Queued
       <2>2. moved \cap (AtWork \cup Answered \cup Syncing) = {}
             BY <1>10, <1>16 DEF OnePlace
       <2>3. \A ns \in DOMAIN queued' : IsInjective(queued'[ns])
             BY <1>4, <1>6, <1>16 DEF OnePlace
       <2>4. \A ns \in Namespaces : IsInjective(operators'[ns])
             <3>1. ASSUME NEW ns \in DOMAIN queued
                   PROVE  IsInjective(Scanned(ns)) /\ Range(operators[ns]) \cap Range(Scanned(ns)) = {}
                   <4>1. IsInjective(Scanned(ns)) BY <1>4, <1>16 DEF OnePlace
                   <4>2. Range(operators[ns]) \subseteq AtWork /\ Range(Scanned(ns)) \subseteq moved
                         BY <1>4 DEF AtWork
                   <4>3. QED BY <2>2, <4>1, <4>2
             <3>2. QED BY <1>8, <1>16, <3>1 DEF OnePlace
       <2> HIDE DEF moved
       <2>5. QED BY <1>2, <1>3, <1>9, <1>10, <1>16, <2>1, <2>2, <2>3, <2>4 DEF OnePlace
<1>17. Books'
       <2> HIDE DEF moved
       <2>1. Present' \subseteq Present BY <1>3, <1>10 DEF Present
       <2>2. QED BY <1>16, <2>1 DEF IInv, Books, Rooted, Later
<1>18. OnTheWay'
       BY <1>2, <1>10 DEF IInv, OnTheWay
<1>19. QED BY <1>12, <1>13, <1>14, <1>15, <1>17, <1>18 DEF IInv

\* A discovery begins when nothing is left of an earlier one.
LEMMA StartDiscoveryKeeps ==
    ASSUME IInv, NEW once \in BOOLEAN, StartDiscovery(once) PROVE IInv'
<1>1. /\ StrongTypes /\ inbox \in Seq(Messages) /\ inbox # <<>>
      /\ Head(inbox).type = "Discover" /\ discState = "idle"
      BY Kinds DEF IInv, StrongTypes, StartDiscovery, Receives
<1>2. /\ DOMAIN queued = {} /\ listing = {} /\ DOMAIN syncing = {}
      /\ CompletedIn(inbox) = {} /\ Reporting = {}
      BY <1>1 DEF IInv, Idle, Registered
<1>3. UNCHANGED <<listing, resumeTimers, syncing, recent, operators, executors, hung, inventory, synced,
                  failures, bucket, elapsed>>
      BY DEF StartDiscovery, limiterVars
<1>4. discState' = "discovering" /\ discoverTimers' \in Nat /\ isScheduled' \in BOOLEAN
      BY <1>1, GotoTypes DEF StartDiscovery, StrongTypes
<1>5. \A ns : roots' = Roots(ns) => RootsOK'
      BY DEF Roots, RootsOK, Supported
<1>6. DOMAIN roots' \subseteq Types /\ RootsOK'
      <2>1. \/ roots' = roots
            \/ \E last \in Scannable : roots' = Roots(Targets[last])
            BY Zenon DEF StartDiscovery
      <2>2. \A ns : DOMAIN Roots(ns) \subseteq Types
            BY DEF Roots, Supported
      <2>3. QED BY <1>1, <1>5, <2>1, <2>2 DEF StrongTypes, RootsOK
<1> DEFINE busy == {ns \in Namespaces : RootOperations(ns) # {}}
<1>7. PICK order \in [busy -> UNION {SetToSeqs(RootOperations(ns)) : ns \in busy}] :
         /\ \A ns \in busy : order[ns] \in SetToSeqs(RootOperations(ns))
         /\ queued' = [ns \in busy \cup DOMAIN queued |->
                         (IF ns \in DOMAIN queued THEN queued[ns] ELSE <<>>) \o
                         (IF ns \in busy THEN order[ns] ELSE <<>>)]
      BY Zenon DEF StartDiscovery
<1>8. \A ns \in busy : /\ order[ns] \in Seq(RootOperations(ns)) /\ IsInjective(order[ns])
                       /\ Range(order[ns]) \subseteq RootOperations(ns)
      BY <1>7, FiniteOperations, Ordered
<1>9. DOMAIN queued' = busy /\ \A ns \in busy : queued'[ns] = order[ns]
      <2>1. \A ns \in busy : <<>> \o order[ns] = order[ns]
            BY <1>8
      <2>2. QED BY <1>2, <1>7, <2>1
<1>10. ASSUME NEW ns, NEW op \in RootOperations(ns)
       PROVE  /\ op \in LiveIn(ns) /\ op.params = None /\ Descriptors[op.type].parents = {}
              /\ Scannable # {}
       <2>1. PICK type \in DOMAIN Roots(ns), target \in {t \in Scannable : Targets[t] = ns} :
                op = Operation(type, target, None)
             BY DEF RootOperations
       <2>2. type \in Types /\ Descriptors[type].parents = {}
             BY DEF Roots, Supported
       <2>3. op = [type |-> type, target |-> target, params |-> None]
             BY <2>1 DEF Operation
       <2>4. QED BY <2>1, <2>2, <2>3 DEF LiveIn, Live
<1>11. \A ns \in busy : order[ns] \in Seq(LiveIn(ns))
       <2>1. \A ns \in busy : RootOperations(ns) \subseteq LiveIn(ns)
             BY <1>10
       <2>2. QED BY <1>8, <2>1
<1> DEFINE z == [i \in 1..Cardinality(Scannable) |-> ResumeScanning]
<1>12. z \in Seq({ResumeScanning}) /\ (Scannable # {} => Len(z) > 0)
       BY FiniteOperations, Resumes
<1>13. inbox' = Tail(inbox) \o z
       BY DEF StartDiscovery
<1> HIDE DEF z
<1>14. Took(inbox, inbox', Head(inbox)) /\ (Len(z) > 0 => ResumesIn(inbox'))
       BY <1>1, <1>12, <1>13, HeadTaken
<1>15. /\ inbox' \in Seq(Messages) /\ Answered' \subseteq Answered
       /\ Answered \subseteq Answered'
       /\ CompletedIn(inbox') = {} /\ CompletesOnce(inbox')
       /\ AnswersOnce(inbox) => AnswersOnce(inbox')
       BY <1>1, <1>2, <1>14 DEF Took, Answered, IInv, Registered
<1>16. Scannable # {} => ResumesIn(inbox')
       BY <1>12, <1>14
<1>17. /\ \A op \in Queued' : op.params = None /\ Descriptors[op.type].parents = {}
       /\ Queued' # {} => Scannable # {}
       <2>1. \A op \in Queued' : \E ns \in busy : op \in Range(order[ns])
             BY <1>9 DEF Queued
       <2>2. \A op \in Queued' : \E ns \in busy : op \in RootOperations(ns)
             BY <1>8, <2>1
       <2>3. QED BY <1>10, <2>2
<1>18. AtWork' = AtWork /\ Syncing' = {} /\ Syncing = {} /\ Reporting' = {}
       BY <1>2, <1>3 DEF AtWork, Syncing, Reporting, Range
<1>19. StrongTypes'
       <2>1. DOMAIN queued' \subseteq Namespaces /\ \A ns \in DOMAIN queued' : queued'[ns] \in Seq(LiveIn(ns))
             BY <1>9, <1>11
       <2>2. QED BY <1>1, <1>3, <1>4, <1>6, <1>15, <2>1 DEF StrongTypes, LimiterTypeOK
<1>20. QueueIsResumed'
       <2>1. DOMAIN queued' # {} => Scannable # {}
             BY <1>9, <1>10
       <2>2. QED BY <1>16, <2>1 DEF QueueIsResumed, Pending, ResumesIn
<1>21. Registered'
       BY <1>2, <1>3, <1>15, <1>18 DEF IInv, Registered
<1>22. Idle'
       BY <1>4 DEF Idle
<1>23. ASSUME OnePlace PROVE OnePlace' /\ Rooted' /\ Later'
       <2>1. AtWork = {} /\ Answered = {}
             BY <1>2, <1>23 DEF OnePlace
       <2>2. \A ns \in DOMAIN queued' : IsInjective(queued'[ns])
             BY <1>8, <1>9
       <2>3. OnePlace'
             BY <1>3, <1>15, <1>18, <1>23, <2>1, <2>2 DEF OnePlace
       <2>4. Present' = Queued'
             BY <1>15, <1>18, <2>1 DEF Present
       <2>5. QED BY <1>17, <2>3, <2>4 DEF Rooted, Later, NestedIn
<1>24. OnTheWay'
       BY <1>2, <1>3, <1>18 DEF IInv, OnTheWay
<1>25. QED BY <1>19, <1>20, <1>21, <1>22, <1>23, <1>24 DEF IInv, Books

-----------------------------------------------------------------------------
\* What the end of the sync of op queues: nested operations, of which no two
\* are the same if list operations tell the parents apart.
LEMMA NestedOperations ==
    ASSUME StrongTypes, NEW op \in Live, NEW n \in Nested(op)
    PROVE  /\ NestedOperation(n, op) \in LiveIn(Targets[op.target])
           /\ Targets[op.target] \in Namespaces
           /\ op.type \in DOMAIN roots /\ Descriptors[op.type].parents = {}
           /\ NestedOperation(n, op).target = op.target
           /\ op.type \in Descriptors[NestedOperation(n, op).type].parents
           /\ \E r \in Cloud : n.parent = r.id /\ r.type = op.type
           /\ NestedOperation(n, op).type = n.type
           /\ ParentsTold => NestedOperation(n, op).params = n.parent
           /\ n = [parent |-> n.parent, type |-> n.type]
<1>1. op.type \in DOMAIN roots
      BY DEF Nested
<1>2. PICK r \in Parents(op), t \in roots[op.type] : n = [parent |-> r.id, type |-> t]
      BY <1>1 DEF Nested
<1>3. /\ r \in Cloud /\ r.type = op.type /\ t \in Types /\ op.type \in Descriptors[t].parents
      /\ Descriptors[op.type].parents = {} /\ r.id \in IDs
      BY <1>1, <1>2 DEF Parents, StrongTypes, RootsOK, IDs
<1>4. n.parent = r.id /\ n.type = t
      BY <1>2
<1>5. op.target \in Scannable /\ Targets[op.target] \in Namespaces
      BY DEF Live, Scannable, HasPlugin
<1>6. PICK p \in IDs \cup {None} :
         /\ NestedOperation(n, op) = [type |-> t, target |-> op.target, params |-> p]
         /\ Descriptors[t].mapped => p = r.id
      BY <1>3, <1>4 DEF NestedOperation, Operation
<1>7. NestedOperation(n, op) \in LiveIn(Targets[op.target])
      BY <1>3, <1>5, <1>6 DEF LiveIn, Live
<1>8. ParentsTold => NestedOperation(n, op).params = n.parent
      BY <1>3, <1>4, <1>6 DEF ParentsTold
<1>9. QED BY <1>1, <1>2, <1>3, <1>4, <1>5, <1>6, <1>7, <1>8

\* The end of a sync queues what is nested in the operation that led to it.
LEMMA SyncCompletedKeeps ==
    ASSUME IInv, NEW c \in CommandIDs, NEW ok \in BOOLEAN, SyncCompleted(c, ok) PROVE IInv'
<1> DEFINE op == syncing[c]
           ns == Targets[op.target]
           rest == [x \in DOMAIN syncing \ {c} |-> syncing[x]]
           nested == IF ~ok /\ ~HasOutstandingWork(queued, listing, rest) THEN {} ELSE Nested(op)
           z == [i \in 1..Cardinality(nested) |-> ResumeScanning]
<1>1. /\ StrongTypes /\ inbox \in Seq(Messages) /\ inbox # <<>>
      /\ Head(inbox) = ChangesetCompleted(c, ok)
      /\ Head(inbox).type = "ChangesetCompleted" /\ Head(inbox).id = c
      /\ c \in DOMAIN syncing /\ op \in Live
      <2>1. StrongTypes /\ inbox # <<>> /\ Head(inbox) = ChangesetCompleted(c, ok)
            /\ c \in DOMAIN syncing
            BY DEF IInv, SyncCompleted, Receives
      <2>2. inbox \in Seq(Messages) /\ op \in Live
            BY <2>1 DEF StrongTypes
      <2>3. QED BY <2>1, <2>2, Kinds
<1>2. UNCHANGED <<isScheduled, roots, listing, resumeTimers, recent, operators, executors,
                  hung, inventory, synced, failures, bucket, elapsed>>
      BY DEF SyncCompleted, limiterVars
<1>3. PICK order \in SetToSeqs(nested) :
         queued' = IF nested = {} THEN queued
                   ELSE [x \in DOMAIN queued \cup {ns} |->
                           IF x # ns THEN queued[x]
                           ELSE (IF ns \in DOMAIN queued THEN queued[ns] ELSE <<>>) \o
                                [i \in DOMAIN order |-> NestedOperation(order[i], op)]]
      BY Zenon DEF SyncCompleted
<1>4. /\ syncing' = rest /\ inbox' = Tail(inbox) \o z
      /\ Goto(StateAfter(queued', listing, rest))
      BY Zenon DEF SyncCompleted
<1>5. IsFiniteSet(nested) /\ nested \subseteq Nested(op)
      BY <1>1, FiniteNested, FS_EmptySet DEF StrongTypes
<1> HIDE DEF op, nested
<1>6. Took(inbox, inbox', Head(inbox)) /\ (nested # {} => ResumesIn(inbox'))
      <2>1. z \in Seq({ResumeScanning}) /\ (nested # {} => Len(z) > 0)
            BY <1>5, Resumes
      <2> HIDE DEF z
      <2>2. QED BY <1>1, <1>4, <2>1, HeadTaken
<1> HIDE DEF z
<1>7. /\ order \in Seq(nested) /\ IsInjective(order) /\ Range(order) \subseteq nested
      BY <1>3, <1>5, Ordered
<1> DEFINE added == [i \in DOMAIN order |-> NestedOperation(order[i], op)]
           before == IF ns \in DOMAIN queued THEN queued[ns] ELSE <<>>
<1>8. \A i \in DOMAIN order : order[i] \in Nested(op)
      BY <1>5, <1>7 DEF Range
<1>9. added \in Seq(LiveIn(ns)) /\ DOMAIN added = DOMAIN order
      <2>1. \A i \in DOMAIN order : NestedOperation(order[i], op) \in LiveIn(ns)
            BY <1>1, <1>8, NestedOperations
      <2>2. QED BY <1>7, <2>1
<1>10. \A x \in Range(added) : \E n \in Nested(op) : x = NestedOperation(n, op)
       BY <1>8 DEF Range
<1>11. before \in Seq(LiveIn(ns))
       BY <1>1, EmptySequence DEF StrongTypes
<1> HIDE DEF added, before
<1>12. \/ nested = {} /\ queued' = queued
       \/ /\ nested # {} /\ DOMAIN queued' = DOMAIN queued \cup {ns}
          /\ \A x \in DOMAIN queued : x # ns => queued'[x] = queued[x]
          /\ queued'[ns] = before \o added
       BY <1>3 DEF added, before
<1>13. \A x \in DOMAIN queued' : /\ x \in Namespaces
                                 /\ queued'[x] \in Seq(LiveIn(x))
                                 /\ Range(queued'[x]) \subseteq Queued \cup Range(added)
       <2>1. CASE nested = {} /\ queued' = queued
             BY <1>1, <2>1 DEF StrongTypes, Queued
       <2>2. CASE /\ nested # {} /\ DOMAIN queued' = DOMAIN queued \cup {ns}
                  /\ \A x \in DOMAIN queued : x # ns => queued'[x] = queued[x]
                  /\ queued'[ns] = before \o added
             <3>1. ns \in Namespaces
                   BY <1>1, <1>5, <2>2, NestedOperations
             <3>2. queued'[ns] \in Seq(LiveIn(ns)) /\ Range(queued'[ns]) = Range(before) \cup Range(added)
                   BY <1>9, <1>11, <2>2, ConcatRange
             <3>3. Range(before) \subseteq Queued
                   BY EmptySequence DEF before, Queued
             <3>4. \A x \in DOMAIN queued : Range(queued[x]) \subseteq Queued
                   BY DEF Queued
             <3>5. QED BY <1>1, <2>2, <3>1, <3>2, <3>3, <3>4 DEF StrongTypes
       <2>3. QED BY <1>12, <2>1, <2>2
<1>14. Queued' \subseteq Queued \cup Range(added)
       BY <1>13 DEF Queued
<1>15. /\ discState' \in {"idle", "discovering"} /\ discoverTimers' \in Nat
       /\ discState' = "idle" => DOMAIN queued' = {} /\ listing = {} /\ DOMAIN rest = {}
       <2>1. discoverTimers \in Nat BY <1>1 DEF StrongTypes
       <2> HIDE DEF rest
       <2>2. QED BY <1>4, <2>1, GotoTypes, AfterWork
<1>16. /\ DOMAIN syncing' = DOMAIN syncing \ {c}
       /\ \A x \in DOMAIN syncing' : syncing'[x] = syncing[x]
       /\ Syncing' \subseteq Syncing /\ op \in Syncing
       /\ IsInjective(syncing) => IsInjective(syncing') /\ op \notin Syncing'
       <2>1. DOMAIN syncing' = DOMAIN syncing \ {c} /\ \A x \in DOMAIN syncing' : syncing'[x] = syncing[x]
             BY <1>4
       <2>2. QED BY <1>1, <2>1 DEF Syncing, Range, IsInjective, op
<1>17. /\ inbox' \in Seq(Messages) /\ Answered' = Answered
       /\ CompletedIn(inbox') = CompletedIn(inbox) \ {c} /\ c \in CompletedIn(inbox)
       /\ AnswersOnce(inbox) => AnswersOnce(inbox') /\ CompletesOnce(inbox')
       /\ ResumesIn(inbox) => ResumesIn(inbox')
       /\ CompletesOnce(inbox')
       <2>1. CompletesOnce(inbox)
             BY DEF IInv, Registered
       <2>2. c \in CompletedIn(inbox)
             <3>1. 1 \in DOMAIN inbox /\ inbox[1] = Head(inbox) BY <1>1
             <3>2. QED BY <1>1, <3>1 DEF CompletedIn
       <2>3. QED BY <1>1, <1>6, <2>1, <2>2 DEF Took, Answered
<1>18. AtWork' = AtWork /\ Reporting' = Reporting /\ c \notin Reporting
       BY <1>2, <1>17 DEF AtWork, Reporting, IInv, Registered
<1>19. StrongTypes'
       <2>1. /\ DOMAIN syncing' \subseteq CommandIDs \cup {None}
             /\ \A x \in DOMAIN syncing' : syncing'[x] \in Live
             BY <1>1, <1>16 DEF StrongTypes
       <2>2. DOMAIN queued' \subseteq Namespaces /\ \A x \in DOMAIN queued' : queued'[x] \in Seq(LiveIn(x))
             BY <1>13
       <2>3. QED BY <1>1, <1>2, <1>15, <1>17, <2>1, <2>2 DEF StrongTypes, RootsOK, LimiterTypeOK
<1>20. QueueIsResumed'
       <2>1. CASE nested # {}
             BY <1>6, <2>1 DEF QueueIsResumed, Pending, ResumesIn
       <2>2. CASE nested = {}
             BY <1>2, <1>12, <1>17, <2>2 DEF IInv, QueueIsResumed, Pending, ResumesIn
       <2>3. QED BY <2>1, <2>2
<1>21. Registered'
       BY <1>2, <1>16, <1>17, <1>18 DEF IInv, Registered, Answered
<1>22. Idle'
       BY <1>2, <1>4, <1>15 DEF Idle
<1>23. ASSUME ParentsTold, OnePlace, Rooted, Later PROVE OnePlace' /\ Rooted' /\ Later'
       <2>1. op \in Present /\ (Nested(op) # {} => op.params = None)
             <3>1. op \in Present BY <1>16 DEF Present
             <3>2. QED BY <1>1, <1>23, <3>1, NestedOperations DEF Rooted
       <2>2. ASSUME NEW x \in Range(added)
             PROVE  /\ NestedIn(x, op) /\ x \notin Present
                    /\ Descriptors[x.type].parents # {}
             <3>1. PICK n \in Nested(op) : x = NestedOperation(n, op)
                   BY <1>10
             <3>2. NestedIn(x, op) /\ Descriptors[x.type].parents # {}
                   BY <1>1, <1>23, <2>1, <3>1, NestedOperations DEF NestedIn
             <3>3. QED BY <1>23, <2>1, <3>2 DEF Later
       <2>3. IsInjective(added)
             <3>1. ASSUME NEW i \in DOMAIN order, NEW j \in DOMAIN order,
                          NestedOperation(order[i], op) = NestedOperation(order[j], op)
                   PROVE  i = j
                   <4>1. order[i] = order[j]
                         <5>1. /\ order[i].type = order[j].type /\ order[i].parent = order[j].parent
                               /\ order[i] = [parent |-> order[i].parent, type |-> order[i].type]
                               /\ order[j] = [parent |-> order[j].parent, type |-> order[j].type]
                               BY <1>1, <1>8, <1>23, <3>1, NestedOperations
                         <5>2. QED BY <5>1
                   <4>2. QED BY <1>7, <4>1 DEF IsInjective
             <3>2. QED BY <1>9, <3>1 DEF IsInjective, added
       <2>4. \A x \in DOMAIN queued' : IsInjective(queued'[x])
             <3>1. CASE nested = {} /\ queued' = queued
                   BY <1>23, <3>1 DEF OnePlace
             <3>2. CASE /\ nested # {} /\ DOMAIN queued' = DOMAIN queued \cup {ns}
                        /\ \A x \in DOMAIN queued : x # ns => queued'[x] = queued[x]
                        /\ queued'[ns] = before \o added
                   <4>1. IsInjective(before) /\ Range(before) \subseteq Queued
                         BY <1>23, EmptySequence DEF before, Queued, OnePlace
                   <4>2. Range(before) \cap Range(added) = {}
                         BY <2>2, <4>1 DEF Present
                   <4>3. IsInjective(queued'[ns])
                         BY <1>9, <1>11, <2>3, <3>2, <4>1, <4>2, ConcatRange
                   <4>4. QED BY <1>23, <3>2, <4>3 DEF OnePlace
             <3>3. QED BY <1>12, <3>1, <3>2
       <2>5. op \notin Queued \cup AtWork \cup Answered \cup Syncing'
             BY <1>16, <1>23 DEF OnePlace
       <2>6. Present' \subseteq (Present \ {op}) \cup Range(added)
             <3>1. op \notin Range(added) BY <2>1, <2>2
             <3>2. QED BY <1>14, <1>16, <1>17, <1>18, <2>5 DEF Present
       <2>7. OnePlace'
             <3>1. Queued' \cap (AtWork \cup Answered \cup Syncing) = {}
                   BY <1>14, <1>23, <2>2 DEF OnePlace, Present
             <3>2. QED BY <1>2, <1>16, <1>17, <1>18, <1>23, <2>4, <3>1 DEF OnePlace
       <2>8. Rooted'
             BY <1>23, <2>2, <2>6 DEF Rooted
       <2>9. ASSUME NEW n \in Present', NEW p \in Present', NestedIn(n, p) PROVE FALSE
             <3>1. p \notin Range(added)
                   BY <2>2, <2>9 DEF NestedIn
             <3>2. p \in Present /\ p # op
                   BY <2>6, <3>1
             <3>3. n \in Range(added)
                   BY <1>23, <2>6, <2>9, <3>2 DEF Later
             <3>4. p.target = op.target /\ p.params = op.params /\ p.type = op.type
                   BY <1>23, <2>2, <2>9, <3>3 DEF NestedIn, ParentsTold
             <3>5. p \in Live
                   <4>1. Queued \subseteq Live
                         BY <1>1, LiveSequence DEF StrongTypes, Queued
                   <4>2. AtWork \subseteq Live
                         BY <1>1, LiveSequence DEF StrongTypes, AtWork
                   <4>3. Answered \subseteq Live /\ Syncing \subseteq Live
                         BY <1>1 DEF StrongTypes, Answered, AnsweredIn, Syncing, Range
                   <4>4. QED BY <3>2, <4>1, <4>2, <4>3 DEF Present
             <3>6. p = op
                   BY <1>1, <3>4, <3>5 DEF Live
             <3>7. QED BY <3>2, <3>6
       <2>10. QED BY <2>7, <2>8, <2>9 DEF Later
<1>24. OnTheWay'
       BY <1>2, <1>18 DEF IInv, OnTheWay
<1>25. QED BY <1>19, <1>20, <1>21, <1>22, <1>23, <1>24 DEF IInv, Books

-----------------------------------------------------------------------------
\* IInv is inductive.
LEMMA NextKeeps == IInv /\ [Next]_vars => IInv'
<1> SUFFICES ASSUME IInv, [Next]_vars PROVE IInv' OBVIOUS
<1>1. CASE Handle
      <2>1. ASSUME NEW once \in BOOLEAN, DiscoverAgain(once) \/ StartDiscovery(once) PROVE IInv'
            BY <2>1, DiscoverAgainKeeps, StartDiscoveryKeeps
      <2>2. ASSUME Resume PROVE IInv'
            BY <2>2, ResumeKeeps
      <2>3. ASSUME ResumeFails \/ Unhandled PROVE IInv'
            BY <2>3, RestartsKeep
      <2>4. ASSUME \/ NothingNew(Head(inbox)) \/ SyncNew(Head(inbox)) \/ SyncNewFails(Head(inbox))
            PROVE  IInv'
            BY <2>4, NothingNewKeeps, SyncNewKeeps, SyncNewFailsKeeps
      <2>5. ASSUME NEW c \in CommandIDs, NEW ok \in BOOLEAN, SyncCompleted(c, ok) PROVE IInv'
            BY <2>5, SyncCompletedKeeps
      <2>6. QED BY <1>1, <2>1, <2>2, <2>3, <2>4, <2>5, Zenon DEF Handle
<1>2. ASSUME NEW ns \in Namespaces, NEW i \in DOMAIN operators[ns], OperatorLists(ns, i) PROVE IInv'
      BY <1>2, OperatorListsKeeps
<1>3. ASSUME NEW c \in CommandIDs, NEW ok \in BOOLEAN, ExecutorFinishes(c, ok) PROVE IInv'
      BY <1>3, ExecutorFinishesKeeps
<1>7. ASSUME NEW c \in CommandIDs, ReadHangs(c) PROVE IInv'
      BY <1>7, ReadHangsKeeps
<1>4. ASSUME ResumeTimerFires \/ DiscoverTimerFires \/ ForceDiscovery \/ Second PROVE IInv'
      BY <1>4, TimersKeep
<1>5. ASSUME UNCHANGED vars PROVE IInv'
      <2>1. Aside
            BY <1>5 DEF Aside, vars, discVars, limiterVars, IInv, StrongTypes, LimiterTypeOK
      <2>2. QED BY <2>1, AsideKeeps
<1>8. QED BY <1>1, <1>2, <1>3, <1>4, <1>5, <1>7, Zenon DEF Next

\* The invariant holds throughout.
LEMMA InvariantHolds == Spec => []IInv
<1>1. QED BY InitIInv, NextKeeps, PTL DEF Spec

\* IInv says what the discovery's books must say.
LEMMA BooksAreRight == IInv => WorkIsAccountedFor
<1> SUFFICES ASSUME IInv PROVE WorkIsAccountedFor OBVIOUS
<1>1. StrongTypes BY DEF IInv
<1>2. Live \subseteq Operations
      BY DEF Live, Operations, Scannable
<1>3. TypeOK
      <2>1. ASSUME NEW ns \in DOMAIN queued PROVE queued[ns] \in Seq(Operations)
            <3>1. queued[ns] \in Seq(Live) BY <1>1, LiveSequence DEF StrongTypes
            <3>2. QED BY <1>2, <3>1
      <2>2. operators \in [Namespaces -> Seq(Operations)]
            <3>1. Seq(Live) \subseteq Seq(Operations) BY <1>2
            <3>2. QED BY <1>1, <3>1 DEF StrongTypes
      <2>3. QED BY <1>1, <1>2, <2>1, <2>2 DEF StrongTypes, TypeOK
<1>4. WorkIsReal
      <2>1. ASSUME NEW op \in listing
            PROVE  \/ \E ns \in Namespaces : op \in Range(operators[ns])
                   \/ \E i \in DOMAIN inbox : inbox[i].type = "Listing" /\ inbox[i].op = op
            BY DEF IInv, Registered, AtWork, Answered, AnsweredIn
      <2>2. ASSUME NEW c \in DOMAIN syncing
            PROVE  \/ c \in DOMAIN executors
                   \/ \E i \in DOMAIN inbox : inbox[i].type = "ChangesetCompleted" /\ inbox[i].id = c
                   \/ c = None /\ failures > 0
            BY DEF IInv, Registered, Reporting, CompletedIn
      <2>3. QED BY <2>1, <2>2 DEF WorkIsReal
<1>5. IdleMeansDone
      <2>1. ASSUME discState = "idle", ParentsTold PROVE operators = NoOperators
            <3>1. AtWork = {}
                  BY <2>1 DEF IInv, Idle, Books, OnePlace
            <3>2. ASSUME NEW ns \in Namespaces PROVE operators[ns] = <<>>
                  <4>1. operators[ns] \in Seq(Live) BY <1>1 DEF StrongTypes
                  <4>2. Range(operators[ns]) = {} BY <3>1 DEF AtWork
                  <4>3. DOMAIN operators[ns] = {} BY <4>2 DEF Range
                  <4>4. 1 \notin DOMAIN operators[ns] /\ Len(operators[ns]) \in Nat
                        BY <4>1, <4>3
                  <4>5. Len(operators[ns]) = 0
                        BY <4>1, <4>4
                  <4>6. QED BY <4>1, <4>5
            <3>3. operators = [ns \in Namespaces |-> operators[ns]]
                  BY <1>1 DEF StrongTypes
            <3>4. QED BY <3>2, <3>3 DEF NoOperators
      <2>2. QED BY <2>1 DEF IInv, Idle, IdleMeansDone
<1>6. QED BY <1>3, <1>4, <1>5 DEF IInv, WorkIsAccountedFor

\* For every configuration and cloud, any failing calls and any number of
\* discoveries: what is queued will be resumed, what is registered is worked
\* on, and a discovery ends only when its work is done (HasOutstandingWork,
\* resumeScanning, processListing, syncCompleted).
THEOREM DiscoveryBooksAreRight == Spec => []WorkIsAccountedFor
<1>1. QED BY InvariantHolds, BooksAreRight, PTL

\* However many targets list a resource, and however listings, syncs and
\* forced discoveries interleave, it is synchronized once as long as no call
\* fails (recentlyDiscoveredResourceIDs, resourceExists).
THEOREM ResourcesSynchronizedOnce == Spec => []SynchronizedOnce
<1>1. IInv => SynchronizedOnce
      BY DEF IInv, OnTheWay, SynchronizedOnce
<1>2. QED BY <1>1, InvariantHolds, PTL

=============================================================================
