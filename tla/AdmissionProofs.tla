--------------------------- MODULE AdmissionProofs ---------------------------
(***************************************************************************)
(* Theorems about CommandAdmission, for any requests and stacks, any       *)
(* number of crashes and any calls that fail.                              *)
(*                                                                         *)
(* What keeps two executors from one stack is not the set of executors but *)
(* the set of commands that are, or may come to be, executed: those with   *)
(* an executor, those a restart runs again, and the request that has       *)
(* passed its check.  IInv follows that set.                               *)
(***************************************************************************)
EXTENDS CommandAdmission, TLAPS

\* Commands that run or that a restart runs again.
Active == executors \cup Incomplete

\* The request has been compared with the commands under way.
Past(id) == step[id] \in {"store", "cycles", "ensure", "start"}
            \/ (step[id] = "patch" /\ ~Req(id).simulate)

Checked == {"store", "cycles", "ensure", "start"}

\* No step of a request is under way while the node is down.
Closed == ~up => \A id \in IDs : step[id] = "idle"

\* What holds of a request between its steps.
InFlight ==
    \A id \in IDs : step[id] # "idle" =>
        /\ answer[id] = "none" /\ ts[id] <= clock
        /\ step[id] \in {"cycles", "ensure", "start"} => id \in DOMAIN commands
        /\ step[id] \in {"ensure", "start"} \/ Req(id).command = "apply" => ~Req(id).cyclic
        /\ step[id] = "patch" => Req(id).mode = "patch"

\* Only accepted commands have run.
RanAccepted ==
    \A id \in IDs : id \in executors \/ (id \in DOMAIN commands /\ commands[id] # "NotStarted") =>
        answer[id] = "accepted" /\ ~Req(id).cyclic

OneAtATime ==
    \A c, d \in IDs : step[c] # "idle" /\ step[d] # "idle" => c = d

\* What runs while a request is not yet checked is seen by its check.
Settled ==
    (\E id \in IDs : step[id] \in {"reconcile", "conflict"}) =>
        \A c \in executors : commands[c] = "InProgress"

\* What runs, may run again, or was let pass, is about different stacks.
Apart ==
    \A c, d \in IDs : c # d /\ (c \in Active \/ Past(c)) /\ (d \in Active \/ Past(d)) =>
        Req(c).stacks \cap Req(d).stacks = {}

PatchOf(id) == Req(id).command = "apply" /\ Req(id).mode = "patch"

PatchesOK ==
    \A id \in IDs : step[id] \in Checked /\ PatchOf(id) => Req(id).stacks \subseteq known \cup gone

Alone == setting.overlap = "none" /\ (\E id \in IDs : step[id] # "idle") => executors = {}

\* The case of NeverOverwrites.
SameStacks == setting.overlap = "none" /\ \A c, d \in IDs : Req(c).stacks = Req(d).stacks

Reconciled ==
    SameStacks =>
    \A id \in IDs : step[id] \in {"conflict", "store"} /\ Req(id).mode = "reconcile" /\ ~Req(id).force
        => \A s \in Req(id).stacks : ~ModifiedBefore(s, id)

IInv ==
    /\ TypeOK /\ Closed /\ InFlight /\ RanAccepted
    /\ setting.overlap # "requests" => OneAtATime /\ Settled /\ Apart /\ PatchesOK /\ Alone
    /\ Reconciled

-----------------------------------------------------------------------------
(***************************************************************************)
(* The steps of a request.                                                 *)
(***************************************************************************)

\* The requests are well formed.
LEMMA RequestTypes ==
    ASSUME setting \in Settings, NEW id \in IDs
    PROVE  IsRequest(Req(id))
BY AdmissionAssumption DEF IDs, Req

\* Initially no request is under way and nothing runs.
LEMMA InitIInv == Init => IInv
<1> SUFFICES ASSUME Init PROVE IInv
  OBVIOUS
<1> USE DEF Init
<1>1. DOMAIN commands = {} /\ Incomplete = {}
  BY DEF Incomplete
<1>2. TypeOK
  BY <1>1, KnownAssumption DEF TypeOK, Answers
<1>3. Closed /\ InFlight /\ RanAccepted
  BY <1>1 DEF Closed, InFlight, RanAccepted
<1>4. OneAtATime /\ Settled /\ Apart /\ PatchesOK /\ Alone
  BY <1>1 DEF OneAtATime, Settled, Apart, PatchesOK, Alone, Active, Past, Checked
<1>5. Reconciled
  BY DEF Reconciled
<1> QED
  BY <1>2, <1>3, <1>4, <1>5 DEF IInv

Steps == {"idle", "reconcile", "conflict", "patch", "simulate", "store", "cycles", "ensure", "start"}

\* Request id goes on to step t, or is answered a.
Moves(id, t, a) ==
    /\ id \in IDs /\ up /\ step[id] # "idle" /\ t \in Steps /\ a \in Answers
    /\ step' = [step EXCEPT ![id] = t]
    /\ answer' = [answer EXCEPT ![id] = a]
    /\ t # "idle" => a = "none"
    /\ UNCHANGED <<setting, ts, clock, hung, known, gone, rows, up>>

\* What a step of a request may lead to.
MayMove(id, t, a) ==
    /\ t \in {"cycles", "ensure", "start"} => id \in DOMAIN commands'
    /\ t \in {"ensure", "start"} => ~Req(id).cyclic
    /\ t = "patch" => Req(id).mode = "patch"
    /\ t # "reconcile" /\ (t = "conflict" => step[id] = "reconcile")
    /\ t \in Checked \/ (t = "patch" /\ ~Req(id).simulate) =>
          \/ Past(id)
          \/ setting.overlap # "requests" =>
                \A c \in Active : c # id => Req(c).stacks \cap Req(id).stacks = {}
    /\ t \in Checked /\ PatchOf(id) => step[id] \in Checked \/ Req(id).stacks \subseteq known
    /\ t \in {"conflict", "store"} /\ SameStacks /\ Req(id).mode = "reconcile" /\ ~Req(id).force =>
          \/ step[id] \in {"conflict", "store"}
          \/ \A s \in Req(id).stacks : ~ModifiedBefore(s, id)
    /\ commands' = commands \/ (commands' = Stored(id) /\ step[id] = "store" /\ t # "store")
    /\ executors' = executors \/ (/\ executors' = executors \cup {id} /\ step[id] = "start"
                                  /\ t = "idle" /\ a = "accepted" /\ commands' = commands)

\* A step of a request keeps the invariant.
LEMMA MovesKeep ==
    ASSUME IInv, NEW id, NEW t, NEW a, Moves(id, t, a), MayMove(id, t, a)
    PROVE  IInv'
<1> USE DEF IDs, Req
<1>1. /\ IDs' = IDs /\ (\A c : Req(c)' = Req(c)) /\ setting' = setting
      /\ \A c \in IDs : step'[c] = IF c = id THEN t ELSE step[c]
      /\ \A c \in IDs : answer'[c] = IF c = id THEN a ELSE answer[c]
      /\ ts' = ts /\ clock' = clock /\ known' = known /\ rows' = rows /\ up' = up /\ up
      /\ gone' = gone /\ hung' = hung
      /\ id \in IDs /\ step[id] # "idle" /\ (t # "idle" => a = "none")
  BY DEF Moves, IInv, TypeOK
<1>2. answer[id] = "none" /\ ts[id] <= clock /\ id \notin executors
      /\ (id \in DOMAIN commands => commands[id] = "NotStarted")
      /\ (Req(id).command = "apply" => ~Req(id).cyclic)
  BY <1>1 DEF IInv, InFlight, RanAccepted
<1>3. /\ DOMAIN commands \subseteq DOMAIN commands'
      /\ DOMAIN commands' \subseteq DOMAIN commands \cup {id}
      /\ \A c \in DOMAIN commands : commands'[c] = commands[c]
      /\ id \in DOMAIN commands' => commands'[id] = "NotStarted"
      /\ executors' \subseteq executors \cup {id} /\ executors \subseteq executors'
  <2>1. CASE commands' = commands
    BY <1>2, <2>1 DEF MayMove
  <2>2. CASE commands' = Stored(id)
    BY <1>2, <2>2 DEF MayMove, Stored
  <2> QED
    BY <2>1, <2>2 DEF MayMove
<1>4. id \in executors' => step[id] = "start" /\ t = "idle" /\ a = "accepted" /\ commands' = commands
  BY <1>2 DEF MayMove
<1>5. TypeOK'
  <2>1. step' \in [IDs -> Steps] /\ answer' \in [IDs -> Answers]
    BY DEF IInv, TypeOK, Moves, Steps
  <2>2. executors' \subseteq DOMAIN commands'
    BY <1>1, <1>3, <1>4 DEF IInv, TypeOK, InFlight
  <2>3. DOMAIN commands' \subseteq IDs
    BY <1>1, <1>3 DEF IInv, TypeOK
  <2>4. \A c \in DOMAIN commands' : commands'[c] \in {"NotStarted", "InProgress", "complete"}
    BY <1>3 DEF IInv, TypeOK
  <2> HIDE DEF IDs
  <2> QED
    BY <1>1, <1>3, <2>1, <2>2, <2>3, <2>4 DEF IInv, TypeOK, Steps
<1> HIDE DEF IDs, Req
<1>6. Closed' /\ InFlight'
  <2>1. Closed'
    BY <1>1 DEF Closed
  <2>2. InFlight'
    BY <1>1, <1>2, <1>3 DEF IInv, InFlight, MayMove
  <2> QED
    BY <2>1, <2>2
<1>7. RanAccepted'
  BY <1>1, <1>2, <1>3, <1>4 DEF IInv, RanAccepted, InFlight
<1>8. Active' \subseteq Active \cup {id} /\ (id \in Active' => step[id] = "start")
      /\ Active \subseteq IDs /\ id \notin Active
  BY <1>1, <1>2, <1>3, <1>4 DEF Active, Incomplete, IInv, TypeOK
<1>9. ASSUME setting.overlap # "requests"
      PROVE  OneAtATime' /\ Settled' /\ Apart' /\ PatchesOK' /\ Alone'
  <2>1. OneAtATime /\ Settled /\ Apart /\ PatchesOK /\ Alone
    BY <1>9 DEF IInv
  <2>2. \A c \in IDs : c # id => step[c] = "idle" /\ step'[c] = "idle"
    BY <1>1, <2>1 DEF OneAtATime
  <2>3. OneAtATime' /\ Alone'
    BY <1>1, <1>3, <1>4, <2>1, <2>2 DEF OneAtATime, Alone
  <2>4. Settled'
    BY <1>1, <1>3, <1>4, <2>1, <2>2 DEF Settled, MayMove, IInv, TypeOK
  <2>5. \A c \in IDs : Past(c)' => c = id
    BY <1>1, <2>2 DEF Past
  <2>6. id \in Active' \/ Past(id)' =>
            \A c \in Active : c # id => Req(c).stacks \cap Req(id).stacks = {}
    <3>1. Past(id) => \A c \in Active : c # id => Req(c).stacks \cap Req(id).stacks = {}
      BY <1>1, <1>8, <2>1 DEF Apart
    <3>2. id \in Active' => Past(id)
      BY <1>8 DEF Past
    <3>3. Past(id)' => t \in Checked \/ (t = "patch" /\ ~Req(id).simulate)
      BY <1>1 DEF Past, Checked
    <3> QED
      BY <1>9, <3>1, <3>2, <3>3 DEF MayMove
  <2>7. Apart'
    <3>1. SUFFICES ASSUME NEW c \in IDs, NEW d \in IDs, c # d, c \in Active' \/ Past(c)',
                          d \in Active' \/ Past(d)'
                   PROVE  Req(c).stacks \cap Req(d).stacks = {}
      BY <1>1 DEF Apart
    <3>2. (c = id \/ c \in Active) /\ (d = id \/ d \in Active)
      BY <1>8, <2>5, <3>1
    <3> QED
      BY <1>8, <2>1, <2>6, <3>1, <3>2 DEF Apart
  <2>8. PatchesOK'
    <3>1. SUFFICES ASSUME NEW c \in IDs, step'[c] \in Checked, PatchOf(c)
                   PROVE  Req(c).stacks \subseteq known \cup gone
      BY <1>1 DEF PatchesOK, PatchOf
    <3>2. c = id
      BY <2>2, <3>1 DEF Checked
    <3>3. step[id] \in Checked => Req(id).stacks \subseteq known \cup gone
      BY <1>1, <2>1, <3>1, <3>2 DEF PatchesOK
    <3> QED
      BY <1>1, <3>1, <3>2, <3>3 DEF MayMove
  <2> QED
    BY <2>3, <2>4, <2>7, <2>8
<1>10. Reconciled'
  <2>1. SUFFICES ASSUME SameStacks, NEW c \in IDs, step'[c] \in {"conflict", "store"},
                        Req(c).mode = "reconcile", ~Req(c).force, NEW s \in Req(c).stacks
                 PROVE  ~ModifiedBefore(s, c)'
    BY <1>1 DEF Reconciled, SameStacks
  <2>2. commands' = commands
    <3>1. commands' # commands => t \notin {"conflict", "store"}
      BY DEF MayMove
    <3>2. OneAtATime
      BY <2>1 DEF IInv, SameStacks
    <3>3. c = id
      BY <1>1, <2>1, <3>2 DEF OneAtATime
    <3> QED
      BY <1>1, <2>1, <3>1, <3>3
  <2>3. LastReconcile(s)' = LastReconcile(s)
    BY <1>1, <2>2 DEF LastReconcile, Reconciles, Req
  <2>4. ~ModifiedBefore(s, c)
    BY <1>1, <2>1 DEF IInv, Reconciled, MayMove
  <2> QED
    BY <1>1, <2>3, <2>4 DEF ModifiedBefore
<1> QED
  BY <1>1, <1>5, <1>6, <1>7, <1>9, <1>10 DEF IInv

\* Every step of a request keeps the invariant.
LEMMA RequestKeeps ==
    ASSUME IInv, NEW id \in IDs, Step(id), setting' = setting
    PROVE  IInv'
<1>1. IsRequest(Req(id))
  BY RequestTypes DEF IInv, TypeOK
<1>2. /\ \A t \in Steps \ {"idle"} : Proceed(id, t) /\ step[id] # "idle" /\ up
             /\ UNCHANGED <<ts, clock, hung, known, gone, rows, up>> => Moves(id, t, "none")
      /\ \A a \in Answers : Reply(id, a) /\ step[id] # "idle" /\ up
             /\ UNCHANGED <<ts, clock, hung, known, gone, rows, up>> => Moves(id, "idle", a)
  <2>1. step[id] # "idle" => answer[id] = "none"
    BY DEF IInv, InFlight
  <2>2. ASSUME answer[id] = "none", answer' = answer PROVE answer' = [answer EXCEPT ![id] = "none"]
    BY <2>2 DEF IInv, TypeOK
  <2>3. "none" \in Answers /\ "idle" \in Steps
    BY DEF Answers, Steps
  <2>4. ASSUME NEW t \in Steps \ {"idle"}, Proceed(id, t), step[id] # "idle", up,
               UNCHANGED <<ts, clock, hung, known, gone, rows, up>>
        PROVE  Moves(id, t, "none")
    BY <2>1, <2>2, <2>3, <2>4 DEF Moves, Proceed
  <2>5. ASSUME NEW a \in Answers, Reply(id, a), step[id] # "idle", up,
               UNCHANGED <<ts, clock, hung, known, gone, rows, up>>
        PROVE  Moves(id, "idle", a)
    BY <2>3, <2>5 DEF Moves, Reply
  <2> QED
    BY <2>4, <2>5
<1>3. ASSUME NEW a, UNCHANGED executors,
             commands' = commands \/ (commands' = Stored(id) /\ step[id] = "store")
      PROVE  MayMove(id, "idle", a)
  BY <1>3 DEF MayMove, Checked
<1>4. CASE CheckReconcile(id)
  <2>1. /\ step[id] = "reconcile" /\ step[id] # "idle" /\ up
        /\ UNCHANGED <<ts, clock, commands, executors, hung, known, gone, rows, up>>
    BY <1>4 DEF CheckReconcile, At, admissionVars
  <2>2. CASE Reply(id, "reconcile rejected")
    BY <1>2, <1>3, <2>1, <2>2, MovesKeep DEF Answers
  <2>3. CASE Proceed(id, AfterReconcile(Req(id))) /\ ~ \E s \in Req(id).stacks : Modified(s)
    <3> DEFINE t == AfterReconcile(Req(id))
    <3>1. /\ t \in Steps \ {"idle"}
          /\ t \in {"conflict", "patch", "simulate"} /\ (t = "patch" => Req(id).simulate)
          /\ t = "patch" => Req(id).mode = "patch"
      BY DEF AfterReconcile, AfterConflict, AfterPatch, Steps
    <3>2. ASSUME SameStacks, NEW s \in Req(id).stacks PROVE ~ModifiedBefore(s, id)
      <4>1. DOMAIN commands \subseteq IDs
        BY DEF IInv, TypeOK
      <4>2. \A r \in Reconciles : s \in Req(r).stacks
        BY <3>2, <4>1 DEF SameStacks, Reconciles
      <4>3. LastReconcile(s) = {ts[r] : r \in Reconciles}
        BY <4>2 DEF LastReconcile
      <4>4. LastReconcile(s) # {} => Reconciles # {}
        BY DEF LastReconcile
      <4> QED
        BY <2>3, <4>3, <4>4 DEF ModifiedBefore, Modified
    <3> HIDE DEF t
    <3>3. Moves(id, t, "none")
      BY <1>2, <2>1, <2>3, <3>1 DEF t
    <3>4. MayMove(id, t, "none")
      BY <2>1, <3>1, <3>2 DEF MayMove, Checked
    <3> QED
      BY <3>3, <3>4, MovesKeep
  <2> QED
    BY <1>4, <2>2, <2>3 DEF CheckReconcile
<1>5. CASE CheckConflict(id)
  <2>1. /\ step[id] = "conflict" /\ step[id] # "idle" /\ up
        /\ UNCHANGED <<ts, clock, commands, executors, hung, known, gone, rows, up>>
    BY <1>5 DEF CheckConflict, At, admissionVars
  <2>2. CASE Reply(id, "conflict")
    BY <1>2, <1>3, <2>1, <2>2, MovesKeep DEF Answers
  <2>3. CASE Proceed(id, AfterConflict(Req(id))) /\ ~Conflicts(id)
    <3> DEFINE t == AfterConflict(Req(id))
    <3>1. /\ t \in Steps \ {"idle"} /\ t \in {"patch", "simulate", "store"}
          /\ t = "patch" => Req(id).mode = "patch"
          /\ t = "store" => ~PatchOf(id)
      BY DEF AfterConflict, AfterPatch, Steps, PatchOf
    <3>2. ASSUME setting.overlap # "requests", NEW c \in Active
          PROVE  Req(c).stacks \cap Req(id).stacks = {}
      <4>1. commands[c] = "InProgress" /\ c \in DOMAIN commands
        BY <2>1, <3>2 DEF IInv, Settled, Active, Incomplete, TypeOK
      <4> QED
        BY <2>3, <4>1 DEF Conflicts
    <3> HIDE DEF t
    <3>3. Moves(id, t, "none")
      BY <1>2, <2>1, <2>3, <3>1 DEF t
    <3>4. MayMove(id, t, "none")
      BY <2>1, <3>1, <3>2 DEF MayMove, Checked
    <3> QED
      BY <3>3, <3>4, MovesKeep
  <2> QED
    BY <1>5, <2>2, <2>3 DEF CheckConflict
<1>6. CASE CheckPatch(id)
  <2>1. /\ step[id] = "patch" /\ step[id] # "idle" /\ up
        /\ UNCHANGED <<ts, clock, commands, executors, hung, known, gone, rows, up>>
    BY <1>6 DEF CheckPatch, At, admissionVars
  <2>2. CASE Reply(id, "patch rejected")
    BY <1>2, <1>3, <2>1, <2>2, MovesKeep DEF Answers
  <2>3. CASE Proceed(id, AfterPatch(Req(id))) /\ Req(id).stacks \subseteq known
    <3> DEFINE t == AfterPatch(Req(id))
    <3>1. t \in Steps \ {"idle"} /\ t \in {"simulate", "store"} /\ (t = "store" => ~Req(id).simulate)
      BY DEF AfterPatch, Steps
    <3>2. Req(id).mode = "patch"
      BY <2>1 DEF IInv, InFlight
    <3> HIDE DEF t
    <3>3. Moves(id, t, "none")
      BY <1>2, <2>1, <2>3, <3>1 DEF t
    <3>4. MayMove(id, t, "none")
      BY <2>1, <2>3, <3>1, <3>2 DEF MayMove, Checked, Past
    <3> QED
      BY <3>3, <3>4, MovesKeep
  <2> QED
    BY <1>6, <2>2, <2>3 DEF CheckPatch, AllStacksKnown
<1>7. CASE Simulate(id)
  BY <1>2, <1>3, <1>7, MovesKeep DEF Simulate, At, Answers, admissionVars
<1>8. CASE Store(id)
  <2>1. /\ step[id] = "store" /\ step[id] # "idle" /\ up
        /\ UNCHANGED <<ts, clock, executors, hung, known, gone, rows, up>>
    BY <1>8 DEF Store, At
  <2>2. CASE commands' \in {commands, Stored(id)} /\ Reply(id, "error")
    BY <1>2, <1>3, <2>1, <2>2, MovesKeep DEF Answers
  <2>3. CASE commands' = Stored(id) /\ Proceed(id, AfterStore(Req(id)))
    <3> DEFINE t == AfterStore(Req(id))
    <3>1. /\ t \in Steps \ {"idle"} /\ t \in {"cycles", "ensure"}
          /\ t = "ensure" => Req(id).command = "apply"
      BY <1>1 DEF AfterStore, Steps, IsRequest
    <3>2. Req(id).command = "apply" => ~Req(id).cyclic
      BY <2>1 DEF IInv, InFlight
    <3>3. id \in DOMAIN commands'
      BY <2>3 DEF Stored
    <3> HIDE DEF t
    <3>4. Moves(id, t, "none")
      BY <1>2, <2>1, <2>3, <3>1 DEF t
    <3>5. MayMove(id, t, "none")
      BY <2>1, <2>3, <3>1, <3>2, <3>3 DEF MayMove, Checked, Past
    <3> QED
      BY <3>4, <3>5, MovesKeep
  <2> QED
    BY <1>8, <2>2, <2>3 DEF Store
<1>9. ASSUME step[id] \in {"cycles", "ensure"}, NEW t \in {"ensure", "start"}, ~Req(id).cyclic,
             Proceed(id, t), up, UNCHANGED <<ts, clock, commands, executors, hung, known, gone, rows, up>>
      PROVE  IInv'
  <2>1. t \in Steps \ {"idle"} /\ step[id] # "idle"
    BY <1>9 DEF Steps
  <2>2. id \in DOMAIN commands
    BY <1>9 DEF IInv, InFlight
  <2>3. Moves(id, t, "none")
    BY <1>2, <1>9, <2>1
  <2>4. MayMove(id, t, "none")
    BY <1>9, <2>2 DEF MayMove, Checked, Past
  <2> QED
    BY <2>3, <2>4, MovesKeep
<1>10. CASE CheckCycles(id)
  <2>1. /\ step[id] = "cycles" /\ step[id] # "idle" /\ up
        /\ UNCHANGED <<ts, clock, commands, executors, hung, known, gone, rows, up>>
    BY <1>10 DEF CheckCycles, At, admissionVars
  <2>2. CASE Reply(id, "error")
    BY <1>2, <1>3, <2>1, <2>2, MovesKeep DEF Answers
  <2> QED
    BY <1>9, <1>10, <2>1, <2>2 DEF CheckCycles
<1>11. CASE Ensure(id)
  <2>1. /\ step[id] = "ensure" /\ step[id] # "idle" /\ up
        /\ UNCHANGED <<ts, clock, commands, executors, hung, known, gone, rows, up>>
    BY <1>11 DEF Ensure, At, admissionVars
  <2>2. CASE Reply(id, "error")
    BY <1>2, <1>3, <2>1, <2>2, MovesKeep DEF Answers
  <2>3. ~Req(id).cyclic
    BY <2>1 DEF IInv, InFlight
  <2> QED
    BY <1>9, <1>11, <2>1, <2>2, <2>3 DEF Ensure
<1>12. CASE Start(id)
  <2>1. /\ step[id] = "start" /\ step[id] # "idle" /\ up
        /\ UNCHANGED <<ts, clock, commands, hung, known, gone, rows, up>>
    BY <1>12 DEF Start, At
  <2>2. CASE Reply(id, "error") /\ UNCHANGED executors
    BY <1>2, <1>3, <2>1, <2>2, MovesKeep DEF Answers
  <2>3. CASE executors' = executors \cup {id} /\ Reply(id, "accepted")
    <3>1. Moves(id, "idle", "accepted")
      BY <1>2, <2>1, <2>3 DEF Answers
    <3>2. MayMove(id, "idle", "accepted")
      BY <2>1, <2>3 DEF MayMove, Checked
    <3> QED
      BY <3>1, <3>2, MovesKeep
  <2> QED
    BY <1>12, <2>2, <2>3 DEF Start
<1> QED
  BY <1>4, <1>5, <1>6, <1>7, <1>8, <1>10, <1>11, <1>12 DEF Step

\* A new request keeps the invariant.
LEMMA SubmitKeeps ==
    ASSUME IInv, NEW id \in IDs, Submit(id), setting' = setting
    PROVE  IInv'
<1>1. IsRequest(Req(id))
  BY RequestTypes DEF IInv, TypeOK
<1>2. /\ IDs' = IDs /\ (\A c : Req(c)' = Req(c)) /\ setting' = setting
      /\ up /\ answer[id] = "none" /\ step[id] = "idle" /\ MayOverlap
      /\ clock \in Nat /\ clock' = clock + 1 /\ ts' = [ts EXCEPT ![id] = clock + 1]
      /\ UNCHANGED <<commands, executors, hung, known, gone, rows, up>>
  BY DEF Submit, IDs, Req, IInv, TypeOK
<1>3. PICK t \in Steps, a \in Answers :
         /\ step' = [step EXCEPT ![id] = t] /\ answer' = [answer EXCEPT ![id] = a]
         /\ t \in {"idle", "reconcile", "conflict", "patch", "simulate"}
         /\ t # "idle" => a = "none" /\ (Req(id).command = "apply" => ~Req(id).cyclic)
         /\ t = "patch" => Req(id).simulate /\ Req(id).mode = "patch"
         /\ t = "conflict" /\ Req(id).mode = "reconcile" => Req(id).force
  <2>1. CASE \E a \in {"no changes", "error"} : Reply(id, a)
    BY <2>1 DEF Reply, Steps, Answers
  <2>2. CASE /\ Proceed(id, FirstStep(Req(id)))
             /\ ~(Req(id).command = "apply" /\ Req(id).cyclic)
    <3> DEFINE t == FirstStep(Req(id))
    <3>1. /\ t \in Steps /\ t \in {"reconcile", "conflict", "patch", "simulate"}
          /\ t = "patch" => Req(id).simulate /\ Req(id).mode = "patch"
          /\ t = "conflict" /\ Req(id).mode = "reconcile" => Req(id).force
      BY <1>1 DEF FirstStep, AfterReconcile, AfterConflict, AfterPatch, Steps, IsRequest
    <3>2. answer' = [answer EXCEPT ![id] = "none"] /\ "none" \in Answers
      BY <1>2, <2>2 DEF Proceed, IInv, TypeOK, Answers
    <3>3. step' = [step EXCEPT ![id] = t]
      BY <2>2 DEF Proceed
    <3> HIDE DEF t
    <3> QED
      BY <2>2, <3>1, <3>2, <3>3
  <2>3. \/ \E a \in {"no changes", "error"} : Reply(id, a)
        \/ /\ Proceed(id, FirstStep(Req(id)))
           /\ ~(Req(id).command = "apply" /\ Req(id).cyclic)
    <3>1. CASE Req(id).empty
      BY <3>1 DEF Submit
    <3>2. CASE ~Req(id).empty /\ Req(id).command = "apply" /\ Req(id).cyclic
      BY <3>2 DEF Submit
    <3>3. CASE ~Req(id).empty /\ ~(Req(id).command = "apply" /\ Req(id).cyclic)
      BY <3>3 DEF Submit
    <3> QED
      BY <3>1, <3>2, <3>3
  <2> QED
    BY <2>1, <2>2, <2>3
<1>4. /\ \A c \in IDs : step'[c] = IF c = id THEN t ELSE step[c]
      /\ \A c \in IDs : answer'[c] = IF c = id THEN a ELSE answer[c]
      /\ \A c \in IDs : ts'[c] = IF c = id THEN clock + 1 ELSE ts[c]
      /\ \A c \in IDs : ts[c] \in Nat
      /\ step' \in [IDs -> Steps] /\ answer' \in [IDs -> Answers] /\ ts' \in [IDs -> Nat]
  BY <1>2, <1>3 DEF IInv, TypeOK, Steps
<1>5. id \notin executors /\ (id \in DOMAIN commands => commands[id] = "NotStarted") /\ id \notin Active
      /\ Active' = Active
  BY <1>2 DEF IInv, RanAccepted, Active, Incomplete
<1>6. TypeOK'
  BY <1>2, <1>4 DEF IInv, TypeOK, Steps
<1>7. Closed' /\ InFlight' /\ RanAccepted'
  <2>1. Closed'
    BY <1>2 DEF Closed
  <2>2. InFlight'
    BY <1>2, <1>3, <1>4 DEF IInv, InFlight
  <2>3. RanAccepted'
    BY <1>2, <1>4, <1>5 DEF IInv, RanAccepted
  <2> QED
    BY <2>1, <2>2, <2>3
<1>8. ASSUME setting.overlap # "requests"
      PROVE  OneAtATime' /\ Settled' /\ Apart' /\ PatchesOK' /\ Alone'
  <2>1. OneAtATime /\ Settled /\ Apart /\ PatchesOK /\ Alone
    BY <1>8 DEF IInv
  <2>2. (\A c \in IDs : step[c] = "idle") /\ (\A c \in executors : commands[c] = "InProgress")
        /\ (setting.overlap = "none" => executors = {})
    BY <1>2, <1>8 DEF MayOverlap
  <2>3. OneAtATime' /\ Settled' /\ Alone'
    BY <1>2, <1>4, <2>2 DEF OneAtATime, Settled, Alone
  <2>4. \A c \in IDs : ~Past(c)' /\ step'[c] \notin Checked
    BY <1>2, <1>3, <1>4, <2>2 DEF Past, Checked
  <2>5. Apart'
    BY <1>2, <1>5, <2>1, <2>4 DEF Apart
  <2>6. PatchesOK'
    BY <1>2, <1>5, <2>1, <2>4 DEF PatchesOK, PatchOf
  <2> QED
    BY <2>3, <2>5, <2>6
<1>9. Reconciled'
  <2>1. SUFFICES ASSUME SameStacks, NEW c \in IDs, step'[c] \in {"conflict", "store"},
                        Req(c).mode = "reconcile", ~Req(c).force, NEW s \in Req(c).stacks
                 PROVE  FALSE
    BY <1>2 DEF Reconciled, SameStacks
  <2>2. c = id
    BY <1>2, <1>4, <2>1 DEF MayOverlap, SameStacks
  <2> QED
    BY <1>3, <1>4, <2>1, <2>2
<1> QED
  BY <1>2, <1>6, <1>7, <1>8, <1>9 DEF IInv

-----------------------------------------------------------------------------
(***************************************************************************)
(* Executors, syncs and crashes.                                           *)
(***************************************************************************)

\* What happens beside the requests: commands change by their executors only,
\* and a stack that is declared disappears only from under its own executor.
Beside ==
    /\ UNCHANGED <<setting, step, answer, ts, up>>
    /\ clock' \in {clock, clock + 1}
    /\ executors' \subseteq executors
    /\ DOMAIN commands' = DOMAIN commands
    /\ \A c \in DOMAIN commands :
          /\ commands'[c] \in {"NotStarted", "InProgress", "complete"}
          /\ commands'[c] # commands[c] =>
                c \in executors /\ (commands'[c] = "InProgress" \/ c \notin executors')
    /\ known' \subseteq Stacks /\ gone' \subseteq Stacks /\ hung' \subseteq executors'
    /\ \A s \in known \cup gone : \/ s \in known' \cup gone'
                               \/ \E d \in executors : s \in Req(d).stacks
    /\ executors = {} => /\ commands' = commands /\ known' \subseteq known
                         /\ \A row \in rows' : row \in rows \/ row.ts = clock + 1

\* Steps beside requests and executors keep the invariant.
LEMMA BesideKeeps == ASSUME IInv, Beside PROVE IInv'
<1>1. /\ IDs' = IDs /\ (\A c : Req(c)' = Req(c)) /\ setting' = setting
      /\ UNCHANGED <<setting, step, answer, ts, up>> /\ clock \in Nat /\ clock' \in Nat
      /\ clock <= clock' /\ DOMAIN commands \subseteq IDs /\ executors \subseteq DOMAIN commands
      /\ \A c \in IDs : ts[c] \in Nat
  BY DEF Beside, IDs, Req, IInv, TypeOK
<1>2. Active' \subseteq Active /\ Active \subseteq IDs
  BY <1>1 DEF Beside, Active, Incomplete
<1>3. TypeOK'
  BY <1>1 DEF IInv, TypeOK, Beside
<1>4. Closed' /\ InFlight' /\ RanAccepted'
  <2>1. Closed' /\ InFlight'
    BY <1>1 DEF Beside, IInv, Closed, InFlight
  <2>2. RanAccepted'
    BY <1>1 DEF Beside, IInv, RanAccepted
  <2> QED
    BY <2>1, <2>2
<1>5. ASSUME setting.overlap # "requests"
      PROVE  OneAtATime' /\ Settled' /\ Apart' /\ PatchesOK' /\ Alone'
  <2>1. OneAtATime /\ Settled /\ Apart /\ PatchesOK /\ Alone
    BY <1>5 DEF IInv
  <2>2. OneAtATime' /\ Alone'
    BY <1>1, <2>1 DEF OneAtATime, Alone, Beside
  <2>3. Settled'
    BY <1>1, <2>1 DEF Settled, Beside
  <2>4. \A c \in IDs : Past(c)' = Past(c)
    BY <1>1 DEF Past
  <2>5. Apart'
    BY <1>1, <1>2, <2>1, <2>4 DEF Apart
  <2>6. PatchesOK'
    <3>1. SUFFICES ASSUME NEW c \in IDs, step[c] \in Checked, PatchOf(c), NEW s \in Req(c).stacks
                   PROVE  s \in known' \cup gone'
      BY <1>1, <1>2 DEF PatchesOK, PatchOf
    <3>2. s \in known \cup gone
      BY <2>1, <3>1 DEF PatchesOK
    <3>3. ASSUME NEW d \in executors PROVE s \notin Req(d).stacks
      <4>0. answer[c] = "none" /\ answer[d] = "accepted" /\ d \in IDs
        BY <1>1, <3>1 DEF IInv, InFlight, RanAccepted, Checked
      <4>1. c # d /\ d \in Active /\ Past(c)
        BY <3>1, <4>0 DEF Active, Past, Checked
      <4>2. Req(c).stacks \cap Req(d).stacks = {}
        BY <2>1, <4>0, <4>1 DEF Apart
      <4> QED
        BY <3>1, <4>2
    <3> QED
      BY <3>2, <3>3 DEF Beside
  <2> QED
    BY <2>2, <2>3, <2>5, <2>6
<1>6. Reconciled'
  <2>1. SUFFICES ASSUME SameStacks, NEW c \in IDs, step[c] \in {"conflict", "store"},
                        Req(c).mode = "reconcile", ~Req(c).force, NEW s \in Req(c).stacks
                 PROVE  ~ModifiedBefore(s, c)'
    BY <1>1 DEF Reconciled, SameStacks
  <2>2. executors = {} /\ ts[c] <= clock
    BY <2>1 DEF IInv, SameStacks, Alone, InFlight
  <2>3. commands' = commands /\ known' \subseteq known /\ \A row \in rows' : row \in rows \/ row.ts = clock + 1
    BY <2>2 DEF Beside
  <2>4. LastReconcile(s)' = LastReconcile(s)
    BY <1>1, <2>3 DEF LastReconcile, Reconciles, Req
  <2>5. ~ModifiedBefore(s, c)
    BY <2>1 DEF IInv, Reconciled
  <2>6. \A row \in rows' : row.ts < ts[c] => row \in rows
    BY <1>1, <2>2, <2>3
  <2> QED
    BY <1>1, <2>3, <2>4, <2>5, <2>6 DEF ModifiedBefore
<1> QED
  BY <1>1, <1>3, <1>4, <1>5, <1>6 DEF IInv

\* Executors, syncs and reruns that fail keep the invariant.
LEMMA ExecutorsKeep ==
    ASSUME IInv, setting' = setting,
           \/ \E id \in IDs, s \in Stacks : ExecutorChanges(id, s)
           \/ \E id \in IDs : \/ ExecutorProgresses(id) \/ ReadHangs(id)
                              \/ ExecutorFinishes(id) \/ ExecutorGivesUp(id)
           \/ \E s \in Stacks : SyncFindsChange(s)
           \/ ReRunFails
    PROVE  IInv'
<1>1. /\ executors \subseteq DOMAIN commands /\ known \subseteq Stacks /\ gone \subseteq Stacks
      /\ hung \subseteq executors
      /\ \A c \in DOMAIN commands : commands[c] \in {"NotStarted", "InProgress", "complete"}
  BY DEF IInv, TypeOK
<1>2. ASSUME NEW id \in IDs, NEW s \in Stacks, ExecutorChanges(id, s) PROVE Beside
  BY <1>1, <1>2 DEF ExecutorChanges, Beside
<1>3. ASSUME NEW id \in IDs, ExecutorProgresses(id) PROVE Beside
  BY <1>1, <1>3 DEF ExecutorProgresses, Beside
<1>4. ASSUME NEW id \in IDs, ExecutorFinishes(id) PROVE Beside
  BY <1>1, <1>4 DEF ExecutorFinishes, Beside
<1>5. ASSUME NEW id \in IDs, ExecutorGivesUp(id) PROVE Beside
  BY <1>1, <1>5 DEF ExecutorGivesUp, Beside
<1>6. ASSUME NEW s \in Stacks, SyncFindsChange(s) PROVE Beside
  BY <1>1, <1>6 DEF SyncFindsChange, Beside
<1>7. CASE ReRunFails
  BY <1>1, <1>7, BesideKeeps DEF ReRunFails, Beside
<1>8. ASSUME NEW id \in IDs, ReadHangs(id) PROVE Beside
  BY <1>1, <1>8 DEF ReadHangs, Beside
<1> QED
  BY <1>2, <1>3, <1>4, <1>5, <1>6, <1>7, <1>8, BesideKeeps

\* A crash and a restart keep the invariant: no request is under way, and what
\* runs was active before.
LEMMA RestartKeeps ==
    ASSUME IInv, setting' = setting, Crash \/ ReRun
    PROVE  IInv'
<1>1. /\ IDs' = IDs /\ (\A c : Req(c)' = Req(c)) /\ setting' = setting
      /\ UNCHANGED <<answer, ts, clock, commands, known, gone, rows>> /\ up' \in BOOLEAN
      /\ step' \in [IDs -> Steps] /\ \A c \in IDs : step'[c] = "idle"
      /\ executors' \subseteq Incomplete /\ hung' \subseteq executors'
  BY DEF Crash, ReRun, IDs, Req, IInv, TypeOK, Steps, Closed
<1>2. Active' \subseteq Active /\ executors' \subseteq DOMAIN commands
  BY <1>1 DEF Active, Incomplete
<1>3. TypeOK'
  BY <1>1, <1>2 DEF IInv, TypeOK, Steps
<1>4. Closed' /\ InFlight'
  BY <1>1 DEF Closed, InFlight
<1>5. RanAccepted'
  BY <1>1 DEF IInv, RanAccepted, Incomplete
<1>6. setting.overlap # "requests" => OneAtATime' /\ Settled' /\ Alone'
  BY <1>1 DEF OneAtATime, Settled, Alone
<1>7. \A c \in IDs : ~Past(c)' /\ step'[c] \notin Checked
  BY <1>1 DEF Past, Checked
<1>8. setting.overlap # "requests" => Apart' /\ PatchesOK'
  BY <1>1, <1>2, <1>7 DEF IInv, Apart, PatchesOK, PatchOf
<1>9. Reconciled'
  BY <1>1 DEF Reconciled
<1> QED
  BY <1>1, <1>3, <1>4, <1>5, <1>6, <1>8, <1>9 DEF IInv

-----------------------------------------------------------------------------
(***************************************************************************)
(* The theorems.                                                           *)
(***************************************************************************)

\* IInv is an inductive invariant.
LEMMA StepIInv == IInv /\ [Next]_vars => IInv'
<1> SUFFICES ASSUME IInv, [Next]_vars PROVE IInv'
  OBVIOUS
<1>1. CASE UNCHANGED vars
  BY <1>1, BesideKeeps DEF vars, admissionVars, Beside, IInv, TypeOK
<1>2. CASE Next
  BY <1>2, SubmitKeeps, RequestKeeps, ExecutorsKeep, RestartKeeps DEF Next, Activity
<1> QED
  BY <1>1, <1>2

\* The invariant holds throughout.
LEMMA AdmissionInvariant == Spec => []IInv
<1>1. Init => IInv
  BY InitIInv
<1>2. IInv /\ [Next]_vars => IInv'
  BY StepIInv
<1> QED
  BY <1>1, <1>2, PTL DEF Spec

\* Two executors that touch one stack do not both declare it, when requests
\* come one at a time and after the commands before them have recorded progress;
\* through any crashes, reruns, syncs and failing calls. So formae that declare
\* all they touch never have their executors on one stack.
THEOREM ExecutorsNeverConflict == Spec => []NoConflictingExecutors
<1>1. IInv => NoConflictingExecutors
  <2> SUFFICES ASSUME IInv, setting.overlap # "requests", NEW c \in executors, NEW d \in executors,
                      c # d, NEW s \in Req(c).touches \cap Req(d).touches
               PROVE  s \notin Req(c).stacks \/ s \notin Req(d).stacks
    BY DEF NoConflictingExecutors
  <2>1. c \in IDs /\ d \in IDs /\ c \in Active /\ d \in Active
    BY DEF IInv, TypeOK, Active
  <2> QED
    BY <2>1 DEF IInv, Apart
<1> QED
  BY <1>1, AdmissionInvariant, PTL

\* Only what has passed the checks of its request is ever executed, in the run
\* of the node that accepted it and in every later one; and a patch is stored
\* and started for stacks that exist, but for those a sync has found empty or
\* a command that does not declare them has emptied.
THEOREM RunningCommandsAreValid == Spec => []OnlyValidCommandsRun
<1>1. IInv => OnlyValidCommandsRun
  <2> SUFFICES ASSUME IInv PROVE OnlyValidCommandsRun
    OBVIOUS
  <2>1. RefusedNeverRuns /\ StartedAreValidated
    BY DEF IInv, RanAccepted, TypeOK, RefusedNeverRuns, StartedAreValidated
  <2>2. PatchesExistingStacks
    BY DEF IInv, TypeOK, PatchesOK, PatchOf, Checked, PatchesExistingStacks
  <2> QED
    BY <2>1, <2>2 DEF IInv, OnlyValidCommandsRun
<1> QED
  BY <1>1, AdmissionInvariant, PTL

\* A reconcile without force is not stored over changes made since its stack
\* was last reconciled, whenever the syncs that find them come.
THEOREM ReconcilesNeverOverwrite == Spec => NeverOverwrites
<1> DEFINE Respects ==
             \A id \in DOMAIN commands' \ DOMAIN commands :
                (/\ setting.overlap = "none" /\ \A c, d \in IDs : Req(c).stacks = Req(d).stacks
                 /\ Req(id).mode = "reconcile" /\ ~Req(id).force)
                   => \A s \in Req(id).stacks : ~ModifiedBefore(s, id)
<1>1. ASSUME IInv, Next, NEW id \in DOMAIN commands' \ DOMAIN commands
      PROVE  id \in IDs /\ step[id] = "store"
  <2>1. CASE \E c \in IDs : Store(c)
    BY <1>1, <2>1 DEF Store, Stored, At
  <2>2. CASE \E c \in IDs : ExecutorProgresses(c) \/ ExecutorFinishes(c)
    BY <1>1, <2>2 DEF ExecutorProgresses, ExecutorFinishes
  <2>3. CASE commands' = commands
    BY <1>1, <2>3
  <2> QED
    BY <1>1, <2>1, <2>2, <2>3 DEF Next, Activity, Submit, Step, CheckReconcile, CheckConflict, CheckPatch,
        Simulate, CheckCycles, Ensure, Start, ExecutorChanges, ReadHangs, ExecutorGivesUp,
        SyncFindsChange, Crash, ReRun, ReRunFails, admissionVars
<1>2. IInv /\ [Next]_vars => [Respects]_vars
  <2> SUFFICES ASSUME IInv, Next PROVE Respects
    OBVIOUS
  <2> QED
    BY <1>1 DEF IInv, Reconciled, SameStacks
<1> QED
  BY <1>2, AdmissionInvariant, PTL DEF Spec, NeverOverwrites

=============================================================================
