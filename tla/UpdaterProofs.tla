---------------------------- MODULE UpdaterProofs ----------------------------
(***************************************************************************)
(* Theorems about ResourceUpdater, for every retry limit and any number of *)
(* crashes, failing calls and values to resolve.                           *)
(*                                                                         *)
(* None of the properties is inductive.  The parts of IInv follow what is  *)
(* under way between the updater and its operator: at most one answer and  *)
(* some messages, of which only the last can be the end of the operation;  *)
(* and what the row records, which a later run of the update relies on.    *)
(***************************************************************************)
EXTENDS ResourceUpdater, FiniteSetTheorems, TLAPS

\* Progress with no more attempts than an operator makes.
Bounded == [op : Operations \cup {"none"},
            status : {"Success", "Failure", "InProgress", "none"},
            recoverable : BOOLEAN, attempts : 0 .. MaxAttempts + 1]

BoundedRecord == [Operations \cup {"none"} -> Bounded \cup {NoProgress}]

\* What an operator for op may answer or send.
ResultsOf(op) ==
    {p \in Bounded : /\ p.op \in {op, "none"}
                     /\ p.op = "none" => p.status = "Failure" /\ ~p.recoverable
                     /\ p.status # "none"}

StrongTypes ==
    /\ callErrors \in BOOLEAN
    /\ progress \in BoundedRecord
    /\ row \in [state : UpdateStates, progress : BoundedRecord]
    /\ reply \in Bounded \cup {NoProgress}
    /\ mail \in Seq(Bounded)

\* No operation is under way.
Before == {"initializing", "resolving", "unsent", "down"}

Working == {"synchronizing", "creating", "updating", "deleting"}

\* The state machine only enters the states of its kind of update.
StateFitsKind ==
    /\ state = "creating" => kind = "create"
    /\ state = "updating" => kind = "update"
    /\ state = "deleting" => kind = "delete"
    /\ state = "synchronizing" => kind # "create"
    /\ state = "resolving" => kind \in {"create", "update"}

\* What the updater waits for.
AwaitingOK ==
    /\ awaiting # "nothing" => state \in Working
    /\ awaiting \in {"resume", "recovered"} => state # "synchronizing"
    /\ awaiting \in {"start", "resume"} =>
          /\ operator.state # "none" /\ operator.op = currentOperation[state]
          /\ operator.request = awaiting
    /\ awaiting = "recovered" => reply = progress[currentOperation[state]] /\ HasFinished(reply)
    /\ awaiting = "persist" => FinishedSuccessfully(progress[currentOperation[state]])
    /\ report # "none" => state \in Final
    /\ armed => state \in Working \cup {"resolving"}

\* The operation under way belongs to the state of the updater.
OperationOK ==
    /\ state \in Working /\ operator.state \in Alive => operator.op = currentOperation[state]
    /\ state \in Working => \A i \in DOMAIN mail : mail[i] \in ResultsOf(currentOperation[state])
    /\ awaiting = "start" /\ operator.state # "not_started" =>
          reply \in ResultsOf(operator.op)
    /\ awaiting = "resume" /\ operator.state # "not_started" =>
          reply \in ResultsOf(operator.op) \/ (reply.status = "none" /\ reply.op = "none")
    /\ awaiting \in {"start", "resume"} /\ operator.state = "not_started" => reply = NoProgress
    /\ operator.op = "Read" => operator.state # "waiting_for_resource" /\ operator.request = "start"
    /\ operator.state = "retrying" => operator.attempts <= MaxAttempts

\* The answer and the messages of an operator, in their order: only the last
\* can end the operation, and then the operator is gone.
LastIsTheEnd ==
    /\ \A i \in DOMAIN mail : HasFinished(mail[i]) => i = Len(mail) /\ operator.state \notin Alive
    /\ operator.state = "not_started" => mail = << >>
    /\ awaiting \in {"start", "resume"} /\ HasFinished(reply) =>
          mail = << >> /\ operator.state \notin Alive
    /\ awaiting \in {"persist", "recovered"} \/ state \in Before =>
          mail = << >> /\ operator.state \notin Alive
    /\ (awaiting = "persist" /\ state = "synchronizing") \/ state \in Before => reply = NoProgress

\* What is only reached after a Read that has failed.
ReadFailures ==
    /\ operator.op = "Read" /\ operator.state = "retrying" => readFailed
    /\ state = "synchronizing" /\ (mail # << >> \/ armed) => readFailed
    /\ state = "synchronizing" /\ awaiting = "start" /\ reply.status \in {"Failure", "InProgress"}
          => readFailed

\* The row and the updater record the same, while the updater runs.
RowInStep == state \notin Final \cup {"down"} => row.progress = progress

\* What is recorded: entries for the operations of this kind of update, the
\* Read first, unless it failed; an entry without an operation is a failure.
RecordOK(pr) ==
    /\ \A op \in Operations : pr[op] # NoProgress =>
          pr[op].op = op /\ pr[op].status # "none" /\ op \in requiredOperations
    /\ pr["none"] # NoProgress => pr["none"].status = "Failure" /\ ~pr["none"].recoverable
    /\ kind \in {"update", "delete"} /\ (\E op \in DOMAIN pr : op # "Read" /\ pr[op] # NoProgress)
          => pr["Read"] # NoProgress \/ readFailed

RecordsOK ==
    /\ RecordOK(progress) /\ RecordOK(row.progress)
    /\ kind \in {"update", "delete"} /\ state \in {"resolving", "updating", "deleting"}
          => progress["Read"] # NoProgress \/ readFailed
    /\ kind = "read" /\ state \in {"initializing", "synchronizing"} => progress["none"] = NoProgress
    /\ kind = "read" /\ awaiting = "persist" => ustate = "Success"
    /\ state = "synchronizing" \/ (state = "resolving" /\ kind = "update") =>
          \A op \in DOMAIN progress : op # "Read" => progress[op] = NoProgress

\* A success that is recorded, or on its way, has happened and stays so.
SuccessDone ==
    /\ \A op \in Operations \ {"Read"} :
          "Success" \in {progress[op].status, row.progress[op].status} =>
              cloud[op] = "done" /\ ~(operator.state \in Alive /\ operator.op = op)
    /\ \A i \in DOMAIN mail : mail[i].status = "Success" /\ mail[i].op # "Read"
          => cloud[mail[i].op] = "done"
    /\ awaiting \in {"start", "resume"} /\ reply.status = "Success" /\ reply.op # "Read"
          => cloud[reply.op] = "done"

\* A success in the row or in the report rests on the record of the operation
\* that carries out the update, and a reported one was handed over.
SuccessRecorded ==
    /\ "Success" \in {row.state, report} /\ kind # "read" =>
          row.progress[Mutation].status = "Success"
    /\ report = "Success" => Settled(stored)

\* Attempts never go back, from the record over the answer and the messages to
\* the operator; a Read is not resumed.
AttemptsGrow ==
    state \in Working \ {"synchronizing"} =>
    /\ awaiting \in {"start", "resume"} \/ operator.state \in Alive =>
          progress[currentOperation[state]].attempts <= operator.attempts
    /\ \A i \in DOMAIN mail : mail[i].op # "none" =>
          /\ progress[mail[i].op].attempts <= mail[i].attempts
          /\ mail[i].attempts <= operator.attempts
          /\ \A j \in DOMAIN mail : i <= j /\ mail[j].op # "none" =>
                mail[i].attempts <= mail[j].attempts
          /\ awaiting \in {"start", "resume"} /\ reply.op # "none" =>
                reply.attempts <= mail[i].attempts
    /\ awaiting \in {"start", "resume"} /\ reply.op # "none" =>
          /\ progress[reply.op].attempts <= reply.attempts
          /\ reply.attempts <= operator.attempts

IInv ==
    /\ TypeOK /\ StrongTypes
    /\ StateFitsKind /\ AwaitingOK /\ OperationOK /\ LastIsTheEnd /\ ReadFailures
    /\ RowInStep /\ RecordsOK /\ SuccessDone /\ SuccessRecorded /\ AttemptsGrow
    /\ NoOrphanedOperator /\ WaitsWithTimeout /\ EveryMessageHandled
    /\ ReportsFinalState /\ RowAgreesWithReport

-----------------------------------------------------------------------------
(***************************************************************************)
(* The operators the model is built from.                                  *)
(***************************************************************************)

\* The operation that belongs to a state.
LEMMA OperationOf ==
    /\ DOMAIN currentOperation = Working
    /\ currentOperation["synchronizing"] = "Read" /\ currentOperation["creating"] = "Create"
    /\ currentOperation["updating"] = "Update" /\ currentOperation["deleting"] = "Delete"
    /\ \A t \in Working : currentOperation[t] \in Operations
    /\ \A t \in Working : currentOperation[t] = "Read" <=> t = "synchronizing"
BY DEF currentOperation, Working, Operations

\* The operations that a kind of update requires.
LEMMA KindOf ==
    /\ kind = "create" => requiredOperations = {"Create"} /\ Mutation = "Create"
    /\ kind = "update" => requiredOperations = {"Read", "Update"} /\ Mutation = "Update"
    /\ kind = "delete" => requiredOperations = {"Read", "Delete"} /\ Mutation = "Delete"
    /\ kind = "read" => requiredOperations = {"Read"} /\ Mutation = "Read"
BY DEF requiredOperations, Mutation

\* An operator that goes on has not sent the end of its operation, and one
\* that has is gone (Failed and handlePluginResult compare the attempts alike).
LEMMA StateAfterEnd ==
    ASSUME NEW p \in Bounded
    PROVE  /\ StateAfter(p) \in {"finished_successfully", "finished_with_error", "retrying",
                                 "waiting_for_resource"}
           /\ HasFinished(p) => StateAfter(p) \notin Alive
           /\ StateAfter(p) = "retrying" =>
                 p.status = "Failure" /\ p.recoverable /\ p.attempts <= MaxAttempts
           /\ StateAfter(p) = "waiting_for_resource" => p.status = "InProgress"
BY RetryAssumption DEF StateAfter, HasFinished, FinishedSuccessfully, Failed, Alive, Bounded,
    MaxAttempts

\* What an operator makes of an answer of the plugin.
LEMMA ResultShape ==
    ASSUME NEW op \in Operations, NEW lenient \in BOOLEAN, NEW a \in Answers,
           NEW n \in 0 .. MaxAttempts + 1
    PROVE  /\ Result(op, lenient, a, n) \in ResultsOf(op)
           /\ Result(op, lenient, a, n).op # "none" => Result(op, lenient, a, n).attempts = n
           /\ op # "Read" /\ Result(op, lenient, a, n).status = "Success" => a = "Success"
           /\ Result(op, lenient, a, n).status = "InProgress" => a = "InProgress"
           /\ Result(op, lenient, a, n).status = "Failure" => a # "Success"
           /\ Result(op, lenient, a, n).status = "Success" => Result(op, lenient, a, n).op = op
BY RetryAssumption DEF Result, ResultsOf, Bounded, Failure, Answers, Codes, Operations, MaxAttempts

\* The number of operations an update takes.
LEMMA RequiredCount ==
    ASSUME kind \in Kinds
    PROVE  Cardinality(requiredOperations) = IF kind \in {"update", "delete"} THEN 2 ELSE 1
<1>1. \A x : IsFiniteSet({x}) /\ Cardinality({x}) = 1
  BY FS_Singleton
<1>2. ASSUME NEW x, NEW y, x # y PROVE Cardinality({x, y}) = 2
  <2>1. {x, y} = {x} \cup {y}
    OBVIOUS
  <2>2. Cardinality({x} \cup {y}) = IF y \in {x} THEN Cardinality({x}) ELSE Cardinality({x}) + 1
    BY <1>1, FS_AddElement
  <2> QED
    BY <1>1, <1>2, <2>1, <2>2
<1>3. Cardinality({"Read", "Update"}) = 2 /\ Cardinality({"Read", "Delete"}) = 2
  BY <1>2
<1> QED
  BY <1>1, <1>3, KindOf, KindsAssumption

Made(pr) == {op \in DOMAIN pr : pr[op] # NoProgress}

\* The number of entries of a record.
LEMMA MadeCount ==
    ASSUME NEW pr \in BoundedRecord
    PROVE  /\ IsFiniteSet(Made(pr)) /\ Cardinality(Made(pr)) \in Nat
           /\ Made(pr) # {} => Cardinality(Made(pr)) >= 1
           /\ \A x, y \in Made(pr) : x # y => Cardinality(Made(pr)) >= 2
           /\ Cardinality(Made(pr)) >= 2 => \A x : Made(pr) # {x}
<1>1. IsFiniteSet({"Read", "Create", "Update", "Delete", "none"})
  <2>1. IsFiniteSet({"Read"})
    BY FS_Singleton
  <2>2. IsFiniteSet({"Read"} \cup {"Create"})
    BY <2>1, FS_AddElement
  <2>3. IsFiniteSet(({"Read"} \cup {"Create"}) \cup {"Update"})
    BY <2>2, FS_AddElement
  <2>4. IsFiniteSet((({"Read"} \cup {"Create"}) \cup {"Update"}) \cup {"Delete"})
    BY <2>3, FS_AddElement
  <2>5. IsFiniteSet(((({"Read"} \cup {"Create"}) \cup {"Update"}) \cup {"Delete"}) \cup {"none"})
    BY <2>4, FS_AddElement
  <2>6. ((({"Read"} \cup {"Create"}) \cup {"Update"}) \cup {"Delete"}) \cup {"none"}
           = {"Read", "Create", "Update", "Delete", "none"}
    OBVIOUS
  <2> QED
    BY <2>5, <2>6
<1>2. Made(pr) \subseteq {"Read", "Create", "Update", "Delete", "none"}
  BY DEF Made, BoundedRecord, Operations
<1>3. IsFiniteSet(Made(pr)) /\ Cardinality(Made(pr)) \in Nat
  BY <1>1, <1>2, FS_Subset, FS_CardinalityType
<1>4. Made(pr) # {} => Cardinality(Made(pr)) >= 1
  <2>1. Cardinality(Made(pr)) = 0 <=> Made(pr) = {}
    BY <1>3, FS_EmptySet
  <2> QED
    BY <1>3, <2>1
<1>5. Cardinality(Made(pr)) = 1 <=> \E x : Made(pr) = {x}
  BY <1>3, FS_Singleton
<1>6. \A x, y \in Made(pr) : x # y => Cardinality(Made(pr)) >= 2
  BY <1>3, <1>4, <1>5
<1>7. Cardinality(Made(pr)) >= 2 => \A x : Made(pr) # {x}
  BY <1>5
<1> QED
  BY <1>3, <1>4, <1>6, <1>7

\* updateState gives a state of an update.
LEMMA UpdateStateType ==
    ASSUME NEW pr PROVE updateState(pr) \in {"InProgress", "Failed", "Success"}
BY DEF updateState

\* A failed entry makes the update fail once it has the entries it takes.
LEMMA FailureCounts ==
    ASSUME NEW pr \in BoundedRecord, kind \in Kinds, NEW op \in Operations \cup {"none"},
           pr[op].status = "Failure"
    PROVE  /\ updateState(pr) # "Success"
           /\ kind \notin {"update", "delete"} /\ Failed(pr[op]) => updateState(pr) = "Failed"
           /\ op # "Read" /\ pr["Read"] # NoProgress /\ Failed(pr[op]) => updateState(pr) = "Failed"
<1>1. op \in Made(pr)
  BY DEF Made, BoundedRecord, NoProgress
<1>2. updateState(pr) # "Success"
  BY <1>1 DEF updateState, Made, FinishedSuccessfully
<1>3. ASSUME Failed(pr[op]), Cardinality(Made(pr)) >= Cardinality(requiredOperations)
      PROVE  updateState(pr) = "Failed"
  <2>1. \E o \in Made(pr) : Failed(pr[o])
    BY <1>1, <1>3
  <2>2. ~(Cardinality(Made(pr)) < Cardinality(requiredOperations))
    BY <1>3, MadeCount, RequiredCount
  <2> QED
    BY <2>1, <2>2 DEF updateState, Made
<1>4. ASSUME kind \notin {"update", "delete"}
      PROVE  Cardinality(Made(pr)) >= Cardinality(requiredOperations)
  BY <1>1, <1>4, MadeCount, RequiredCount
<1>5. ASSUME op # "Read", pr["Read"] # NoProgress
      PROVE  Cardinality(Made(pr)) >= Cardinality(requiredOperations)
  <2>1. "Read" \in Made(pr)
    BY <1>5 DEF Made, BoundedRecord, Operations
  <2> QED
    BY <1>1, <1>5, <2>1, MadeCount, RequiredCount
<1> QED
  BY <1>2, <1>3, <1>4, <1>5

\* An update is successful only when the operation that carries it out was:
\* with the entries it can have, counting them is enough.
LEMMA SuccessCounts ==
    ASSUME NEW pr \in BoundedRecord, kind \in Kinds, RecordOK(pr), updateState(pr) = "Success"
    PROVE  pr[Mutation].status = "Success"
<1>1. /\ \A op \in Made(pr) : FinishedSuccessfully(pr[op])
      /\ ~(Cardinality(Made(pr)) < Cardinality(requiredOperations))
  BY DEF updateState, Made
<1>2. Cardinality(Made(pr)) >= Cardinality(requiredOperations)
  BY <1>1, MadeCount, RequiredCount
<1>3. Made(pr) # {}
  <2>1. Cardinality({}) = 0
    BY FS_EmptySet
  <2> QED
    BY <1>2, <2>1, RequiredCount
<1>4. "none" \notin Made(pr)
  BY <1>1 DEF Made, RecordOK, FinishedSuccessfully, BoundedRecord
<1>5. Made(pr) \subseteq requiredOperations
  BY <1>4 DEF Made, RecordOK, BoundedRecord
<1>6. Mutation \in Made(pr)
  <2>1. CASE kind \in {"create", "read"}
    BY <1>3, <1>5, <2>1, KindOf
  <2>2. CASE kind \in {"update", "delete"}
    <3>1. Made(pr) # {"Read"}
      BY <1>2, <2>2, MadeCount, RequiredCount
    <3> QED
      BY <1>3, <1>5, <2>2, <3>1, KindOf
  <2> QED
    BY <2>1, <2>2, KindsAssumption
<1> QED
  BY <1>1, <1>6 DEF Made, FinishedSuccessfully

\* When all operations an update takes were successful, and nothing failed, so
\* is the update.
LEMMA AllCount ==
    ASSUME NEW pr \in BoundedRecord, kind \in Kinds, RecordOK(pr), pr["none"] = NoProgress,
           \A op \in requiredOperations : FinishedSuccessfully(pr[op])
    PROVE  updateState(pr) = "Success"
<1>1. Made(pr) = requiredOperations
  <2>1. requiredOperations \subseteq Operations
    BY KindOf, KindsAssumption DEF Operations
  <2>2. requiredOperations \subseteq Made(pr)
    BY <2>1 DEF Made, BoundedRecord, FinishedSuccessfully, NoProgress
  <2>3. \A op \in Operations : pr[op] # NoProgress => op \in requiredOperations
    BY DEF RecordOK
  <2> QED
    BY <2>2, <2>3 DEF Made, BoundedRecord
<1>2. ~(Cardinality(Made(pr)) < Cardinality(requiredOperations))
  BY <1>1, MadeCount, RequiredCount
<1>3. ~ \E op \in Made(pr) : Failed(pr[op])
  BY <1>1 DEF Failed, FinishedSuccessfully
<1> QED
  BY <1>1, <1>2, <1>3 DEF updateState, Made

\* A sync that has read its resource is successful.
LEMMA ReadCounts ==
    ASSUME NEW pr \in BoundedRecord, kind = "read", kind \in Kinds, RecordOK(pr),
           pr["none"] = NoProgress, FinishedSuccessfully(pr["Read"])
    PROVE  updateState(pr) = "Success"
BY AllCount, KindOf

\* The bounded types are within those of TypeOK.
LEMMA BoundedTypes ==
    /\ Bounded \subseteq Progress
    /\ \A pr \in BoundedRecord : pr \in Recorded
    /\ \A m \in Seq(Bounded) : m \in Seq(Progress)
    /\ NoOperator \in Operators
<1>1. Bounded \subseteq Progress
  BY RetryAssumption DEF Bounded, Progress, MaxAttempts
<1>2. \A pr \in BoundedRecord : pr \in Recorded
  BY <1>1 DEF BoundedRecord, Recorded
<1>3. \A m \in Seq(Bounded) : m \in Seq(Progress)
  BY <1>1
<1>4. NoOperator \in Operators
  BY RetryAssumption DEF NoOperator, Operators, Operations, MaxAttempts
<1> QED
  BY <1>1, <1>2, <1>3, <1>4

\* Taking the first message leaves the others, and the last one last.
LEMMA ShorterMail ==
    ASSUME NEW m \in Seq(Bounded), NEW n, n = m \/ (m # << >> /\ n = Tail(m))
    PROVE  /\ n \in Seq(Bounded)
           /\ \A i \in DOMAIN n : \E j \in DOMAIN m : n[i] = m[j] /\ (j = Len(m) => i = Len(n))
           /\ m = << >> => n = << >>
OBVIOUS

-----------------------------------------------------------------------------
(***************************************************************************)
(* The parts of handlers.                                                  *)
(***************************************************************************)

\* What a step of the updater leaves alone.
Kept == UNCHANGED <<kind, callErrors, cloud, readFailed, crashes>>

\* The records of the step are in order: r is the row, before its state is set.
RecordsKept(r) ==
    /\ r \in [state : UpdateStates, progress : BoundedRecord]
    /\ progress' \in BoundedRecord
    /\ RecordOK(progress') /\ RecordOK(r.progress)
    /\ \A op \in Operations \ {"Read"} :
          "Success" \in {progress'[op].status, r.progress[op].status} =>
              cloud[op] = "done" /\ ~(operator.state \in Alive /\ operator.op = op)
    /\ r.state = "Success" /\ kind # "read" => r.progress[Mutation].status = "Success"

\* Entering a final state keeps the invariant.
LEMMA FinishKeeps ==
    ASSUME IInv, Kept, NEW f \in Final, NEW s \in UpdateStates, NEW r, RecordsKept(r),
           Finish(f, s, r),
           stored' \in SUBSET Results, stored \subseteq stored', remaining' = remaining,
           s = "Success" => Settled(stored'),
           s = "Success" /\ kind # "read" => r.progress[Mutation].status = "Success",
           s \notin Terminal => readFailed /\ kind \in {"update", "delete"},
           operator' \in {operator, NoOperator}, reply' \in {reply, NoProgress},
           mail' = mail \/ (mail # << >> /\ mail' = Tail(mail))
    PROVE  IInv'
<1> USE DEF Kept
<1>1. /\ state' = f /\ ustate' = s /\ report' = s /\ awaiting' = "nothing" /\ armed' = FALSE
      /\ row' \in [state : UpdateStates, progress : BoundedRecord]
      /\ row'.progress = r.progress
      /\ row'.state \in {s, r.state}
      /\ ~callErrors => row'.state = s
  BY DEF Finish, RecordsKept
<1>2. f \notin Working /\ f \notin Before /\ f # "terminated"
  BY DEF Final, Working, Before
<1>3. /\ mail' \in Seq(Bounded)
      /\ \A i \in DOMAIN mail' : \E j \in DOMAIN mail : /\ mail'[i] = mail[j]
                                                        /\ j = Len(mail) => i = Len(mail')
      /\ mail = << >> => mail' = << >>
  BY DEF IInv, StrongTypes
<1>4. operator'.state \in Alive => operator' = operator
  BY DEF NoOperator, Alive
<1>5. TypeOK'
  <2>1. /\ progress' \in Recorded /\ row'.state \in UpdateStates /\ row'.progress \in Recorded
        /\ mail' \in Seq(Progress) /\ reply' \in Progress \cup {NoProgress}
        /\ operator' \in Operators
    BY <1>1, <1>3, BoundedTypes DEF IInv, TypeOK, RecordsKept
  <2>2. armed' \in BOOLEAN /\ state' \in UpdaterStates
    BY <1>1 DEF UpdaterStates
  <2> QED
    BY <1>1, <2>1, <2>2 DEF IInv, TypeOK
<1>6. StrongTypes'
  BY <1>1, <1>3 DEF IInv, StrongTypes, RecordsKept
<1>7. StateFitsKind' /\ AwaitingOK' /\ RowInStep'
  BY <1>1, <1>2 DEF StateFitsKind, AwaitingOK, RowInStep, Final
<1>8. OperationOK' /\ ReadFailures'
  <2>1. operator'.state = "retrying" \/ operator'.state = "waiting_for_resource" => operator' = operator
    BY <1>4 DEF Alive
  <2>2. OperationOK'
    BY <1>1, <1>2, <2>1 DEF IInv, OperationOK, Working, Final, NoOperator
  <2>3. ReadFailures'
    BY <1>1, <1>2, <2>1 DEF IInv, ReadFailures, Working, Final
  <2> QED
    BY <2>2, <2>3
<1>9. LastIsTheEnd'
  <2>1. \A i \in DOMAIN mail' : HasFinished(mail'[i]) =>
            i = Len(mail') /\ operator'.state \notin Alive
    BY <1>3, <1>4 DEF IInv, LastIsTheEnd
  <2>2. operator'.state = "not_started" => mail' = << >>
    BY <1>3, <1>4 DEF IInv, LastIsTheEnd, Alive
  <2> QED
    BY <1>1, <1>2, <2>1, <2>2 DEF LastIsTheEnd
<1>10. RecordsOK'
  <2>1. RecordOK(progress)'
    BY DEF RecordsKept, RecordOK, requiredOperations
  <2>2. RecordOK(row.progress)'
    BY <1>1 DEF RecordsKept, RecordOK, requiredOperations
  <2> QED
    BY <1>1, <1>2, <2>1, <2>2 DEF RecordsOK, Working, Before, Final
<1>11. SuccessDone'
  BY <1>1, <1>3, <1>4 DEF IInv, SuccessDone, RecordsKept
<1>12. SuccessRecorded'
  BY <1>1 DEF SuccessRecorded, RecordsKept, Settled, Mutation
<1>13. AttemptsGrow'
  BY <1>1, <1>2 DEF AttemptsGrow
<1>14. NoOrphanedOperator'
  BY <1>1, <1>3, <1>4 DEF IInv, LastIsTheEnd, NoOrphanedOperator
<1>15. WaitsWithTimeout' /\ EveryMessageHandled' /\ ReportsFinalState' /\ RowAgreesWithReport'
  BY <1>1, <1>2 DEF WaitsWithTimeout, EveryMessageHandled, ReportsFinalState, RowAgreesWithReport,
      Working, Before
<1> QED
  BY <1>5, <1>6, <1>7, <1>8, <1>9, <1>10, <1>11, <1>12, <1>13, <1>14, <1>15 DEF IInv

\* Asking for a plugin operation keeps the invariant, when nothing of an
\* earlier one is left.
LEMMA BeginKeeps ==
    ASSUME IInv, Kept, NEW t \in Working, Begin(t),
           t = "creating" => kind = "create", t = "updating" => kind = "update",
           t = "deleting" => kind = "delete", t = "synchronizing" => kind # "create",
           progress' = progress, mail' = mail, remaining' = remaining,
           stored' \in SUBSET Results, stored \subseteq stored',
           mail = << >>, operator.state \notin Alive, reply = NoProgress,
           state \notin Final \cup {"down"},
           t \in {"updating", "deleting"} => progress["Read"] # NoProgress \/ readFailed,
           kind = "read" => progress["none"] = NoProgress,
           t = "synchronizing" => \A op \in DOMAIN progress : op # "Read" => progress[op] = NoProgress
    PROVE  IInv'
<1> USE DEF Kept
<1> DEFINE op == currentOperation[t]
<1>1. /\ state' = t /\ armed' = FALSE /\ ustate' = ustate /\ row' = row /\ report' = report
      /\ op \in Operations /\ (op = "Read" <=> t = "synchronizing")
      /\ report = "none" /\ row.progress = progress
  BY OperationOf DEF Begin, IInv, AwaitingOK, RowInStep
<1>2. t \notin Final /\ t \notin Before /\ t # "terminated"
  BY DEF Final, Working, Before
<1>3. \/ /\ t = "synchronizing" \/ progress[op] = NoProgress
         /\ operator'.state = "not_started" /\ operator'.request = "start" /\ operator'.op = op
         /\ operator'.attempts = 1 /\ operator' \in Operators
         /\ awaiting' = "start" /\ reply' = NoProgress
      \/ /\ t # "synchronizing" /\ progress[op] # NoProgress /\ HasFinished(progress[op])
         /\ operator' = operator /\ awaiting' = "recovered" /\ reply' = progress[op]
      \/ /\ t # "synchronizing" /\ progress[op] # NoProgress /\ ~HasFinished(progress[op])
         /\ operator'.state = "not_started" /\ operator'.request = "resume" /\ operator'.op = op
         /\ operator'.attempts = progress[op].attempts /\ operator' \in Operators
         /\ awaiting' = "resume" /\ reply' = NoProgress
  <2>1. /\ Requested("start", op, kind \in {"read", "delete"}, 1) \in Operators
        /\ \A n \in 0 .. MaxAttempts + 1 : Requested("resume", op, FALSE, n) \in Operators
    BY <1>1, RetryAssumption DEF Requested, Operators, Alive, MaxAttempts
  <2>2. progress[op] # NoProgress => progress[op].attempts \in 0 .. MaxAttempts + 1
    BY <1>1 DEF IInv, StrongTypes, BoundedRecord, Bounded
  <2> HIDE DEF op
  <2> QED
    BY <2>1, <2>2 DEF Begin, Found, Requested, op
<1> HIDE DEF op
<1>4. TypeOK' /\ StrongTypes'
  <2>1. reply' \in Bounded \cup {NoProgress} /\ operator' \in Operators
    BY <1>1, <1>3 DEF IInv, StrongTypes, BoundedRecord, TypeOK
  <2>2. armed' \in BOOLEAN /\ state' \in UpdaterStates
    BY <1>1, OperationOf DEF UpdaterStates
  <2>3. reply' \in Progress \cup {NoProgress}
    BY <2>1, BoundedTypes
  <2>4. awaiting' \in {"nothing", "start", "resume", "recovered", "persist"}
    BY <1>3
  <2> QED
    BY <1>1, <2>1, <2>2, <2>3, <2>4 DEF IInv, TypeOK, StrongTypes
<1>5. StateFitsKind'
  BY <1>1, <1>2 DEF StateFitsKind, Before
<1>6. AwaitingOK'
  BY <1>1, <1>2, <1>3 DEF AwaitingOK, op
<1>7. OperationOK'
  BY <1>1, <1>2, <1>3 DEF IInv, OperationOK, Alive, op
<1>8. LastIsTheEnd'
  BY <1>1, <1>2, <1>3 DEF LastIsTheEnd, HasFinished, FinishedSuccessfully, Failed, NoProgress
<1>9. ReadFailures'
  BY <1>1, <1>2, <1>3 DEF IInv, ReadFailures, NoProgress
<1>10. RowInStep'
  BY <1>1 DEF RowInStep
<1>11. RecordsOK'
  <2>1. RecordOK(progress)' /\ RecordOK(row.progress)'
    BY <1>1 DEF IInv, RecordsOK, RecordOK, requiredOperations
  <2> QED
    BY <1>1, <1>2, <1>3, <2>1 DEF RecordsOK, Before, Working
<1>12. SuccessDone'
  BY <1>1, <1>3 DEF IInv, SuccessDone, HasFinished, FinishedSuccessfully, NoProgress
<1>13. SuccessRecorded'
  BY <1>1 DEF IInv, SuccessRecorded, Settled, Mutation
<1>14. AttemptsGrow'
  <2>1. progress[op].attempts \in Int /\ (progress[op] = NoProgress => progress[op].attempts = 0)
    BY <1>1, RetryAssumption DEF IInv, StrongTypes, BoundedRecord, Bounded, NoProgress, MaxAttempts
  <2>2. /\ t # "synchronizing" /\ (awaiting' \in {"start", "resume"} \/ operator'.state \in Alive) =>
              progress[op].attempts <= operator'.attempts
        /\ awaiting' \in {"start", "resume"} => reply' = NoProgress
    BY <1>3, <2>1
  <2>3. NoProgress.op = "none" /\ DOMAIN mail' = {}
    BY DEF NoProgress
  <2> QED
    BY <1>1, <2>2, <2>3 DEF AttemptsGrow, op
<1>15. NoOrphanedOperator'
  BY <1>3 DEF NoOrphanedOperator, HasFinished, FinishedSuccessfully, Failed, NoProgress
<1>16. WaitsWithTimeout' /\ EveryMessageHandled' /\ ReportsFinalState' /\ RowAgreesWithReport'
  BY <1>1, <1>2, <1>3 DEF IInv, WaitsWithTimeout, EveryMessageHandled, ReportsFinalState,
      RowAgreesWithReport
<1> QED
  BY <1>4, <1>5, <1>6, <1>7, <1>8, <1>9, <1>10, <1>11, <1>12, <1>13, <1>14, <1>15, <1>16 DEF IInv

\* Asking for a value keeps the invariant, and so does failing to.
LEMMA ResolvingKeeps ==
    ASSUME IInv, Kept, awaiting' = "nothing",
           (state' = "resolving" /\ armed' = TRUE) \/ (state' = "unsent" /\ armed' = FALSE),
           UNCHANGED <<ustate, row, report, operator, reply, mail, progress>>,
           remaining' \in 0 .. Resolvables,
           stored' \in SUBSET Results, stored \subseteq stored',
           mail = << >>, operator.state \notin Alive, reply = NoProgress,
           state \notin Final \cup {"down"}, kind \in {"create", "update"},
           kind = "update" => progress["Read"] # NoProgress \/ readFailed,
           kind = "update" => \A op \in DOMAIN progress : op # "Read" => progress[op] = NoProgress
    PROVE  IInv'
<1> USE DEF Kept
<1>1. report = "none" /\ row.progress = progress
  BY DEF IInv, AwaitingOK, RowInStep
<1>2. /\ state' \in UpdaterStates /\ state' \notin Working /\ state' \in Before
      /\ state' \notin Final
  BY DEF UpdaterStates, Working, Before, Final
<1>3. TypeOK' /\ StrongTypes'
  BY <1>2 DEF IInv, TypeOK, StrongTypes
<1>4. StateFitsKind' /\ AwaitingOK' /\ RowInStep'
  BY <1>1, <1>2 DEF StateFitsKind, AwaitingOK, RowInStep
<1>5. OperationOK' /\ ReadFailures'
  BY <1>2 DEF IInv, OperationOK, ReadFailures
<1>6. LastIsTheEnd'
  BY <1>2 DEF LastIsTheEnd, Alive
<1>7. RecordsOK'
  <2>1. RecordOK(progress)' /\ RecordOK(row.progress)'
    BY <1>1 DEF IInv, RecordsOK, RecordOK, requiredOperations
  <2> QED
    BY <2>1 DEF RecordsOK
<1>8. SuccessDone'
  BY <1>1 DEF IInv, SuccessDone
<1>9. SuccessRecorded'
  BY <1>1 DEF IInv, SuccessRecorded, Settled, Mutation
<1>10. AttemptsGrow'
  BY <1>2 DEF AttemptsGrow
<1>11. NoOrphanedOperator'
  BY DEF NoOrphanedOperator
<1>12. WaitsWithTimeout' /\ EveryMessageHandled' /\ ReportsFinalState' /\ RowAgreesWithReport'
  BY <1>1 DEF IInv, WaitsWithTimeout, EveryMessageHandled, ReportsFinalState, RowAgreesWithReport
<1> QED
  BY <1>3, <1>4, <1>5, <1>6, <1>7, <1>8, <1>9, <1>10, <1>11, <1>12 DEF IInv

\* What the updater may take p for, when it is the next it hears of its operator.
Handed(p) ==
    /\ state \in Working /\ p \in ResultsOf(currentOperation[state])
    /\ operator' = operator /\ operator.state # "not_started"
    /\ mail' = mail \/ (mail # << >> /\ mail' = Tail(mail))
    /\ reply' = NoProgress \/ (state # "synchronizing" /\ reply' = reply)
    /\ HasFinished(p) => mail' = << >> /\ operator.state \notin Alive
    /\ p.status = "Success" /\ p.op # "Read" => cloud[p.op] = "done"
    /\ state = "synchronizing" /\ p.status # "Success" => readFailed
    /\ state # "synchronizing" /\ p.op # "none" =>
          /\ progress[p.op].attempts <= p.attempts
          /\ operator.state \in Alive => p.attempts <= operator.attempts
          /\ \A i \in DOMAIN mail' : mail'[i].op # "none" => p.attempts <= mail'[i].attempts

\* The records are in order after progress was recorded.
LEMMA ProgressRecorded ==
    ASSUME IInv, NEW p, Handed(p), NEW pr, pr = [progress EXCEPT ![p.op] = p]
    PROVE  /\ pr \in BoundedRecord /\ pr[p.op] = p /\ RecordOK(pr)
           /\ UpdateFromProgress(updateState(pr), p) = [state |-> updateState(pr), progress |-> pr]
           /\ \A op \in Operations \ {"Read"} : pr[op].status = "Success" =>
                 cloud[op] = "done" /\ ~(operator.state \in Alive /\ operator.op = op)
           /\ updateState(pr) = "Success" => pr[Mutation].status = "Success"
           /\ p.op = "none" => Failed(p)
<1> DEFINE cur == currentOperation[state]
<1>1. /\ p \in Bounded /\ p.op \in {cur, "none"} /\ p.status # "none"
      /\ p.op = "none" => p.status = "Failure" /\ ~p.recoverable
      /\ cur \in Operations /\ (cur = "Read" <=> state = "synchronizing")
  BY OperationOf DEF Handed, ResultsOf
<1> HIDE DEF cur
<1>2. /\ pr \in BoundedRecord /\ pr[p.op] = p /\ DOMAIN pr = Operations \cup {"none"}
      /\ \A op \in Operations \cup {"none"} : op # p.op => pr[op] = progress[op]
  BY <1>1 DEF IInv, StrongTypes, BoundedRecord
<1>3. RecordOK(progress) /\ row.progress = progress /\ DOMAIN progress = Operations \cup {"none"}
  BY DEF IInv, RecordsOK, RowInStep, StrongTypes, BoundedRecord, Handed, Working, Final
<1>4. cur \in requiredOperations
  BY KindOf, KindsAssumption, OperationOf DEF cur, IInv, StateFitsKind, TypeOK, Handed, Working
<1>5. RecordOK(pr)
  <2>1. \A op \in Operations : pr[op] # NoProgress =>
            pr[op].op = op /\ pr[op].status # "none" /\ op \in requiredOperations
    <3>1. \A op \in Operations : op = p.op => op = cur
      BY <1>1 DEF Operations
    <3>2. \A op \in Operations : op = p.op => pr[op].op = op /\ pr[op].status # "none"
      BY <1>1, <1>2
    <3> QED
      BY <1>2, <1>3, <1>4, <3>1, <3>2 DEF RecordOK
  <2>2. pr["none"] # NoProgress => pr["none"].status = "Failure" /\ ~pr["none"].recoverable
    BY <1>1, <1>2, <1>3 DEF RecordOK
  <2>3. ASSUME kind \in {"update", "delete"}, NEW op \in DOMAIN pr, op # "Read", pr[op] # NoProgress
        PROVE  pr["Read"] # NoProgress \/ readFailed
    <3>1. CASE state = "synchronizing"
      <4>1. p.op = op \/ progress[op] # NoProgress
        BY <1>2, <2>3
      <4>2. p.op = op
        BY <1>2, <1>3, <2>3, <3>1, <4>1 DEF IInv, RecordsOK
      <4> QED
        BY <1>1, <2>3, <3>1, <4>2 DEF Handed
    <3>2. CASE state # "synchronizing"
      <4>1. progress["Read"] # NoProgress \/ readFailed
        BY <2>3, <3>2 DEF IInv, RecordsOK, Handed, Working, StateFitsKind
      <4> QED
        BY <1>1, <1>2, <3>2, <4>1 DEF Operations
    <3> QED
      BY <3>1, <3>2
  <2> QED
    BY <2>1, <2>2, <2>3 DEF RecordOK
<1>6. UpdateFromProgress(updateState(pr), p) = [state |-> updateState(pr), progress |-> pr]
  BY <1>3 DEF UpdateFromProgress
<1>7. ASSUME NEW op \in Operations \ {"Read"}, pr[op].status = "Success"
      PROVE  cloud[op] = "done" /\ ~(operator.state \in Alive /\ operator.op = op)
  <2>1. CASE op = p.op
    BY <1>2, <1>7, <2>1 DEF Handed, HasFinished, FinishedSuccessfully
  <2>2. CASE op # p.op
    BY <1>2, <1>7, <2>2 DEF IInv, SuccessDone
  <2> QED
    BY <2>1, <2>2
<1>8. updateState(pr) = "Success" => pr[Mutation].status = "Success"
  BY <1>2, <1>5, SuccessCounts DEF IInv, TypeOK
<1>9. p.op = "none" => Failed(p)
  BY <1>1 DEF Failed
<1> QED
  BY <1>2, <1>5, <1>6, <1>7, <1>8, <1>9

\* handleProgressUpdate keeps the invariant.
LEMMA HandleProgressKeeps ==
    ASSUME IInv, NEW p, Handed(p), HandleProgress(p), UNCHANGED <<cloud, readFailed>>
    PROVE  IInv'
<1> DEFINE cur == currentOperation[state]
           pr  == [progress EXCEPT ![p.op] = p]
           s   == updateState(pr)
<1>1. /\ pr \in BoundedRecord /\ pr[p.op] = p /\ RecordOK(pr)
      /\ UpdateFromProgress(s, p) = [state |-> s, progress |-> pr]
      /\ \A op \in Operations \ {"Read"} : pr[op].status = "Success" =>
            cloud[op] = "done" /\ ~(operator.state \in Alive /\ operator.op = op)
      /\ s = "Success" => pr[Mutation].status = "Success"
      /\ p.op = "none" => Failed(p)
  BY ProgressRecorded
<1>2. /\ p \in Bounded /\ p.op \in {cur, "none"} /\ p.status # "none"
      /\ p.op = "none" => p.status = "Failure" /\ ~p.recoverable
      /\ cur \in Operations /\ (cur = "Read" <=> state = "synchronizing")
  BY OperationOf DEF Handed, ResultsOf
<1>3. \A op \in Operations \cup {"none"} : op # p.op => pr[op] = progress[op]
  BY <1>2 DEF IInv, StrongTypes, BoundedRecord
<1>4. /\ RecordOK(progress) /\ row.progress = progress /\ report = "none"
      /\ state \notin Final /\ state \notin Before /\ state # "terminated"
  BY DEF IInv, RecordsOK, RowInStep, AwaitingOK, Handed, Working, Final, Before
<1>5. s \in {"InProgress", "Failed", "Success"}
  BY UpdateStateType
<1>6. Kept /\ remaining' = remaining /\ stored \subseteq stored' /\ stored' \in SUBSET Results
      /\ kind \in Kinds
  BY DEF HandleProgress, Kept, IInv, TypeOK, Results, Operations
<1> HIDE DEF cur, pr, s
<1>11. ASSUME FinishedSuccessfully(p), kind = "read", progress' = pr,
              Finish("finished_successfully", "Success", UpdateFromProgress(s, p)),
              <<"Read", "dropped">> \in stored'
       PROVE  IInv'
  <2>1. Settled(stored')
    BY <1>11 DEF Settled, Mutation
  <2>2. RecordsKept(UpdateFromProgress(s, p))
    BY <1>1, <1>5, <1>11 DEF RecordsKept, UpdateStates
  <2>3. "finished_successfully" \in Final /\ "Success" \in UpdateStates /\ "Success" \in Terminal
    BY DEF Final, UpdateStates, Terminal
  <2>4. /\ operator' \in {operator, NoOperator} /\ reply' \in {reply, NoProgress}
        /\ mail' = mail \/ (mail # << >> /\ mail' = Tail(mail))
    BY DEF Handed
  <2> QED
    BY <1>6, <1>11, <2>1, <2>2, <2>3, <2>4, FinishKeeps
<1>7. ASSUME Failed(p), progress' = pr,
             Finish("finished_with_error", s, UpdateFromProgress(s, p))
      PROVE  IInv'
  <2>1. p.status = "Failure"
    BY <1>7 DEF Failed
  <2>2. s # "Success"
    BY <1>1, <1>2, <1>6, <2>1, FailureCounts DEF s
  <2>3. ASSUME s \notin Terminal PROVE readFailed /\ kind \in {"update", "delete"}
    <3>1. s # "Failed"
      BY <2>3 DEF Terminal
    <3>2. kind \in {"update", "delete"} /\ ~(p.op # "Read" /\ pr["Read"] # NoProgress)
      BY <1>1, <1>2, <1>6, <1>7, <2>1, <3>1, FailureCounts DEF s
    <3>3. CASE p.op = "Read"
      BY <1>2, <2>1, <3>2, <3>3 DEF Handed
    <3>4. CASE p.op # "Read"
      <4>1. pr[p.op] # NoProgress /\ p.op \in DOMAIN pr
        BY <1>1, <1>2, <2>1 DEF NoProgress, BoundedRecord
      <4> QED
        BY <1>1, <3>2, <3>4, <4>1 DEF RecordOK
    <3> QED
      BY <3>3, <3>4
  <2>4. RecordsKept(UpdateFromProgress(s, p))
    BY <1>1, <1>5, <1>7 DEF RecordsKept, UpdateStates
  <2>5. "finished_with_error" \in Final /\ s \in UpdateStates
    BY <1>5 DEF Final, UpdateStates
  <2>6. /\ operator' \in {operator, NoOperator} /\ reply' \in {reply, NoProgress}
        /\ mail' = mail \/ (mail # << >> /\ mail' = Tail(mail))
    BY DEF Handed
  <2> QED
    BY <1>6, <1>7, <2>2, <2>3, <2>4, <2>5, <2>6, FinishKeeps
<1>8. ASSUME progress' \in {progress, pr}, Finish("finished_with_error", "Failed", row)
      PROVE  IInv'
  <2>1. RecordsKept(row)
    <3>1. /\ row \in [state : UpdateStates, progress : BoundedRecord]
          /\ progress' \in BoundedRecord /\ RecordOK(progress')
      BY <1>1, <1>4, <1>8 DEF IInv, StrongTypes
    <3>2. \A op \in Operations \ {"Read"} :
             "Success" \in {progress'[op].status, row.progress[op].status} =>
                 cloud[op] = "done" /\ ~(operator.state \in Alive /\ operator.op = op)
      BY <1>1, <1>8 DEF IInv, SuccessDone
    <3>3. row.state = "Success" /\ kind # "read" => row.progress[Mutation].status = "Success"
      BY DEF IInv, SuccessRecorded
    <3> QED
      BY <1>4, <3>1, <3>2, <3>3 DEF RecordsKept
  <2>2. "finished_with_error" \in Final /\ "Failed" \in UpdateStates /\ "Failed" \in Terminal
    BY DEF Final, UpdateStates, Terminal
  <2>3. /\ operator' \in {operator, NoOperator} /\ reply' \in {reply, NoProgress}
        /\ mail' = mail \/ (mail # << >> /\ mail' = Tail(mail))
    BY DEF Handed
  <2> QED
    BY <1>6, <1>8, <2>1, <2>2, <2>3, FinishKeeps
<1>9. ASSUME progress' = pr, row' = [state |-> s, progress |-> pr], ustate' = s,
             UNCHANGED <<state, report>>,
             \/ FinishedSuccessfully(p) /\ awaiting' = "persist" /\ armed' = FALSE
             \/ ~HasFinished(p) /\ awaiting' = "nothing" /\ armed' = TRUE
      PROVE  IInv'
  <2>. USE DEF Kept
  <2>1. /\ p.op = cur /\ pr[cur] = p
        /\ awaiting' \in {"persist", "nothing"} /\ armed' \in BOOLEAN
    BY <1>1, <1>2, <1>9 DEF HasFinished, FinishedSuccessfully, Failed
  <2>2. /\ mail' \in Seq(Bounded)
        /\ \A i \in DOMAIN mail' : \E j \in DOMAIN mail : /\ mail'[i] = mail[j]
                                                          /\ j = Len(mail) => i = Len(mail')
        /\ mail = << >> => mail' = << >>
    BY DEF IInv, StrongTypes, Handed
  <2>3. TypeOK' /\ StrongTypes'
    <3>1. /\ progress' \in Recorded /\ row'.state \in UpdateStates /\ row'.progress \in Recorded
          /\ mail' \in Seq(Progress) /\ reply' \in Progress \cup {NoProgress}
      BY <1>1, <1>5, <1>9, <2>2, BoundedTypes DEF IInv, TypeOK, UpdateStates, Handed
    <3>2. TypeOK'
      BY <1>5, <1>6, <1>9, <2>1, <3>1 DEF IInv, TypeOK, UpdateStates, Handed
    <3>3. reply' \in Bounded \cup {NoProgress} /\ row' \in [state : UpdateStates, progress : BoundedRecord]
      BY <1>1, <1>5, <1>9 DEF IInv, StrongTypes, UpdateStates, Handed
    <3> QED
      BY <1>1, <1>6, <1>9, <2>2, <3>2, <3>3 DEF IInv, StrongTypes
  <2>4. StateFitsKind' /\ RowInStep'
    BY <1>6, <1>9 DEF IInv, StateFitsKind, RowInStep
  <2>5. AwaitingOK'
    BY <1>4, <1>9, <2>1 DEF AwaitingOK, Handed, cur
  <2>6. OperationOK'
    <3>1. \A i \in DOMAIN mail' : mail'[i] \in ResultsOf(cur)
      BY <2>2 DEF IInv, OperationOK, Handed, cur
    <3> QED
      BY <1>9, <2>1, <3>1 DEF IInv, OperationOK, Handed, cur
  <2>7. LastIsTheEnd'
    <3>1. \A i \in DOMAIN mail' : HasFinished(mail'[i]) => i = Len(mail') /\ operator'.state \notin Alive
      BY <2>2 DEF IInv, LastIsTheEnd, Handed
    <3>2. awaiting' = "persist" => mail' = << >> /\ operator'.state \notin Alive
      BY <1>9 DEF Handed, HasFinished
    <3>3. state = "synchronizing" => reply' = NoProgress
      BY DEF Handed
    <3> QED
      BY <1>4, <1>9, <2>1, <3>1, <3>2, <3>3 DEF LastIsTheEnd, Handed
  <2>8. ReadFailures'
    <3>1. state = "synchronizing" /\ armed' => readFailed
      BY <1>9 DEF Handed, HasFinished, FinishedSuccessfully
    <3> QED
      BY <1>6, <1>9, <2>1, <2>2, <3>1 DEF IInv, ReadFailures, Handed
  <2>9. RecordsOK'
    <3>1. RecordOK(progress)' /\ RecordOK(row.progress)'
      BY <1>1, <1>6, <1>9 DEF RecordOK, requiredOperations
    <3>2. kind \in {"update", "delete"} /\ state \in {"resolving", "updating", "deleting"}
             => pr["Read"] # NoProgress \/ readFailed
      BY <1>2, <1>3, <1>4, <2>1, OperationOf DEF IInv, RecordsOK, Before, Operations, cur
    <3>3. kind = "read" /\ state \in {"initializing", "synchronizing"} => pr["none"] = NoProgress
      BY <1>2, <1>3, <1>4, <2>1 DEF IInv, RecordsOK, Operations
    <3>4. kind = "read" /\ awaiting' = "persist" => s = "Success"
      <4>1. kind = "read" => state = "synchronizing"
        BY DEF Handed, Working, IInv, StateFitsKind
      <4>2. cur = "Read" => pr["Read"] = p
        BY <2>1
      <4> QED
        BY <1>1, <1>2, <1>6, <1>9, <3>3, <4>1, <4>2, ReadCounts DEF s
    <3>5. state = "synchronizing" \/ (state = "resolving" /\ kind = "update") =>
             \A op \in DOMAIN pr : op # "Read" => pr[op] = NoProgress
      <4>1. DOMAIN pr = DOMAIN progress /\ DOMAIN pr = Operations \cup {"none"}
        BY <1>1 DEF BoundedRecord, IInv, StrongTypes
      <4> QED
        BY <1>2, <1>3, <1>4, <2>1, <4>1 DEF IInv, RecordsOK, Before
    <3> QED
      BY <1>6, <1>9, <3>1, <3>2, <3>3, <3>4, <3>5 DEF RecordsOK
  <2>10. SuccessDone'
    <3>1. \A i \in DOMAIN mail' : mail'[i].status = "Success" /\ mail'[i].op # "Read"
             => cloud[mail'[i].op] = "done"
      BY <2>2 DEF IInv, SuccessDone
    <3> QED
      BY <1>1, <1>9, <2>1, <3>1 DEF SuccessDone, Handed
  <2>11. SuccessRecorded'
    BY <1>1, <1>4, <1>6, <1>9 DEF SuccessRecorded, Settled, Mutation
  <2>12. AttemptsGrow'
    <3>1. SUFFICES ASSUME state # "synchronizing" PROVE AttemptsGrow'
      BY <1>9 DEF AttemptsGrow
    <3>2. /\ operator.state \in Alive => pr[cur].attempts <= operator.attempts
          /\ \A i \in DOMAIN mail' : mail'[i].op # "none" =>
                mail'[i].op = cur /\ pr[cur].attempts <= mail'[i].attempts
      <4>1. \A i \in DOMAIN mail' : mail'[i].op \in {cur, "none"}
        BY <2>2 DEF IInv, OperationOK, Handed, cur, ResultsOf
      <4>2. cur # "none"
        BY <1>2 DEF Operations
      <4> QED
        BY <2>1, <3>1, <4>1, <4>2 DEF Handed
    <3>3. \A i \in DOMAIN mail' : mail'[i].op # "none" =>
             /\ mail'[i].attempts <= operator.attempts
             /\ \A j \in DOMAIN mail' : i <= j /\ mail'[j].op # "none" =>
                   mail'[i].attempts <= mail'[j].attempts
      <4>1. CASE mail' = mail
        BY <3>1, <4>1 DEF IInv, AttemptsGrow, Handed
      <4>2. CASE mail # << >> /\ mail' = Tail(mail)
        <5>1. \A i \in DOMAIN mail' : i + 1 \in DOMAIN mail /\ mail'[i] = mail[i + 1] /\ i \in Nat
          BY <4>2 DEF IInv, StrongTypes
        <5>2. \A i, j \in DOMAIN mail' : i <= j => i + 1 <= j + 1
          BY <5>1
        <5> QED
          BY <3>1, <5>1, <5>2 DEF IInv, AttemptsGrow, Handed
      <4> QED
        BY <4>1, <4>2 DEF Handed
    <3> QED
      BY <1>9, <2>1, <3>2, <3>3 DEF AttemptsGrow, Handed, cur
  <2>13. NoOrphanedOperator'
    BY <2>1, <2>7 DEF NoOrphanedOperator, LastIsTheEnd
  <2>14. WaitsWithTimeout' /\ EveryMessageHandled' /\ ReportsFinalState' /\ RowAgreesWithReport'
    BY <1>4, <1>9 DEF WaitsWithTimeout, EveryMessageHandled, ReportsFinalState, RowAgreesWithReport
  <2> QED
    BY <2>3, <2>4, <2>5, <2>6, <2>7, <2>8, <2>9, <2>10, <2>11, <2>12, <2>13, <2>14 DEF IInv
<1>10. \/ /\ progress' = pr
          /\ \/ /\ FinishedSuccessfully(p)
                /\ ustate' = s /\ row' = UpdateFromProgress(s, p)
                /\ awaiting' = "persist" /\ armed' = FALSE
                /\ UNCHANGED <<state, report>>
             \/ /\ FinishedSuccessfully(p) /\ kind = "read" /\ <<"Read", "dropped">> \in stored'
                /\ Finish("finished_successfully", "Success", UpdateFromProgress(s, p))
             \/ Failed(p) /\ Finish("finished_with_error", s, UpdateFromProgress(s, p))
             \/ /\ ~HasFinished(p)
                /\ ustate' = s /\ row' = UpdateFromProgress(s, p)
                /\ awaiting' = "nothing" /\ armed' = TRUE
                /\ UNCHANGED <<state, report>>
       \/ progress' \in {progress, pr} /\ Finish("finished_with_error", "Failed", row)
  BY DEF HandleProgress, StateTimeout, pr, s
<1> QED
  BY <1>1, <1>7, <1>8, <1>9, <1>10, <1>11

\* A step that leaves the records alone leaves them in order.
LEMMA RowKept ==
    ASSUME IInv, progress' = progress
    PROVE  RecordsKept(row)
BY DEF IInv, StrongTypes, RecordsOK, SuccessDone, SuccessRecorded, RecordsKept

\* resolve keeps the invariant, when nothing of a Read is left.
LEMMA ResolveKeeps ==
    ASSUME IInv, Kept, Resolve,
           progress' = progress, mail' = mail,
           stored' \in SUBSET Results, stored \subseteq stored',
           mail = << >>, operator.state \notin Alive, reply = NoProgress,
           state \notin Final \cup {"down"}, kind \in {"create", "update"},
           kind = "update" => progress["Read"] # NoProgress \/ readFailed,
           kind = "update" => \A op \in DOMAIN progress : op # "Read" => progress[op] = NoProgress
    PROVE  IInv'
<1>1. CASE remaining > 0
  <2>1. remaining' \in 0 .. Resolvables
    BY <1>1, UpdaterAssumption DEF Resolve, IInv, TypeOK
  <2>2. /\ (state' = "resolving" /\ armed' = TRUE) \/ (state' = "unsent" /\ armed' = FALSE)
        /\ awaiting' = "nothing"
        /\ UNCHANGED <<ustate, row, report, operator, reply>>
    BY <1>1 DEF Resolve, StateTimeout
  <2> QED
    BY <2>1, <2>2, ResolvingKeeps
<1>2. CASE remaining = 0
  <2>1. remaining' = remaining
    BY <1>2 DEF Resolve
  <2>2. CASE kind = "create"
    <3>1. Begin("creating")
      BY <1>2, <2>2 DEF Resolve
    <3> QED
      BY <2>1, <2>2, <3>1, BeginKeeps DEF Working
  <2>3. CASE kind = "update"
    <3>1. Begin("updating")
      BY <1>2, <2>3 DEF Resolve
    <3> QED
      BY <2>1, <2>3, <3>1, BeginKeeps DEF Working
  <2> QED
    BY <2>2, <2>3
<1>3. remaining \in Nat
  BY UpdaterAssumption DEF IInv, TypeOK
<1> QED
  BY <1>1, <1>2, <1>3

\* The result of op is settled.
SettledAs(op, results) ==
    <<op, "kept">> \in results \/ (kind # "delete" /\ <<op, "dropped">> \in results)

\* nextState keeps the invariant, from the beginning and from the end of an
\* operation whose result was persisted.
LEMMA NextStateKeeps ==
    ASSUME IInv, Kept, NextState, progress' = progress, mail' = mail,
           stored' \in SUBSET Results, stored \subseteq stored',
           \/ state = "initializing"
           \/ awaiting = "persist" /\ SettledAs(currentOperation[state], stored')
    PROVE  IInv'
<1>1. /\ mail = << >> /\ operator.state \notin Alive /\ state \notin Final \cup {"down"}
      /\ state \in {"initializing", "synchronizing"} => reply = NoProgress
  BY DEF IInv, LastIsTheEnd, AwaitingOK, Before, Working, Final
<1>2. kind \in {"create", "update", "delete", "read"}
  BY KindsAssumption DEF IInv, TypeOK
<1>3. DOMAIN progress = Operations \cup {"none"} /\ row.progress = progress
  BY <1>1 DEF IInv, StrongTypes, BoundedRecord, RowInStep
<1>4. state = "synchronizing" => awaiting = "persist" /\ progress["Read"] # NoProgress
  BY OperationOf DEF IInv, AwaitingOK, FinishedSuccessfully, NoProgress
<1>5. CASE state = "initializing" /\ kind = "create" /\ Resolve
  BY <1>1, <1>5, ResolveKeeps
<1>6. CASE /\ state = "initializing" /\ kind \in {"update", "delete"} /\ HasProgress
           /\ Begin(IF kind = "update" THEN "updating" ELSE "deleting")
           /\ UNCHANGED remaining
  <2>1. progress["Read"] # NoProgress \/ readFailed
    BY <1>6 DEF HasProgress, Found, IInv, RecordsOK, RecordOK
  <2>2. CASE kind = "update"
    <3>1. Begin("updating")
      BY <1>6, <2>2
    <3> QED
      BY <1>1, <1>6, <2>1, <2>2, <3>1, BeginKeeps DEF Working
  <2>3. CASE kind = "delete"
    <3>1. Begin("deleting")
      BY <1>6, <2>3
    <3> QED
      BY <1>1, <1>6, <2>1, <2>3, <3>1, BeginKeeps DEF Working
  <2> QED
    BY <1>6, <2>2, <2>3
<1>7. CASE /\ state = "initializing" /\ kind # "create" /\ ~HasProgress
           /\ Begin("synchronizing") /\ UNCHANGED remaining
  <2>1. \A op \in DOMAIN progress : op # "Read" => progress[op] = NoProgress
    BY <1>7 DEF HasProgress, Found
  <2>2. progress["none"] = NoProgress
    BY <1>3, <2>1
  <2> QED
    BY <1>1, <1>7, <2>1, <2>2, BeginKeeps DEF Working
<1>8. CASE state = "synchronizing" /\ kind = "delete" /\ Begin("deleting") /\ UNCHANGED remaining
  BY <1>1, <1>4, <1>8, BeginKeeps DEF Working
<1>9. CASE state = "synchronizing" /\ kind = "update" /\ Resolve
  <2>1. \A op \in DOMAIN progress : op # "Read" => progress[op] = NoProgress
    BY <1>9 DEF IInv, RecordsOK
  <2> QED
    BY <1>1, <1>4, <1>9, <2>1, ResolveKeeps
<1>10. CASE /\ \/ state = "synchronizing" /\ kind = "read"
               \/ state \in {"deleting", "creating", "updating"}
            /\ Finish("finished_successfully",
                      IF kind = "read" THEN ustate ELSE "Success", row)
            /\ UNCHANGED <<remaining, operator, reply>>
  <2> DEFINE s == IF kind = "read" THEN ustate ELSE "Success"
  <2>1. awaiting = "persist" /\ Mutation = currentOperation[state]
    BY <1>10, KindOf, OperationOf DEF IInv, StateFitsKind
  <2>2. s = "Success"
    BY <2>1 DEF IInv, RecordsOK
  <2>3. row.progress[Mutation].status = "Success"
    BY <1>3, <2>1 DEF IInv, AwaitingOK, FinishedSuccessfully
  <2>4. RecordsKept(row)
    BY RowKept
  <2>5. /\ "finished_successfully" \in Final /\ s \in UpdateStates /\ s \in Terminal
        /\ Finish("finished_successfully", s, row)
    BY <1>10, <2>2 DEF Final, UpdateStates, Terminal
  <2>6. Settled(stored')
    BY <1>10, <2>1 DEF Settled, SettledAs
  <2> HIDE DEF s
  <2> QED
    BY <1>10, <2>3, <2>4, <2>5, <2>6, FinishKeeps
<1> QED
  BY <1>5, <1>6, <1>7, <1>8, <1>9, <1>10 DEF NextState

-----------------------------------------------------------------------------
(***************************************************************************)
(* The actions of the updater.                                             *)
(***************************************************************************)

\* Initially nothing is under way and nothing recorded.
LEMMA InitIInv == Init => IInv
<1> SUFFICES ASSUME Init PROVE IInv
  OBVIOUS
<1> USE DEF Init, InitOperator
<1>1. NothingRecorded \in BoundedRecord
  BY DEF NothingRecorded, BoundedRecord
<1>2. /\ state \in Before /\ state \notin Working /\ state \notin Final /\ state \in UpdaterStates
      /\ operator.state \notin Alive
  BY DEF Before, Working, Final, UpdaterStates, Alive, NoOperator
<1>3. TypeOK /\ StrongTypes
  <2>1. TypeOK
    <3>1. NothingRecorded \in Recorded /\ NoOperator \in Operators /\ << >> \in Seq(Progress)
      BY <1>1, BoundedTypes
    <3>2. remaining \in 0 .. Resolvables /\ crashes \in 0 .. MaxCrashes
      BY UpdaterAssumption
    <3>3. cloud \in [Operations -> {"idle", "running", "done"}] /\ stored \subseteq Results
      OBVIOUS
    <3>4. row.state \in UpdateStates /\ ustate \in UpdateStates
      BY DEF UpdateStates
    <3> QED
      BY <1>2, <3>1, <3>2, <3>3, <3>4 DEF TypeOK
  <2> QED
    BY <1>1, <2>1, UpdaterAssumption DEF StrongTypes, UpdateStates
<1>4. StateFitsKind /\ AwaitingOK /\ RowInStep /\ AttemptsGrow
  BY <1>2 DEF StateFitsKind, AwaitingOK, RowInStep, AttemptsGrow
<1>5. OperationOK /\ LastIsTheEnd /\ ReadFailures
  BY <1>2 DEF OperationOK, LastIsTheEnd, ReadFailures, NoOperator
<1>6. RecordsOK
  <2>1. RecordOK(NothingRecorded)
    BY DEF RecordOK, NothingRecorded
  <2> QED
    BY <2>1 DEF RecordsOK, NothingRecorded, Operations
<1>7. SuccessDone /\ SuccessRecorded
  BY DEF SuccessDone, SuccessRecorded, NothingRecorded, NoProgress
<1>8. NoOrphanedOperator /\ WaitsWithTimeout /\ EveryMessageHandled /\ ReportsFinalState
      /\ RowAgreesWithReport
  BY DEF NoOrphanedOperator, WaitsWithTimeout, EveryMessageHandled, ReportsFinalState,
      RowAgreesWithReport
<1> QED
  BY <1>3, <1>4, <1>5, <1>6, <1>7, <1>8 DEF IInv

\* The handler of the start keeps the invariant.
LEMMA StartKeeps == ASSUME IInv, Start PROVE IInv'
<1>1. Kept /\ progress' = progress /\ mail' = mail /\ stored' = stored /\ stored \in SUBSET Results
  BY DEF Start, Kept, IInv, TypeOK
<1> QED
  BY <1>1, NextStateKeeps DEF Start

\* The answer of the ResourcePersister keeps the invariant.
LEMMA PersistedKeeps == ASSUME IInv, Persisted PROVE IInv'
<1>1. Kept /\ progress' = progress /\ mail' = mail /\ awaiting = "persist"
  BY DEF Persisted, Kept
<1>2. /\ stored \subseteq Results
      /\ \A r \in {"kept", "dropped"} : <<currentOperation[state], r>> \in Results
  BY <1>1, OperationOf DEF IInv, AwaitingOK, TypeOK, Results
<1>3. RecordsKept(row)
  BY <1>1, RowKept
<1>4. ASSUME NEW r \in {"kept", "dropped"}, r = "dropped" => kind # "delete",
             stored' = stored \cup {<<currentOperation[state], r>>}, NextState
      PROVE  IInv'
  <2>1. SettledAs(currentOperation[state], stored')
    BY <1>4 DEF SettledAs
  <2> QED
    BY <1>1, <1>2, <1>4, <2>1, NextStateKeeps
<1>5. ASSUME NEW f \in {"rejected", "finished_with_error"}, NEW s \in {"Rejected", "Failed"},
             Finish(f, s, row), UNCHANGED <<remaining, operator, reply>>,
             stored' = stored \/ \E r \in {"kept", "dropped"} :
                                   stored' = stored \cup {<<currentOperation[state], r>>}
      PROVE  IInv'
  <2>1. f \in Final /\ s \in UpdateStates /\ s \in Terminal /\ s # "Success"
    BY DEF Final, UpdateStates, Terminal
  <2> QED
    BY <1>1, <1>2, <1>3, <1>5, <2>1, FinishKeeps
<1> QED
  BY <1>4, <1>5 DEF Persisted

\* The answer, or the progress of an earlier run, is what the updater may take
\* it for.
LEMMA ReplyIsHanded == ASSUME IInv, ReplyArrives PROVE Handed(reply)
<1> DEFINE cur == currentOperation[state]
<1>1. /\ \/ awaiting \in {"start", "resume"} /\ operator.state # "not_started"
            /\ (awaiting = "resume" => HasFinished(reply))
         \/ awaiting = "recovered"
      /\ reply' = NoProgress
      /\ UNCHANGED <<operator, mail, cloud, readFailed>>
  BY DEF ReplyArrives
<1>2. state \in Working /\ cur \in Operations /\ (cur = "Read" <=> state = "synchronizing")
  BY <1>1, OperationOf DEF IInv, AwaitingOK
<1>3. CASE awaiting \in {"start", "resume"}
  <2>1. reply \in ResultsOf(cur)
    BY <1>1, <1>3 DEF IInv, OperationOK, AwaitingOK, HasFinished, FinishedSuccessfully, Failed
  <2>2. state = "synchronizing" /\ reply.status # "Success" => readFailed
    <3>1. reply.status \in {"Success", "Failure", "InProgress"}
      BY <2>1 DEF ResultsOf, Bounded
    <3> QED
      BY <1>3, <3>1 DEF IInv, ReadFailures, AwaitingOK
  <2>3. HasFinished(reply) => mail' = << >> /\ operator.state \notin Alive
    BY <1>1, <1>3 DEF IInv, LastIsTheEnd
  <2>4. reply.status = "Success" /\ reply.op # "Read" => cloud[reply.op] = "done"
    BY <1>3 DEF IInv, SuccessDone
  <2>5. state # "synchronizing" /\ reply.op # "none" =>
          /\ progress[reply.op].attempts <= reply.attempts
          /\ operator.state \in Alive => reply.attempts <= operator.attempts
          /\ \A i \in DOMAIN mail' : mail'[i].op # "none" => reply.attempts <= mail'[i].attempts
    BY <1>1, <1>2, <1>3 DEF IInv, AttemptsGrow
  <2> QED
    BY <1>1, <1>2, <1>3, <2>1, <2>2, <2>3, <2>4, <2>5 DEF Handed
<1>4. CASE awaiting = "recovered"
  <2>1. /\ reply = progress[cur] /\ HasFinished(reply) /\ state # "synchronizing" /\ mail = << >>
        /\ operator.state \notin Alive
    BY <1>4 DEF IInv, AwaitingOK, LastIsTheEnd
  <2>2. reply # NoProgress
    BY <2>1 DEF HasFinished, FinishedSuccessfully, Failed, NoProgress
  <2>3. reply \in Bounded /\ reply.op = cur /\ reply.status # "none" /\ cur # "none"
    BY <1>2, <2>1, <2>2 DEF IInv, RecordsOK, RecordOK, StrongTypes, Operations
  <2>4. reply \in ResultsOf(cur)
    BY <2>3 DEF ResultsOf
  <2>5. reply.status = "Success" /\ reply.op # "Read" => cloud[reply.op] = "done"
    BY <1>2, <2>1, <2>3 DEF IInv, SuccessDone
  <2>6. progress[reply.op].attempts <= reply.attempts
    <3>1. reply.attempts \in Int
      BY <2>3, RetryAssumption DEF Bounded, MaxAttempts
    <3> QED
      BY <2>1, <2>3, <3>1
  <2>7. DOMAIN mail' = {} /\ operator.state # "not_started"
    BY <1>1, <2>1 DEF Alive
  <2> QED
    BY <1>1, <1>2, <2>1, <2>4, <2>5, <2>6, <2>7 DEF Handed
<1> QED
  BY <1>1, <1>3, <1>4

\* The answer of the operator keeps the invariant.
LEMMA ReplyArrivesKeeps == ASSUME IInv, ReplyArrives PROVE IInv'
BY ReplyIsHanded, HandleProgressKeeps DEF ReplyArrives

\* What a step may change without touching the records.
Quiet == UNCHANGED <<kind, callErrors, progress, row, stored, cloud, readFailed>>

\* Such a step keeps the records sound.
LEMMA QuietRecords ==
    ASSUME IInv, Quiet
    PROVE  (RecordOK(progress) /\ RecordOK(row.progress))'
BY DEF IInv, RecordsOK, RecordOK, Quiet, requiredOperations

\* An operator that still runs keeps the invariant when it is asked.
LEMMA StillRunningKeeps == ASSUME IInv, StillRunning PROVE IInv'
<1> USE DEF StillRunning, StateTimeout
<1>1. /\ state \in Working /\ state # "synchronizing" /\ report = "none"
      /\ state \notin Final /\ state \notin Before
  BY DEF IInv, AwaitingOK, Working, Final, Before
<1>2. TypeOK' /\ StrongTypes'
  BY DEF IInv, TypeOK, StrongTypes
<1>3. StateFitsKind' /\ RowInStep' /\ AwaitingOK'
  BY <1>1 DEF IInv, StateFitsKind, RowInStep, AwaitingOK
<1>4. OperationOK' /\ ReadFailures'
  BY <1>1 DEF IInv, OperationOK, ReadFailures
<1>5. LastIsTheEnd'
  BY <1>1 DEF IInv, LastIsTheEnd
<1>6. RecordsOK'
  BY <1>1, QuietRecords DEF IInv, RecordsOK, Quiet
<1>7. SuccessDone' /\ SuccessRecorded'
  BY DEF IInv, SuccessDone, SuccessRecorded, Settled, Mutation
<1>8. AttemptsGrow'
  BY DEF IInv, AttemptsGrow
<1>9. NoOrphanedOperator'
  BY <1>5 DEF NoOrphanedOperator, LastIsTheEnd
<1>10. WaitsWithTimeout' /\ EveryMessageHandled' /\ ReportsFinalState' /\ RowAgreesWithReport'
  BY <1>1 DEF IInv, WaitsWithTimeout, EveryMessageHandled, ReportsFinalState, RowAgreesWithReport
<1> QED
  BY <1>2, <1>3, <1>4, <1>5, <1>6, <1>7, <1>8, <1>9, <1>10 DEF IInv

\* A call that fails keeps the invariant.
LEMMA CallFailsKeeps == ASSUME IInv, CallFails PROVE IInv'
<1>1. /\ state \in Working /\ report = "none" /\ state \notin Final /\ state \notin Before
      /\ awaiting \in {"start", "resume"} /\ callErrors
  BY DEF CallFails, IInv, AwaitingOK, Working, Final, Before
<1>2. CASE Finish("finished_with_error", "Failed", row)
  <2>1. RecordsKept(row)
    BY RowKept DEF CallFails
  <2>2. "finished_with_error" \in Final /\ "Failed" \in UpdateStates /\ "Failed" \in Terminal
    BY DEF Final, UpdateStates, Terminal
  <2>3. /\ Kept /\ operator' \in {operator, NoOperator} /\ reply' = reply /\ mail' = mail
        /\ stored' = stored /\ stored \in SUBSET Results /\ remaining' = remaining
    BY DEF CallFails, Kept, IInv, TypeOK
  <2> QED
    BY <1>2, <2>1, <2>2, <2>3, FinishKeeps
<1>3. CASE /\ state = "deleting" /\ awaiting = "start" /\ awaiting' = "nothing"
           /\ UNCHANGED <<state, ustate, row, report, armed>>
  <2> USE <1>3
  <2>1. /\ Quiet /\ UNCHANGED <<remaining, crashes, reply, mail>>
        /\ \/ operator' = operator
           \/ operator.state = "not_started" /\ operator' = NoOperator /\ operator'.state \notin Alive
              /\ operator'.state = "none" /\ operator'.op = "Read" /\ operator'.request = "start"
    BY DEF CallFails, Quiet, NoOperator, Alive
  <2> USE DEF Quiet
  <2>2. TypeOK' /\ StrongTypes'
    <3>1. operator' \in Operators
      BY BoundedTypes DEF CallFails, IInv, TypeOK
    <3> QED
      BY <2>1, <3>1 DEF IInv, TypeOK, StrongTypes
  <2>3. StateFitsKind' /\ RowInStep' /\ AwaitingOK'
    BY <1>1, <2>1 DEF IInv, StateFitsKind, RowInStep, AwaitingOK
  <2>4. OperationOK' /\ ReadFailures'
    BY <1>1, <2>1 DEF IInv, OperationOK, ReadFailures
  <2>5. LastIsTheEnd'
    BY <1>1, <2>1 DEF IInv, LastIsTheEnd
  <2>6. RecordsOK'
    BY <1>1, <2>1, QuietRecords DEF IInv, RecordsOK
  <2>7. SuccessDone' /\ SuccessRecorded'
    BY <2>1 DEF IInv, SuccessDone, SuccessRecorded, Settled, Mutation
  <2>8. AttemptsGrow'
    <3>1. operator' = operator \/ (DOMAIN mail' = {} /\ operator'.state \notin Alive)
      BY <2>1 DEF IInv, LastIsTheEnd
    <3> QED
      BY <2>1, <3>1 DEF IInv, AttemptsGrow
  <2>9. NoOrphanedOperator'
    BY <2>5 DEF NoOrphanedOperator, LastIsTheEnd
  <2>10. WaitsWithTimeout' /\ EveryMessageHandled' /\ ReportsFinalState' /\ RowAgreesWithReport'
    BY <1>1, <2>1 DEF IInv, WaitsWithTimeout, EveryMessageHandled, ReportsFinalState,
        RowAgreesWithReport
  <2> QED
    BY <2>2, <2>3, <2>4, <2>5, <2>6, <2>7, <2>8, <2>9, <2>10 DEF IInv
<1> QED
  BY <1>2, <1>3 DEF CallFails

\* An updater that is ended by a message or a timeout it has no handler for.
LEMMA TerminatedKeeps ==
    ASSUME IInv, Quiet, UNCHANGED <<ustate, remaining, awaiting, report, crashes, operator, reply>>,
           awaiting = "nothing", armed' = FALSE,
           mail' = mail \/ (mail # << >> /\ mail' = Tail(mail)),
           \/ state' = state /\ state \in Final
           \/ /\ state' = "terminated" /\ readFailed
              /\ state \notin Final /\ state \notin Before
    PROVE  IInv'
<1> USE DEF Quiet
<1>1. state' \notin Working /\ state' \notin Before /\ state' \in UpdaterStates
  BY DEF Final, Working, Before, UpdaterStates
<1>2. /\ mail' \in Seq(Bounded)
      /\ \A i \in DOMAIN mail' : \E j \in DOMAIN mail : /\ mail'[i] = mail[j]
                                                        /\ j = Len(mail) => i = Len(mail')
      /\ mail = << >> => mail' = << >>
  BY ShorterMail DEF IInv, StrongTypes
<1>3. TypeOK' /\ StrongTypes'
  BY <1>1, <1>2, BoundedTypes DEF IInv, TypeOK, StrongTypes
<1>4. StateFitsKind' /\ RowInStep' /\ AwaitingOK'
  BY <1>1 DEF IInv, StateFitsKind, RowInStep, AwaitingOK, Working, Before, Final
<1>5. OperationOK' /\ ReadFailures'
  BY <1>1 DEF IInv, OperationOK, ReadFailures, Working
<1>6. LastIsTheEnd'
  <2>1. \A i \in DOMAIN mail' : HasFinished(mail'[i]) => i = Len(mail') /\ operator'.state \notin Alive
    BY <1>2 DEF IInv, LastIsTheEnd
  <2> QED
    BY <1>1, <1>2, <2>1 DEF IInv, LastIsTheEnd, Working
<1>7. RecordsOK'
  BY <1>1, QuietRecords DEF IInv, RecordsOK, Working, Before
<1>8. SuccessDone' /\ SuccessRecorded'
  BY <1>2 DEF IInv, SuccessDone, SuccessRecorded, Settled, Mutation
<1>9. AttemptsGrow'
  BY <1>1 DEF AttemptsGrow
<1>10. NoOrphanedOperator'
  BY <1>6 DEF NoOrphanedOperator, LastIsTheEnd
<1>11. WaitsWithTimeout' /\ EveryMessageHandled' /\ ReportsFinalState' /\ RowAgreesWithReport'
  BY <1>1 DEF IInv, WaitsWithTimeout, EveryMessageHandled, ReportsFinalState, RowAgreesWithReport,
      Working, Before, Final
<1> QED
  BY <1>3, <1>4, <1>5, <1>6, <1>7, <1>8, <1>9, <1>10, <1>11 DEF IInv

\* The first message is what the updater may take it for.
LEMMA MessageIsHanded ==
    ASSUME IInv, ProgressArrives, state \in {"creating", "updating", "deleting"}
    PROVE  Handed(Head(mail))
<1>1. /\ mail # << >> /\ awaiting = "nothing" /\ mail' = Tail(mail)
      /\ UNCHANGED <<operator, reply, cloud, readFailed>>
  BY DEF ProgressArrives
<1>2. /\ Head(mail) = mail[1] /\ 1 \in DOMAIN mail /\ Len(mail) \in Nat
      /\ Len(mail) = 1 => mail' = << >>
      /\ \A i \in DOMAIN mail' : i + 1 \in DOMAIN mail /\ mail'[i] = mail[i + 1] /\ 1 <= i + 1
  BY <1>1 DEF IInv, StrongTypes
<1>3. state \in Working /\ state # "synchronizing"
  BY DEF Working
<1>4. operator.state # "not_started"
  BY <1>1 DEF IInv, LastIsTheEnd
<1>5. Head(mail) \in ResultsOf(currentOperation[state])
  BY <1>2, <1>3 DEF IInv, OperationOK
<1>6. HasFinished(Head(mail)) => mail' = << >> /\ operator.state \notin Alive
  BY <1>2 DEF IInv, LastIsTheEnd
<1>7. Head(mail).status = "Success" /\ Head(mail).op # "Read" => cloud[Head(mail).op] = "done"
  BY <1>2 DEF IInv, SuccessDone
<1>8. Head(mail).op # "none" =>
        /\ progress[Head(mail).op].attempts <= Head(mail).attempts
        /\ Head(mail).attempts <= operator.attempts
        /\ \A i \in DOMAIN mail' : mail'[i].op # "none" => Head(mail).attempts <= mail'[i].attempts
  BY <1>2, <1>3 DEF IInv, AttemptsGrow
<1> QED
  BY <1>1, <1>3, <1>4, <1>5, <1>6, <1>7, <1>8 DEF Handed

\* A progress message keeps the invariant.
LEMMA ProgressArrivesKeeps == ASSUME IInv, ProgressArrives PROVE IInv'
<1>1. /\ mail # << >> /\ awaiting = "nothing" /\ mail' = Tail(mail)
      /\ UNCHANGED <<operator, reply, cloud, readFailed>>
  BY DEF ProgressArrives
<1>2. CASE state \in {"creating", "updating", "deleting"} /\ HandleProgress(Head(mail))
  BY <1>1, <1>2, MessageIsHanded, HandleProgressKeeps
<1>3. CASE /\ state \notin {"creating", "updating", "deleting"}
           /\ state' = IF state \in Final THEN state ELSE "terminated"
           /\ armed' = FALSE
           /\ UNCHANGED <<kind, callErrors, ustate, progress, remaining, awaiting, row, report,
                          stored, crashes>>
  <2>1. state \notin Before
    BY <1>1 DEF IInv, LastIsTheEnd
  <2>2. state \notin Final => readFailed
    BY <1>1, <1>3, <2>1, OperationOf DEF IInv, TypeOK, UpdaterStates, Working, Before, ReadFailures,
        EveryMessageHandled
  <2> QED
    BY <1>1, <1>3, <2>1, <2>2, TerminatedKeeps DEF Quiet
<1> QED
  BY <1>2, <1>3 DEF ProgressArrives

\* A value that is resolved keeps the invariant.
LEMMA ValueResolvedKeeps == ASSUME IInv, ValueResolved PROVE IInv'
<1>1. /\ Kept /\ progress' = progress /\ mail' = mail /\ stored' = stored
      /\ stored \in SUBSET Results /\ state = "resolving"
  BY DEF ValueResolved, Kept, IInv, TypeOK
<1>2. CASE Resolve
  <2>1. /\ mail = << >> /\ operator.state \notin Alive /\ reply = NoProgress
        /\ state \notin Final \cup {"down"} /\ kind \in {"create", "update"}
        /\ kind = "update" => progress["Read"] # NoProgress \/ readFailed
        /\ kind = "update" => \A op \in DOMAIN progress : op # "Read" => progress[op] = NoProgress
    BY <1>1 DEF IInv, LastIsTheEnd, Before, Final, StateFitsKind, RecordsOK
  <2> QED
    BY <1>1, <1>2, <2>1, ResolveKeeps
<1>3. CASE Finish("finished_with_error", "Failed", row) /\ UNCHANGED <<remaining, operator, reply>>
  <2>1. "finished_with_error" \in Final /\ "Failed" \in UpdateStates /\ "Failed" \in Terminal
    BY DEF Final, UpdateStates, Terminal
  <2> QED
    BY <1>1, <1>3, <2>1, RowKept, FinishKeeps
<1> QED
  BY <1>2, <1>3 DEF ValueResolved

\* The state timeout keeps the invariant.
LEMMA TimeoutKeeps == ASSUME IInv, Timeout PROVE IInv'
<1>1. /\ Kept /\ progress' = progress /\ mail' = mail /\ stored' = stored /\ remaining' = remaining
      /\ stored \in SUBSET Results /\ operator' = operator /\ reply' = reply
      /\ armed /\ awaiting = "nothing"
  BY DEF Timeout, Kept, IInv, TypeOK, operatorVars
<1>2. CASE Finish("finished_with_error", "Failed", row)
  <2>1. "finished_with_error" \in Final /\ "Failed" \in UpdateStates /\ "Failed" \in Terminal
    BY DEF Final, UpdateStates, Terminal
  <2> QED
    BY <1>1, <1>2, <2>1, RowKept, FinishKeeps
<1>3. CASE /\ state = "synchronizing" /\ state' = "terminated" /\ armed' = FALSE
           /\ UNCHANGED <<ustate, row, report, awaiting>>
  <2>1. state \notin Final /\ state \notin Before /\ readFailed
    BY <1>1, <1>3 DEF IInv, ReadFailures, Final, Before
  <2> QED
    BY <1>1, <1>3, <2>1, TerminatedKeeps DEF Quiet, Kept
<1> QED
  BY <1>2, <1>3 DEF Timeout

\* A crash keeps the invariant: the row and the cloud are left as they are.
LEMMA CrashKeeps == ASSUME IInv, Crash PROVE IInv'
<1> USE DEF Crash
<1>1. NothingRecorded \in BoundedRecord /\ RecordOK(NothingRecorded)'
  BY DEF NothingRecorded, BoundedRecord, RecordOK
<1>2. /\ "down" \in Before /\ "down" \notin Working /\ "down" \notin Final /\ "down" \in UpdaterStates
      /\ NoOperator.state \notin Alive
  BY DEF Before, Working, Final, UpdaterStates, Alive, NoOperator
<1>3. TypeOK' /\ StrongTypes'
  <2>1. NothingRecorded \in Recorded /\ NoOperator \in Operators /\ << >> \in Seq(Progress)
    BY <1>1, BoundedTypes
  <2>2. remaining' \in 0 .. Resolvables /\ crashes' \in 0 .. MaxCrashes
    BY UpdaterAssumption DEF IInv, TypeOK
  <2>3. ustate' \in UpdateStates
    BY DEF UpdateStates
  <2>4. TypeOK'
    BY <1>2, <2>1, <2>2, <2>3 DEF IInv, TypeOK
  <2>5. StrongTypes'
    BY <1>1 DEF IInv, StrongTypes
  <2> QED
    BY <2>4, <2>5
<1>4. StateFitsKind' /\ AwaitingOK' /\ RowInStep' /\ AttemptsGrow'
  BY <1>2 DEF StateFitsKind, AwaitingOK, RowInStep, AttemptsGrow
<1>5. OperationOK' /\ LastIsTheEnd' /\ ReadFailures'
  BY <1>2 DEF OperationOK, LastIsTheEnd, ReadFailures, NoOperator
<1>6. RecordsOK'
  <2>1. RecordOK(row.progress)'
    BY DEF IInv, RecordsOK, RecordOK, requiredOperations
  <2> QED
    BY <1>1, <2>1 DEF RecordsOK
<1>7. SuccessDone' /\ SuccessRecorded'
  BY <1>2 DEF IInv, SuccessDone, SuccessRecorded, NothingRecorded, NoProgress, Mutation
<1>8. NoOrphanedOperator' /\ WaitsWithTimeout' /\ EveryMessageHandled' /\ ReportsFinalState'
      /\ RowAgreesWithReport'
  BY DEF NoOrphanedOperator, WaitsWithTimeout, EveryMessageHandled, ReportsFinalState,
      RowAgreesWithReport
<1> QED
  BY <1>3, <1>4, <1>5, <1>6, <1>7, <1>8 DEF IInv

\* A rerun, which starts from the row, keeps the invariant.
LEMMA ReRunKeeps == ASSUME IInv, ReRun PROVE IInv'
<1> USE DEF ReRun, operatorVars
<1>1. /\ mail = << >> /\ operator.state \notin Alive /\ reply = NoProgress /\ report = "none"
      /\ awaiting = "nothing" /\ ~armed
  BY DEF IInv, LastIsTheEnd, AwaitingOK, Before, Working, Final, TypeOK
<1>2. /\ "initializing" \in Before /\ "initializing" \notin Working /\ "initializing" \notin Final
      /\ "initializing" \in UpdaterStates
  BY DEF Before, Working, Final, UpdaterStates
<1>3. TypeOK' /\ StrongTypes'
  BY <1>2, UpdaterAssumption DEF IInv, TypeOK, StrongTypes
<1>4. StateFitsKind' /\ AwaitingOK' /\ RowInStep' /\ AttemptsGrow'
  BY <1>1, <1>2 DEF StateFitsKind, AwaitingOK, RowInStep, AttemptsGrow
<1>5. OperationOK' /\ LastIsTheEnd' /\ ReadFailures'
  BY <1>1, <1>2 DEF IInv, OperationOK, LastIsTheEnd, ReadFailures, Alive
<1>6. RecordsOK'
  <2>1. RecordOK(row.progress)'
    BY DEF IInv, RecordsOK, RecordOK, requiredOperations
  <2> QED
    BY <1>1, <2>1 DEF RecordsOK
<1>7. SuccessDone' /\ SuccessRecorded'
  BY <1>1 DEF IInv, SuccessDone, SuccessRecorded, Settled, Mutation
<1>8. NoOrphanedOperator' /\ WaitsWithTimeout' /\ EveryMessageHandled' /\ ReportsFinalState'
      /\ RowAgreesWithReport'
  BY <1>1 DEF NoOrphanedOperator, WaitsWithTimeout, EveryMessageHandled, ReportsFinalState,
      RowAgreesWithReport
<1> QED
  BY <1>3, <1>4, <1>5, <1>6, <1>7, <1>8 DEF IInv

-----------------------------------------------------------------------------
(***************************************************************************)
(* The actions of the operator.                                            *)
(***************************************************************************)

\* The operator moves on to state x with its n-th attempt; only its own
\* operation changes in the cloud, and a failed Read stays known.
Moved(x, n) ==
    /\ UNCHANGED updaterVars
    /\ operator.state \in Alive
    /\ operator' = [operator EXCEPT !.state = x, !.attempts = n]
    /\ x \in Alive \cup {"finished_successfully", "finished_with_error"} /\ x # "not_started"
    /\ n \in 0 .. MaxAttempts + 1 /\ operator.attempts <= n
    /\ x = "retrying" => n <= MaxAttempts
    /\ operator.op = "Read" => x # "waiting_for_resource" /\ (x = "retrying" => readFailed')
    /\ cloud' \in [Operations -> {"idle", "running", "done"}]
    /\ \A op \in Operations : op # operator.op => cloud'[op] = cloud[op]
    /\ readFailed' \in BOOLEAN /\ (readFailed => readFailed')

\* What a step of the operator leaves in order.
LEMMA MovedKeeps ==
    ASSUME IInv, NEW x, NEW n, Moved(x, n)
    PROVE  /\ operator' \in Operators /\ operator'.op = operator.op
           /\ operator'.request = operator.request /\ operator'.state = x /\ operator'.attempts = n
           /\ operator.op \in Operations /\ operator.attempts \in Int /\ n \in Int
           /\ StateFitsKind' /\ AwaitingOK' /\ RowInStep' /\ RecordsOK' /\ SuccessRecorded'
           /\ WaitsWithTimeout' /\ EveryMessageHandled' /\ ReportsFinalState' /\ RowAgreesWithReport'
           /\ awaiting \notin {"persist", "recovered"} /\ state \notin Before
           /\ \A op \in Operations \ {"Read"} :
                 "Success" \in {progress'[op].status, row'.progress[op].status} =>
                     cloud'[op] = "done" /\ ~(operator'.state \in Alive /\ operator'.op = op)
           /\ \A i \in DOMAIN mail : ~HasFinished(mail[i])
           /\ awaiting \in {"start", "resume"} => ~HasFinished(reply)
<1> USE DEF updaterVars
<1>1. /\ operator' \in Operators /\ operator'.op = operator.op
      /\ operator'.request = operator.request /\ operator'.state = x /\ operator'.attempts = n
      /\ operator.op \in Operations /\ operator.attempts \in Int /\ n \in Int
  <2>1. operator \in Operators /\ MaxAttempts \in Nat
    BY RetryAssumption DEF IInv, TypeOK, MaxAttempts
  <2>2. operator' = [operator EXCEPT !.state = x, !.attempts = n] /\ n \in 0 .. MaxAttempts + 1
        /\ x \in Alive \cup {"none", "finished_successfully", "finished_with_error"}
    BY DEF Moved
  <2>3. operator.op \in Operations /\ operator.attempts \in Int /\ n \in Int
    BY <2>1, <2>2 DEF Operators
  <2>4. /\ operator'.op = operator.op /\ operator'.request = operator.request
        /\ operator'.state = x /\ operator'.attempts = n
    BY <2>1, <2>2 DEF Operators
  <2>5. operator' \in Operators
    BY <2>1, <2>2 DEF Operators
  <2> QED
    BY <2>3, <2>4, <2>5
<1>2. /\ awaiting \notin {"persist", "recovered"} /\ state \notin Before
      /\ \A i \in DOMAIN mail : ~HasFinished(mail[i])
      /\ awaiting \in {"start", "resume"} => ~HasFinished(reply)
  BY DEF IInv, LastIsTheEnd, Moved
<1>3. StateFitsKind' /\ RowInStep' /\ SuccessRecorded'
  BY DEF Moved, IInv, StateFitsKind, RowInStep, SuccessRecorded, Settled, Mutation
<1>4. AwaitingOK'
  <2>1. x # "none"
    BY DEF Moved, Alive
  <2> QED
    BY <1>1, <1>2, <2>1 DEF Moved, IInv, AwaitingOK
<1>5. RecordsOK'
  <2>1. (RecordOK(progress) /\ RecordOK(row.progress))'
    BY DEF Moved, IInv, RecordsOK, RecordOK, requiredOperations
  <2> QED
    BY <2>1 DEF Moved, IInv, RecordsOK
<1>6. WaitsWithTimeout' /\ EveryMessageHandled' /\ ReportsFinalState' /\ RowAgreesWithReport'
  BY DEF Moved, IInv, WaitsWithTimeout, EveryMessageHandled, ReportsFinalState, RowAgreesWithReport
<1>7. \A op \in Operations \ {"Read"} :
         "Success" \in {progress'[op].status, row'.progress[op].status} =>
             cloud'[op] = "done" /\ ~(operator'.state \in Alive /\ operator'.op = op)
  BY <1>1 DEF Moved, IInv, SuccessDone
<1> QED
  BY <1>1, <1>2, <1>3, <1>4, <1>5, <1>6, <1>7

\* The operator answers the call with p.
LEMMA AnsweredKeeps ==
    ASSUME IInv, NEW p \in Bounded, Moved(StateAfter(p), operator.attempts),
           operator.state = "not_started", reply' = p, mail' = mail,
           \/ p \in ResultsOf(operator.op)
           \/ operator.request = "resume" /\ p.status = "none" /\ p.op = "none",
           p.op # "none" => p.attempts = operator.attempts,
           p.status = "Success" /\ p.op # "Read" => cloud'[p.op] = "done",
           operator.op = "Read" /\ p.status \in {"Failure", "InProgress"} => readFailed'
    PROVE  IInv'
<1> DEFINE x == StateAfter(p)
           n == operator.attempts
<1>1. Moved(x, n)
  OBVIOUS
<1> HIDE DEF x, n
<1>2. /\ operator' \in Operators /\ operator'.op = operator.op
      /\ operator'.request = operator.request /\ operator'.state = x /\ operator'.attempts = n
      /\ operator.op \in Operations /\ operator.attempts \in Int /\ n \in Int
      /\ StateFitsKind' /\ AwaitingOK' /\ RowInStep' /\ RecordsOK' /\ SuccessRecorded'
      /\ WaitsWithTimeout' /\ EveryMessageHandled' /\ ReportsFinalState' /\ RowAgreesWithReport'
      /\ awaiting \notin {"persist", "recovered"} /\ state \notin Before
      /\ \A op \in Operations \ {"Read"} :
            "Success" \in {progress'[op].status, row'.progress[op].status} =>
                cloud'[op] = "done" /\ ~(operator'.state \in Alive /\ operator'.op = op)
  BY <1>1, MovedKeeps
<1>3. mail = << >> /\ DOMAIN mail' = {} /\ UNCHANGED updaterVars
  BY <1>1 DEF IInv, LastIsTheEnd, Moved
<1>4. HasFinished(p) => x \notin Alive
  BY StateAfterEnd DEF x
<1> USE DEF updaterVars
<1>5. TypeOK' /\ StrongTypes'
  BY <1>1, <1>2, <1>3, BoundedTypes DEF IInv, TypeOK, StrongTypes, Moved
<1>6. OperationOK'
  <2>1. awaiting \in {"start", "resume"} => operator.request = awaiting
    BY DEF IInv, AwaitingOK
  <2>2. /\ operator'.op = "Read" => operator'.state # "waiting_for_resource" /\ operator'.request = "start"
        /\ operator'.state = "retrying" => operator'.attempts <= MaxAttempts
        /\ operator'.state # "not_started"
    BY <1>1, <1>2 DEF IInv, OperationOK, Moved
  <2>3. state \in Working => operator.op = currentOperation[state]
    BY <1>1 DEF IInv, OperationOK, Moved
  <2> QED
    BY <1>2, <1>3, <2>1, <2>2, <2>3 DEF OperationOK
<1>7. LastIsTheEnd'
  BY <1>1, <1>2, <1>3, <1>4 DEF LastIsTheEnd, Moved
<1>8. ReadFailures'
  <2>1. state = "synchronizing" => operator.op = "Read"
    BY <1>1, OperationOf DEF IInv, OperationOK, Working, Moved
  <2> QED
    BY <1>1, <1>2, <1>3, <2>1 DEF IInv, ReadFailures, Moved
<1>9. SuccessDone'
  BY <1>2, <1>3 DEF SuccessDone
<1>10. AttemptsGrow'
  <2>1. state \in Working => operator.op = currentOperation[state]
    BY <1>1 DEF IInv, OperationOK, Moved
  <2>2. state \in Working /\ p.op # "none" => p.op = operator.op
    BY DEF ResultsOf
  <2>3. state \in Working \ {"synchronizing"} => progress[operator.op].attempts <= n
    BY <1>1, <2>1 DEF IInv, AttemptsGrow, Moved, n
  <2> QED
    BY <1>2, <1>3, <2>1, <2>2, <2>3 DEF AttemptsGrow, n
<1>11. NoOrphanedOperator'
  BY <1>2, <1>3, <1>4 DEF NoOrphanedOperator
<1> QED
  BY <1>2, <1>5, <1>6, <1>7, <1>8, <1>9, <1>10, <1>11 DEF IInv

\* The operator sends p, or gives up without a word.
LEMMA SentKeeps ==
    ASSUME IInv, NEW p \in Bounded, NEW x, NEW n, Moved(x, n),
           operator.state # "not_started", reply' = reply,
           \/ mail' = mail /\ x = "finished_with_error"
           \/ mail' = Append(mail, p) /\ x = StateAfter(p),
           mail' # mail =>
              /\ p \in ResultsOf(operator.op)
              /\ p.op # "none" => p.attempts = n
              /\ p.status = "Success" /\ p.op # "Read" => cloud'[p.op] = "done"
              /\ operator.op = "Read" => readFailed'
    PROVE  IInv'
<1>1. /\ operator' \in Operators /\ operator'.op = operator.op
      /\ operator'.request = operator.request /\ operator'.state = x /\ operator'.attempts = n
      /\ operator.op \in Operations /\ operator.attempts \in Int /\ n \in Int
      /\ StateFitsKind' /\ AwaitingOK' /\ RowInStep' /\ RecordsOK' /\ SuccessRecorded'
      /\ WaitsWithTimeout' /\ EveryMessageHandled' /\ ReportsFinalState' /\ RowAgreesWithReport'
      /\ awaiting \notin {"persist", "recovered"} /\ state \notin Before
      /\ \A op \in Operations \ {"Read"} :
            "Success" \in {progress'[op].status, row'.progress[op].status} =>
                cloud'[op] = "done" /\ ~(operator'.state \in Alive /\ operator'.op = op)
      /\ \A i \in DOMAIN mail : ~HasFinished(mail[i])
      /\ awaiting \in {"start", "resume"} => ~HasFinished(reply)
  BY MovedKeeps
<1>2. UNCHANGED updaterVars
  BY DEF Moved
<1>3. /\ mail' \in Seq(Bounded) /\ Len(mail') \in Nat
      /\ \A i \in DOMAIN mail' : i \in 1 .. Len(mail')
      /\ \A i \in DOMAIN mail' : \/ i \in DOMAIN mail /\ mail'[i] = mail[i]
                                 \/ i = Len(mail') /\ mail'[i] = p /\ mail' # mail
  <2>1. mail \in Seq(Bounded)
    BY DEF IInv, StrongTypes
  <2>2. CASE mail' = mail
    BY <2>1, <2>2
  <2>3. CASE mail' = Append(mail, p)
    <3>1. Len(mail') = Len(mail) + 1 /\ Len(mail) \in Nat /\ mail' \in Seq(Bounded)
      BY <2>1, <2>3
    <3>2. mail' # mail
      BY <3>1
    <3>3. \A i \in DOMAIN mail' : \/ i \in DOMAIN mail /\ mail'[i] = mail[i]
                                  \/ i = Len(mail') /\ mail'[i] = p
      BY <2>1, <2>3
    <3> QED
      BY <2>1, <3>1, <3>2, <3>3
  <2> QED
    BY <2>2, <2>3
<1>4. mail' # mail => (HasFinished(p) => x \notin Alive)
  BY StateAfterEnd
<1>5. state \in Working => operator.op = currentOperation[state]
  BY DEF IInv, OperationOK, Moved
<1> USE DEF updaterVars
<1>6. TypeOK' /\ StrongTypes'
  <2>1. mail' \in Seq(Progress)
    BY <1>3, BoundedTypes
  <2> QED
    BY <1>1, <1>2, <1>3, <2>1 DEF IInv, TypeOK, StrongTypes, Moved
<1>7. OperationOK'
  <2>1. /\ operator'.op = "Read" => operator'.state # "waiting_for_resource" /\ operator'.request = "start"
        /\ operator'.state = "retrying" => operator'.attempts <= MaxAttempts
        /\ operator'.state # "not_started"
    BY <1>1 DEF IInv, OperationOK, Moved
  <2>2. state \in Working => \A i \in DOMAIN mail' : mail'[i] \in ResultsOf(currentOperation[state])
    BY <1>3, <1>5 DEF IInv, OperationOK
  <2> QED
    BY <1>1, <1>2, <1>5, <2>1, <2>2 DEF IInv, OperationOK
<1>8. LastIsTheEnd'
  BY <1>1, <1>2, <1>3, <1>4 DEF LastIsTheEnd, Moved
<1>9. ReadFailures'
  <2>1. state = "synchronizing" => operator.op = "Read"
    BY <1>5, OperationOf DEF Working
  <2>2. state = "synchronizing" /\ mail' # << >> => readFailed'
    BY <2>1 DEF IInv, ReadFailures, Moved
  <2> QED
    BY <1>1, <1>2, <2>2 DEF IInv, ReadFailures, Moved
<1>10. SuccessDone'
  <2>1. \A i \in DOMAIN mail' : mail'[i].status = "Success" /\ mail'[i].op # "Read"
           => cloud'[mail'[i].op] = "done"
    BY <1>1, <1>3 DEF HasFinished, FinishedSuccessfully
  <2>2. awaiting \in {"start", "resume"} => reply.status # "Success"
    BY <1>1 DEF HasFinished, FinishedSuccessfully
  <2> QED
    BY <1>1, <1>2, <2>1, <2>2 DEF SuccessDone
<1>11. AttemptsGrow'
  <2>1. SUFFICES ASSUME state \in Working \ {"synchronizing"} PROVE AttemptsGrow'
    BY <1>2 DEF AttemptsGrow
  <2> DEFINE cur == currentOperation[state]
  <2>2. /\ progress[cur].attempts \in Int /\ operator.attempts <= n /\ cur \in Operations
        /\ progress[cur].attempts <= operator.attempts /\ operator.op = cur /\ cur # "none"
    <3>1. cur \in Operations
      BY <2>1, OperationOf
    <3>2. progress[cur] \in Bounded \cup {NoProgress}
      BY <3>1 DEF IInv, StrongTypes, BoundedRecord
    <3>3. progress[cur].attempts \in Int
      BY <3>2, RetryAssumption DEF Bounded, NoProgress, MaxAttempts
    <3> QED
      BY <1>5, <2>1, <3>1, <3>3 DEF IInv, AttemptsGrow, Moved, Operations
  <2>3. /\ \A i \in DOMAIN mail : mail[i].attempts \in Int /\ mail[i].op \in {cur, "none"}
        /\ p.attempts \in Int /\ reply.attempts \in Int
        /\ awaiting \in {"start", "resume"} /\ reply.op # "none" =>
              reply.op = cur /\ reply.attempts <= operator.attempts
    <3>1. \A q \in Bounded \cup {NoProgress} : q.attempts \in Int
      BY RetryAssumption DEF Bounded, NoProgress, MaxAttempts
    <3>2. \A i \in DOMAIN mail : mail[i] \in Bounded /\ mail[i].op \in {cur, "none"}
      BY <2>1 DEF IInv, OperationOK, ResultsOf
    <3>3. awaiting \in {"start", "resume"} /\ reply.op # "none" => reply.op = cur
      BY <1>5, <2>1 DEF IInv, OperationOK, ResultsOf
    <3> QED
      BY <2>1, <3>1, <3>2, <3>3 DEF IInv, AttemptsGrow, StrongTypes
  <2> HIDE DEF cur
  <2>4. \A i \in DOMAIN mail : mail[i].op # "none" =>
          /\ mail[i].op = cur
          /\ progress[cur].attempts <= mail[i].attempts
          /\ mail[i].attempts <= operator.attempts /\ mail[i].attempts <= n
          /\ awaiting \in {"start", "resume"} /\ reply.op # "none" =>
                reply.attempts <= mail[i].attempts
    BY <1>1, <2>1, <2>2, <2>3 DEF IInv, AttemptsGrow
  <2>5. mail' # mail /\ p.op # "none" => p.op = cur /\ p.attempts = n
    BY <2>2 DEF ResultsOf
  <2>6. \A i \in DOMAIN mail' : mail'[i].op # "none" =>
          /\ progress[mail'[i].op].attempts <= mail'[i].attempts
          /\ mail'[i].attempts <= n
          /\ awaiting \in {"start", "resume"} /\ reply.op # "none" =>
                reply.attempts <= mail'[i].attempts
    BY <1>1, <1>3, <2>2, <2>3, <2>4, <2>5
  <2>7. ASSUME NEW i \in DOMAIN mail', NEW j \in DOMAIN mail', i <= j,
               mail'[i].op # "none", mail'[j].op # "none"
        PROVE  mail'[i].attempts <= mail'[j].attempts
    <3>1. CASE j = Len(mail') /\ mail'[j] = p /\ mail' # mail
      BY <1>1, <2>5, <2>6, <2>7, <3>1
    <3>2. CASE j \in DOMAIN mail /\ mail'[j] = mail[j]
      <4>1. CASE i \in DOMAIN mail /\ mail'[i] = mail[i]
        BY <2>1, <2>7, <3>2, <4>1 DEF IInv, AttemptsGrow
      <4>2. CASE i = Len(mail') /\ mail'[i] = p
        <5>1. i = j
          BY <1>3, <2>7, <4>2
        <5> QED
          BY <2>3, <4>2, <5>1
      <4> QED
        BY <1>3, <4>1, <4>2
    <3> QED
      BY <1>3, <3>1, <3>2
  <2>8. awaiting \in {"start", "resume"} /\ reply.op # "none" =>
          progress[reply.op].attempts <= reply.attempts /\ reply.attempts <= n
    BY <1>1, <2>1, <2>2, <2>3 DEF IInv, AttemptsGrow
  <2> QED
    BY <1>1, <1>2, <2>2, <2>6, <2>7, <2>8 DEF AttemptsGrow, cur
<1>12. NoOrphanedOperator'
  BY <1>1, <1>2, <1>3, <1>4, <1>8 DEF NoOrphanedOperator, LastIsTheEnd
<1> QED
  BY <1>1, <1>6, <1>7, <1>8, <1>9, <1>10, <1>11, <1>12 DEF IInv

\* What the plugin does to the cloud, when asked to do and when asked to check.
LEMMA PluginEffects ==
    ASSUME IInv, NEW a \in Answers, NEW op \in Operations,
           PluginDoes(op, a) \/ PluginChecks(op, a)
    PROVE  /\ cloud' \in [Operations -> {"idle", "running", "done"}]
           /\ \A o \in Operations : o # op => cloud'[o] = cloud[o]
           /\ a = "Success" => cloud'[op] = "done"
           /\ readFailed' \in BOOLEAN /\ (readFailed => readFailed')
           /\ PluginDoes(op, a) /\ op = "Read" => a # "InProgress" /\ (a # "Success" => readFailed')
<1>1. cloud \in [Operations -> {"idle", "running", "done"}] /\ readFailed \in BOOLEAN
  BY DEF IInv, TypeOK
<1>2. CASE PluginDoes(op, a)
  <2>1. PICK c \in (CASE a = "Success"    -> {"done"}
                      [] a = "InProgress" -> {"running"}
                      [] a = "Error"      -> {cloud[op], "done"}
                      [] OTHER            -> {cloud[op]}) : cloud' = [cloud EXCEPT ![op] = c]
    BY <1>2 DEF PluginDoes
  <2>2. c \in {"idle", "running", "done"} /\ (a = "Success" => c = "done")
    BY <1>1, <2>1
  <2> QED
    BY <1>1, <1>2, <2>1, <2>2 DEF PluginDoes
<1>3. CASE PluginChecks(op, a) /\ ~PluginDoes(op, a)
  <2> DEFINE c == CASE a = "Success" -> "done"
                    [] a \in Codes   -> "idle"
                    [] OTHER         -> cloud[op]
  <2>1. cloud' = [cloud EXCEPT ![op] = c] /\ c \in {"idle", "running", "done"}
        /\ (a = "Success" => c = "done")
    <3>1. cloud' = [cloud EXCEPT ![op] = c]
      BY <1>3, Zenon DEF PluginChecks
    <3>2. a = "Success" => c = "done"
      BY DEF Codes
    <3>3. c \in {"idle", "running", "done"}
      BY <1>1 DEF Codes
    <3> QED
      BY <3>1, <3>2, <3>3
  <2> HIDE DEF c
  <2>2. readFailed' = readFailed
    BY <1>3 DEF PluginChecks
  <2> QED
    BY <1>1, <1>3, <2>1, <2>2
<1> QED
  BY <1>2, <1>3

\* The first attempt of an operator keeps the invariant.
LEMMA ExecuteKeeps == ASSUME IInv, Execute, UNCHANGED updaterVars PROVE IInv'
<1>1. PICK a \in Answers :
         /\ PluginDoes(operator.op, a)
         /\ operator' = [operator EXCEPT !.state =
                           StateAfter(Result(operator.op, operator.lenient, a, operator.attempts))]
         /\ reply' = Result(operator.op, operator.lenient, a, operator.attempts)
  BY DEF Execute
<1>2. /\ operator \in Operators /\ operator.op \in Operations /\ operator.lenient \in BOOLEAN
      /\ operator.attempts \in 0 .. MaxAttempts + 1 /\ operator.state = "not_started"
      /\ operator.request = "start" /\ mail' = mail
  BY DEF IInv, TypeOK, Operators, Execute
<1> DEFINE q == Result(operator.op, operator.lenient, a, operator.attempts)
<1>3. /\ q \in ResultsOf(operator.op)
      /\ q.op # "none" => q.attempts = operator.attempts
      /\ operator.op # "Read" /\ q.status = "Success" => a = "Success"
      /\ q.status = "InProgress" => a = "InProgress"
      /\ q.status = "Failure" => a # "Success"
      /\ q.status = "Success" => q.op = operator.op
  BY <1>2, ResultShape
<1> HIDE DEF q
<1>4. /\ cloud' \in [Operations -> {"idle", "running", "done"}]
      /\ \A o \in Operations : o # operator.op => cloud'[o] = cloud[o]
      /\ a = "Success" => cloud'[operator.op] = "done"
      /\ readFailed' \in BOOLEAN /\ (readFailed => readFailed')
      /\ operator.op = "Read" => a # "InProgress" /\ (a # "Success" => readFailed')
  BY <1>1, <1>2, PluginEffects
<1>5. q \in Bounded /\ (q.op = "none" => ~q.recoverable)
  BY <1>3 DEF ResultsOf
<1>6. Moved(StateAfter(q), operator.attempts)
  <2>1. operator' = [operator EXCEPT !.state = StateAfter(q), !.attempts = operator.attempts]
    <3>1. operator' = [operator EXCEPT !.state = StateAfter(q)]
      BY <1>1 DEF q
    <3> QED
      BY <1>2, <3>1 DEF Operators
  <2>2. /\ StateAfter(q) \in Alive \cup {"finished_successfully", "finished_with_error"}
        /\ StateAfter(q) # "not_started"
        /\ StateAfter(q) = "retrying" => q.status = "Failure" /\ operator.attempts <= MaxAttempts
        /\ StateAfter(q) = "waiting_for_resource" => q.status = "InProgress"
    BY <1>3, <1>5, StateAfterEnd DEF Alive
  <2>3. operator.op = "Read" => /\ StateAfter(q) # "waiting_for_resource"
                                /\ StateAfter(q) = "retrying" => readFailed'
    BY <1>3, <1>4, <2>2
  <2>4. operator.state \in Alive /\ operator.attempts <= operator.attempts
    BY <1>2, RetryAssumption DEF Alive, MaxAttempts
  <2> QED
    BY <1>2, <1>4, <2>1, <2>2, <2>3, <2>4 DEF Moved
<1>7. reply' = q
  BY <1>1 DEF q
<1>8. q.status = "Success" /\ q.op # "Read" => cloud'[q.op] = "done"
  BY <1>3, <1>4
<1>9. operator.op = "Read" /\ q.status \in {"Failure", "InProgress"} => readFailed'
  BY <1>3, <1>4
<1> QED
  BY <1>2, <1>3, <1>5, <1>6, <1>7, <1>8, <1>9, AnsweredKeeps

\* An operator that resumes its waiting keeps the invariant.
LEMMA ResumeWaitingKeeps == ASSUME IInv, ResumeWaiting, UNCHANGED updaterVars PROVE IInv'
<1>1. PICK a \in Answers :
         /\ PluginChecks(operator.op, a)
         /\ operator' = [operator EXCEPT !.state =
                           StateAfter(Resumed(operator.op, a, operator.attempts))]
         /\ reply' = Resumed(operator.op, a, operator.attempts)
  BY DEF ResumeWaiting
<1>2. /\ operator \in Operators /\ operator.op \in Operations
      /\ operator.attempts \in 0 .. MaxAttempts + 1 /\ operator.state = "not_started"
      /\ operator.request = "resume" /\ mail' = mail /\ operator.op # "Read"
  BY DEF IInv, TypeOK, OperationOK, Operators, ResumeWaiting
<1> DEFINE q == Resumed(operator.op, a, operator.attempts)
<1>3. \/ /\ q \in ResultsOf(operator.op)
         /\ q.op # "none" => q.attempts = operator.attempts
         /\ q.status = "Success" => a = "Success" /\ q.op = operator.op
      \/ q.status = "none" /\ q.op = "none" /\ q \in Bounded
  <2>1. CASE a = "NoPlugin"
    <3>1. q = [op |-> "none", status |-> "none", recoverable |-> FALSE, attempts |-> 0]
      BY <2>1 DEF Resumed
    <3>2. 0 \in 0 .. MaxAttempts + 1
      BY RetryAssumption DEF MaxAttempts
    <3> QED
      BY <3>1, <3>2 DEF Bounded
  <2>2. CASE a # "NoPlugin"
    <3>1. q = Result(operator.op, FALSE, a, operator.attempts)
      BY <2>2 DEF Resumed
    <3> HIDE DEF q
    <3> QED
      BY <1>2, <3>1, ResultShape
  <2> QED
    BY <2>1, <2>2
<1> HIDE DEF q
<1>4. /\ cloud' \in [Operations -> {"idle", "running", "done"}]
      /\ \A o \in Operations : o # operator.op => cloud'[o] = cloud[o]
      /\ a = "Success" => cloud'[operator.op] = "done"
      /\ readFailed' \in BOOLEAN /\ (readFailed => readFailed')
  BY <1>1, <1>2, PluginEffects
<1>5. q \in Bounded /\ (q.op = "none" => ~q.recoverable \/ q.status # "Failure")
  BY <1>3 DEF ResultsOf
<1>6. Moved(StateAfter(q), operator.attempts)
  <2>1. operator' = [operator EXCEPT !.state = StateAfter(q), !.attempts = operator.attempts]
    <3>1. operator' = [operator EXCEPT !.state = StateAfter(q)]
      BY <1>1 DEF q
    <3> QED
      BY <1>2, <3>1 DEF Operators
  <2>2. /\ StateAfter(q) \in Alive \cup {"finished_successfully", "finished_with_error"}
        /\ StateAfter(q) # "not_started"
        /\ StateAfter(q) = "retrying" => operator.attempts <= MaxAttempts
    BY <1>3, <1>5, StateAfterEnd DEF Alive
  <2>3. operator.state \in Alive /\ operator.attempts <= operator.attempts
    BY <1>2, RetryAssumption DEF Alive, MaxAttempts
  <2> QED
    BY <1>2, <1>4, <2>1, <2>2, <2>3 DEF Moved
<1>7. reply' = q
  BY <1>1 DEF q
<1>8. q.status = "Success" /\ q.op # "Read" => cloud'[q.op] = "done"
  BY <1>3, <1>4
<1> QED
  BY <1>2, <1>3, <1>5, <1>6, <1>7, <1>8, AnsweredKeeps

\* A check of the status keeps the invariant.
LEMMA StatusKeeps ==
    ASSUME IInv, NEW a \in Answers, StatusWith(a), UNCHANGED updaterVars PROVE IInv'
<1>1. /\ operator \in Operators /\ operator.op \in Operations
      /\ operator.attempts \in 0 .. MaxAttempts + 1 /\ operator.state = "waiting_for_resource"
      /\ reply' = reply /\ operator.op # "Read" /\ PluginChecks(operator.op, a)
  BY DEF IInv, TypeOK, OperationOK, Operators, StatusWith
<1> DEFINE q == Result(operator.op, FALSE, a, operator.attempts)
<1>2. /\ q \in ResultsOf(operator.op)
      /\ q.op # "none" => q.attempts = operator.attempts
      /\ q.status = "Success" => a = "Success" /\ q.op = operator.op
  BY <1>1, ResultShape
<1>3. /\ cloud' \in [Operations -> {"idle", "running", "done"}]
      /\ \A o \in Operations : o # operator.op => cloud'[o] = cloud[o]
      /\ a = "Success" => cloud'[operator.op] = "done"
      /\ readFailed' \in BOOLEAN /\ (readFailed => readFailed')
  BY <1>1, PluginEffects
<1>4. \E x : /\ operator' = [operator EXCEPT !.state = x]
             /\ \/ mail' = mail /\ x = "finished_with_error"
                \/ mail' = Append(mail, q) /\ x = StateAfter(q)
  BY DEF StatusWith
<1> HIDE DEF q
<1>5. PICK x : /\ operator' = [operator EXCEPT !.state = x]
               /\ \/ mail' = mail /\ x = "finished_with_error"
                  \/ mail' = Append(mail, q) /\ x = StateAfter(q)
  BY <1>4
<1>6. q \in Bounded /\ (q.op = "none" => ~q.recoverable)
  BY <1>2 DEF ResultsOf
<1>7. Moved(x, operator.attempts)
  <2>1. operator' = [operator EXCEPT !.state = x, !.attempts = operator.attempts]
    BY <1>1, <1>5 DEF Operators
  <2>2. /\ x \in Alive \cup {"finished_successfully", "finished_with_error"}
        /\ x # "not_started"
        /\ x = "retrying" => operator.attempts <= MaxAttempts
    BY <1>2, <1>5, <1>6, StateAfterEnd DEF Alive
  <2>3. operator.state \in Alive /\ operator.attempts <= operator.attempts
    BY <1>1, RetryAssumption DEF Alive, MaxAttempts
  <2> QED
    BY <1>1, <1>3, <2>1, <2>2, <2>3 DEF Moved
<1>8. q.status = "Success" /\ q.op # "Read" => cloud'[q.op] = "done"
  BY <1>2, <1>3
<1> QED
  BY <1>1, <1>2, <1>5, <1>6, <1>7, <1>8, SentKeeps

\* A further attempt keeps the invariant.
LEMMA RetryKeeps == ASSUME IInv, Retry, UNCHANGED updaterVars PROVE IInv'
<1> DEFINE n == operator.attempts + 1
<1>1. PICK a \in Answers :
         /\ PluginDoes(operator.op, a)
         /\ \E p \in {[Result(operator.op, operator.lenient, a, n) EXCEPT !.attempts = n]} :
               /\ operator' = [operator EXCEPT !.state = StateAfter(p), !.attempts = n]
               /\ mail' = Append(mail, p)
  BY DEF Retry
<1>2. /\ operator \in Operators /\ operator.op \in Operations /\ operator.lenient \in BOOLEAN
      /\ operator.attempts \in 0 .. MaxAttempts + 1 /\ operator.state = "retrying"
      /\ operator.attempts <= MaxAttempts /\ reply' = reply
  BY DEF IInv, TypeOK, OperationOK, Operators, Retry
<1>3. n \in 0 .. MaxAttempts + 1 /\ operator.attempts <= n
  BY <1>2, RetryAssumption DEF MaxAttempts
<1> DEFINE r == Result(operator.op, operator.lenient, a, n)
           q == [r EXCEPT !.attempts = n]
<1>4. /\ r \in ResultsOf(operator.op)
      /\ operator.op # "Read" /\ r.status = "Success" => a = "Success"
      /\ r.status = "InProgress" => a = "InProgress"
      /\ r.status = "Failure" => a # "Success"
      /\ r.status = "Success" => r.op = operator.op
  <2> HIDE DEF n
  <2> QED
    BY <1>2, <1>3, ResultShape
<1>5. operator' = [operator EXCEPT !.state = StateAfter(q), !.attempts = n] /\ mail' = Append(mail, q)
  BY <1>1
<1>6. /\ cloud' \in [Operations -> {"idle", "running", "done"}]
      /\ \A o \in Operations : o # operator.op => cloud'[o] = cloud[o]
      /\ a = "Success" => cloud'[operator.op] = "done"
      /\ readFailed' \in BOOLEAN /\ (readFailed => readFailed')
      /\ operator.op = "Read" => a # "InProgress" /\ (a # "Success" => readFailed')
      /\ operator.op = "Read" => readFailed
  <2>1. operator.op = "Read" => readFailed
    BY <1>2 DEF IInv, ReadFailures
  <2> QED
    BY <1>1, <1>2, <2>1, PluginEffects
<1> HIDE DEF n, r
<1>7. /\ q \in ResultsOf(operator.op) /\ q.attempts = n
      /\ q.status = r.status /\ q.op = r.op /\ q \in Bounded
  BY <1>3, <1>4 DEF ResultsOf, Bounded
<1> HIDE DEF q
<1>8. Moved(StateAfter(q), n)
  <2>1. /\ StateAfter(q) \in Alive \cup {"finished_successfully", "finished_with_error"}
        /\ StateAfter(q) # "not_started"
        /\ StateAfter(q) = "retrying" => n <= MaxAttempts
        /\ StateAfter(q) = "waiting_for_resource" => q.status = "InProgress"
    BY <1>7, StateAfterEnd DEF Alive
  <2>2. operator.op = "Read" => /\ StateAfter(q) # "waiting_for_resource"
                                /\ StateAfter(q) = "retrying" => readFailed'
    BY <1>4, <1>6, <1>7, <2>1
  <2>3. operator.state \in Alive
    BY <1>2 DEF Alive
  <2> QED
    BY <1>2, <1>3, <1>5, <1>6, <2>1, <2>2, <2>3 DEF Moved
<1>9. q.status = "Success" /\ q.op # "Read" => cloud'[q.op] = "done"
  BY <1>4, <1>6, <1>7
<1> QED
  BY <1>2, <1>5, <1>6, <1>7, <1>8, <1>9, SentKeeps

-----------------------------------------------------------------------------
(***************************************************************************)
(* The theorems.                                                           *)
(***************************************************************************)

\* IInv is inductive.
LEMMA StepIInv == IInv /\ [Next]_vars => IInv'
<1> SUFFICES ASSUME IInv, [Next]_vars PROVE IInv'
  OBVIOUS
<1>1. CASE OperatorStep
  BY <1>1, ExecuteKeeps, ResumeWaitingKeeps, StatusKeeps, RetryKeeps DEF OperatorStep, Status
<1>2. CASE UNCHANGED vars
  <2> USE <1>2 DEF vars, updaterVars, operatorVars
  <2>1. TypeOK' /\ StrongTypes' /\ StateFitsKind' /\ AwaitingOK' /\ RowInStep' /\ SuccessRecorded'
    BY DEF IInv, TypeOK, StrongTypes, StateFitsKind, AwaitingOK, RowInStep, SuccessRecorded, Settled, Mutation
  <2>2. OperationOK' /\ LastIsTheEnd' /\ ReadFailures' /\ SuccessDone'
    BY DEF IInv, OperationOK, LastIsTheEnd, ReadFailures, SuccessDone
  <2>3. RecordsOK'
    BY QuietRecords DEF IInv, RecordsOK, Quiet
  <2>4. AttemptsGrow'
    BY DEF IInv, AttemptsGrow
  <2>5. NoOrphanedOperator' /\ WaitsWithTimeout' /\ EveryMessageHandled' /\ ReportsFinalState'
        /\ RowAgreesWithReport'
    BY DEF IInv, NoOrphanedOperator, WaitsWithTimeout, EveryMessageHandled, ReportsFinalState,
        RowAgreesWithReport
  <2> QED
    BY <2>1, <2>2, <2>3, <2>4, <2>5 DEF IInv
<1> QED
  BY <1>1, <1>2, StartKeeps, ReplyArrivesKeeps, StillRunningKeeps, CallFailsKeeps, PersistedKeeps,
     ProgressArrivesKeeps, ValueResolvedKeeps, TimeoutKeeps, CrashKeeps, ReRunKeeps DEF Next

\* The invariant holds throughout.
LEMMA UpdaterInvariant == Spec => []IInv
<1>1. Init => IInv
  BY InitIInv
<1>2. IInv /\ [Next]_vars => IInv'
  BY StepIInv
<1> QED
  BY <1>1, <1>2, PTL DEF Spec

\* What an updater reports is true, whatever crashes and failing calls come
\* between: a success was carried out and its result kept, or dropped by a filter
\* or for missing fields, the state is final but after a failed Read, and the row
\* of the command agrees.
THEOREM UpdaterReportsTheTruth == Spec => []ReportIsTrue
<1>1. IInv => ReportIsTrue
  <2> SUFFICES ASSUME IInv PROVE ReportIsTrue
    OBVIOUS
  <2>1. SuccessIsReal
    <3>1. report = "Success" => Settled(stored)
      BY DEF IInv, SuccessRecorded
    <3>2. "Success" \in {report, row.state} => kind = "read" \/ cloud[Mutation] = "done"
      <4>1. kind # "read" => Mutation \in Operations \ {"Read"}
        BY KindOf, KindsAssumption DEF IInv, TypeOK, Operations
      <4> QED
        BY <4>1 DEF IInv, SuccessRecorded, SuccessDone
    <3> QED
      BY <3>1, <3>2 DEF SuccessIsReal
  <2> QED
    BY <2>1 DEF IInv, ReportIsTrue
<1> QED
  BY <1>1, UpdaterInvariant, PTL

\* A step that ends with a success or a rejection finds its operator gone, and
\* none is started afterwards.
LEMMA ReportEndsStep == IInv /\ ReportEndsOperation /\ [Next]_vars => ReportEndsOperation'
<1> SUFFICES ASSUME IInv, ReportEndsOperation, [Next]_vars PROVE ReportEndsOperation'
  OBVIOUS
<1>1. \A f, r : Finish(f, "Failed", r) => report' = "Failed"
  BY DEF Finish
<1>2. ASSUME report' \notin {"Success", "Rejected"} PROVE ReportEndsOperation'
  BY <1>2 DEF ReportEndsOperation
<1>3. ASSUME report' = report, operator' = operator PROVE ReportEndsOperation'
  BY <1>3 DEF ReportEndsOperation
<1>4. ASSUME operator' = operator, operator.state \notin Alive PROVE ReportEndsOperation'
  BY <1>4 DEF ReportEndsOperation
<1>5. state \notin Final => report = "none"
  BY DEF IInv, AwaitingOK
<1>6. ASSUME NextState, state = "initializing" \/ awaiting = "persist" PROVE ReportEndsOperation'
  <2>1. report = "none" /\ operator.state \notin Alive
    BY <1>6 DEF IInv, LastIsTheEnd, Before, AwaitingOK, Working, Final
  <2>2. report' = report \/ operator' = operator
    BY <1>6 DEF NextState, Resolve, Begin
  <2> QED
    BY <1>2, <1>4, <2>1, <2>2
<1>7. ASSUME NEW p, Handed(p), HandleProgress(p), operator' = operator PROVE ReportEndsOperation'
  <2>1. report = "none"
    BY <1>7 DEF IInv, AwaitingOK, Handed, Working, Final
  <2>2. CASE HasFinished(p)
    <3>1. operator.state \notin Alive
      BY <1>7, <2>2 DEF Handed
    <3> QED
      BY <1>4, <1>7, <3>1
  <2>3. CASE ~HasFinished(p)
    <3>1. report' \in {report, "Failed"}
      BY <1>1, <1>7, <2>3 DEF HandleProgress, HasFinished
    <3> QED
      BY <1>2, <2>1, <3>1
  <2> QED
    BY <2>2, <2>3
<1>8. CASE Start
  BY <1>6, <1>8 DEF Start
<1>9. CASE ReplyArrives
  BY <1>7, <1>9, ReplyIsHanded DEF ReplyArrives
<1>10. CASE StillRunning \/ UNCHANGED vars
  BY <1>3, <1>10 DEF StillRunning, vars, updaterVars, operatorVars
<1>11. CASE CallFails
  <2>1. report' \in {report, "Failed"}
    BY <1>1, <1>11 DEF CallFails
  <2>2. report = "none"
    BY <1>11 DEF CallFails, IInv, AwaitingOK, Working, Final
  <2> QED
    BY <1>2, <2>1, <2>2
<1>12. CASE Persisted
  <2>1. awaiting = "persist" /\ operator.state \notin Alive
    BY <1>12 DEF Persisted, IInv, LastIsTheEnd
  <2>2. NextState \/ operator' = operator
    BY <1>12 DEF Persisted
  <2> QED
    BY <1>4, <1>6, <2>1, <2>2
<1>13. CASE ProgressArrives
  BY <1>3, <1>7, <1>13, MessageIsHanded DEF ProgressArrives
<1>14. CASE ValueResolved
  <2>1. report = "none"
    BY <1>14 DEF ValueResolved, IInv, AwaitingOK, Final
  <2>2. report' \in {report, "Failed"}
    BY <1>1, <1>14 DEF ValueResolved, Resolve, Begin
  <2> QED
    BY <1>2, <2>1, <2>2
<1>15. CASE Timeout
  <2>1. report' \in {report, "Failed"} /\ operator' = operator
    BY <1>1, <1>15 DEF Timeout, operatorVars
  <2> QED
    BY <1>2, <1>3, <2>1
<1>16. CASE Crash
  BY <1>2, <1>16 DEF Crash
<1>17. CASE ReRun
  BY <1>3, <1>17 DEF ReRun, operatorVars
<1>18. CASE OperatorStep
  <2>1. report' = report /\ operator.state \in Alive
    BY <1>18 DEF OperatorStep, updaterVars, Execute, ResumeWaiting, Status, StatusWith, Retry, Alive
  <2> QED
    BY <2>1 DEF ReportEndsOperation
<1> QED
  BY <1>8, <1>9, <1>10, <1>11, <1>12, <1>13, <1>14, <1>15, <1>16, <1>17, <1>18 DEF Next

\* Progress that ends the operation for the updater ends it for the operator, for
\* every retry limit, and so does a success or a rejection that is reported; an
\* updater that waits has a timeout, but for a delete whose call has failed; and
\* a message without a handler ends it only after a failed Read.
THEOREM UpdaterAndOperatorNeverPart == Spec => []NeverPart
<1>1. Init => ReportEndsOperation
  BY DEF Init, ReportEndsOperation
<1>2. IInv /\ ReportEndsOperation => NeverPart
  BY DEF IInv, NeverPart
<1> QED
  BY <1>1, <1>2, ReportEndsStep, UpdaterInvariant, PTL DEF Spec

\* The attempts recorded in the row never go back, for any crash and rerun: a
\* resource does not get its retries anew.
THEOREM AttemptsNeverGoBack == Spec => AttemptsSurviveCrashes
<1> DEFINE Grows == \A op \in Operations \ {"Read"} :
                      row'.progress[op].attempts >= row.progress[op].attempts
<1>1. ASSUME IInv, [Next]_vars PROVE [Grows]_vars
  <2>1. \A op \in Operations : row.progress[op].attempts \in Int
    <3>1. \A q \in Bounded \cup {NoProgress} : q.attempts \in Int
      BY RetryAssumption DEF Bounded, NoProgress, MaxAttempts
    <3>2. row.progress \in BoundedRecord
      BY <1>1 DEF IInv, StrongTypes
    <3> QED
      BY <3>1, <3>2 DEF BoundedRecord
  <2>2. row'.progress = row.progress => Grows
    BY <2>1
  <2>3. ASSUME NEW p, Handed(p), HandleProgress(p) PROVE Grows
    <3>1. row.progress = progress
      BY <1>1, <2>3 DEF IInv, RowInStep, Handed, Working, Final
    <3>2. CASE row'.progress = [row.progress EXCEPT ![p.op] = p]
      <4>1. p.op \in {currentOperation[state], "none"}
        BY <2>3 DEF Handed, ResultsOf
      <4>2. state = "synchronizing" => p.op \in {"Read", "none"}
        BY <4>1, OperationOf
      <4>3. \A op \in Operations \ {"Read"} :
               op = p.op => row.progress[op].attempts <= p.attempts
        BY <2>3, <3>1, <4>2 DEF Handed, Operations
      <4>4. p.attempts \in Int
        BY <2>3, RetryAssumption DEF Handed, ResultsOf, Bounded, MaxAttempts
      <4>5. \A op \in Operations :
               row'.progress[op] = IF op = p.op THEN p ELSE row.progress[op]
        BY <1>1, <3>2 DEF IInv, StrongTypes, BoundedRecord
      <4> QED
        BY <2>1, <4>3, <4>4, <4>5
    <3>3. row'.progress = [row.progress EXCEPT ![p.op] = p] \/ row'.progress = row.progress
      <4>1. \A f, s, r : Finish(f, s, r) => row' = [r EXCEPT !.state = s] \/ row' = r
        BY DEF Finish
      <4>2. \E s, t : row' = UpdateFromProgress(s, p)
                   \/ row' = [UpdateFromProgress(s, p) EXCEPT !.state = t]
                   \/ row' = [row EXCEPT !.state = s] \/ row' = row
        BY <2>3, <4>1 DEF HandleProgress
      <4> QED
        BY <1>1, <4>2 DEF UpdateFromProgress, IInv, StrongTypes
    <3> QED
      BY <2>2, <3>2, <3>3
  <2>4. CASE ReplyArrives
    <3>1. HandleProgress(reply) /\ Handed(reply)
      BY <1>1, <2>4, ReplyIsHanded DEF ReplyArrives
    <3> QED
      BY <2>3, <3>1
  <2>5. CASE ProgressArrives
    <3>1. CASE state \in {"creating", "updating", "deleting"} /\ HandleProgress(Head(mail))
      BY <1>1, <2>3, <2>5, <3>1, MessageIsHanded
    <3>2. CASE row' = row
      BY <2>2, <3>2
    <3> QED
      BY <2>5, <3>1, <3>2 DEF ProgressArrives
  <2>6. CASE Start \/ Persisted \/ ValueResolved \/ Timeout \/ CallFails
    <3>1. row'.progress = row.progress
      BY <1>1, <2>6 DEF Start, Persisted, ValueResolved, Timeout, CallFails, NextState, Resolve, Begin,
          Finish, IInv, StrongTypes
    <3> QED
      BY <2>2, <3>1
  <2>7. CASE StillRunning \/ Crash \/ ReRun \/ OperatorStep
    <3>1. row' = row
      BY <2>7 DEF StillRunning, Crash, ReRun, OperatorStep, updaterVars
    <3> QED
      BY <2>2, <3>1
  <2> QED
    BY <1>1, <2>4, <2>5, <2>6, <2>7 DEF Next
<1>2. IInv /\ [Next]_vars => [Grows]_vars
  BY <1>1
<1> QED
  BY <1>2, UpdaterInvariant, PTL DEF Spec, AttemptsSurviveCrashes

-----------------------------------------------------------------------------
(***************************************************************************)
(* What the executor assumes of an updater.                                *)
(***************************************************************************)

\* Before the first crash: the update starts with nothing recorded, its row is
\* not rejected before it is reported so, a failure without an operation ends
\* it, and what it takes was successful when the last of it is.
FirstRun ==
    crashes = 0 =>
    /\ state # "down"
    /\ state = "initializing" => progress = NothingRecorded
    /\ report = "none" => row.state # "Rejected"
    /\ state \notin Final => progress["none"] = NoProgress
    /\ kind \in {"update", "delete"} /\ state \in {"resolving", "updating", "deleting"} =>
          FinishedSuccessfully(progress["Read"])
    /\ awaiting = "persist" /\ (state # "synchronizing" \/ kind = "read") => row.state = "Success"

\* The kinds of steps the executor can tell apart: none it sees, progress, and
\* the report of s.
Unseen == report' = report /\ row' = row

Advances == report = "none" /\ report' = "none" /\ row'.state \in {"InProgress", "Success", "Failed"}

Concludes(s) ==
    /\ report = "none" /\ report' = s /\ s \in UpdateStates \ {"NotStarted"}
    /\ s = "Rejected" => kind = "update"
    /\ \/ row'.state = s
       \/ /\ callErrors
          /\ row'.state = row.state \/ row'.state \in {"InProgress", "Success", "Failed"}
          /\ crashes = 0 /\ s = "Success" => row'.state = "Success"
          /\ s \notin Terminal => row'.state # "Success"

Seen == Unseen \/ Advances \/ \E s \in UpdateStates : Concludes(s)

\* An updater that ends with its row r keeps FirstRun and has reported.
LEMMA FinishIsSeen ==
    ASSUME IInv, FirstRun, Kept, NEW f \in Final, NEW s \in UpdateStates \ {"NotStarted"}, NEW r,
           Finish(f, s, r), state \notin Final, s = "Rejected" => kind = "update",
           r = row \/ r.state \in {"InProgress", "Success", "Failed"},
           crashes = 0 /\ s = "Success" => r.state = "Success",
           s \notin Terminal => r.state # "Success",
           r \in [state : UpdateStates, progress : BoundedRecord]
    PROVE  FirstRun' /\ Seen
<1>1. /\ report = "none" /\ report' = s /\ state' = f /\ awaiting' = "nothing"
      /\ row'.state = s \/ (callErrors /\ row' = r)
  BY DEF Finish, IInv, AwaitingOK
<1>2. FirstRun'
  <2>1. s # "none"
    BY DEF UpdateStates
  <2> QED
    BY <1>1, <2>1 DEF FirstRun, Final
<1>3. Concludes(s)
  BY <1>1 DEF Concludes
<1> QED
  BY <1>2, <1>3 DEF Seen

\* A step to a state of work, with records, row and report as they were.
LEMMA WorkIsUnseen ==
    ASSUME IInv, FirstRun, Kept, progress' = progress, row' = row, report' = report,
           state \notin Final, state' \in Working \cup {"resolving", "unsent"}, awaiting' # "persist",
           \/ state' = state
           \/ kind = "create"
           \/ state' = "synchronizing"
           \/ crashes = 0 => FinishedSuccessfully(progress["Read"])
    PROVE  FirstRun' /\ Seen
<1>1. FirstRun'
  BY DEF FirstRun, Kept, Working
<1> QED
  BY <1>1 DEF Seen, Unseen

\* nextState, seen by the executor.
LEMMA NextStateIsSeen ==
    ASSUME IInv, FirstRun, Kept, NextState, progress' = progress,
           state = "initializing" \/ awaiting = "persist"
    PROVE  FirstRun' /\ Seen
<1>1. state \notin Final
  BY DEF IInv, AwaitingOK, Working, Final
<1>2. state = "synchronizing" => FinishedSuccessfully(progress["Read"])
  BY OperationOf DEF IInv, AwaitingOK
<1>3. ASSUME NEW t \in Working, Begin(t),
             \/ kind = "create"
             \/ t = "synchronizing"
             \/ crashes = 0 => FinishedSuccessfully(progress["Read"])
      PROVE  FirstRun' /\ Seen
  <2>1. state' = t /\ awaiting' # "persist" /\ UNCHANGED <<row, report>>
    BY <1>3 DEF Begin
  <2> QED
    BY <1>1, <1>3, <2>1, WorkIsUnseen
<1>4. ASSUME Resolve, kind = "create" \/ (kind = "update" /\ state = "synchronizing")
      PROVE  FirstRun' /\ Seen
  <2>1. CASE state' \in {"resolving", "unsent"} /\ awaiting' = "nothing" /\ UNCHANGED <<row, report>>
    BY <1>1, <1>2, <1>4, <2>1, WorkIsUnseen
  <2>2. CASE Begin(IF kind = "create" THEN "creating" ELSE "updating")
    <3>1. CASE kind = "create"
      BY <1>3, <2>2, <3>1 DEF Working
    <3>2. CASE kind = "update"
      BY <1>2, <1>3, <1>4, <2>2, <3>2 DEF Working
    <3> QED
      BY <1>4, <3>1, <3>2
  <2> QED
    BY <1>4, <2>1, <2>2 DEF Resolve
<1>5. CASE state = "initializing" /\ kind = "create" /\ Resolve
  BY <1>4, <1>5
<1>6. CASE /\ state = "initializing" /\ kind \in {"update", "delete"} /\ HasProgress
           /\ Begin(IF kind = "update" THEN "updating" ELSE "deleting")
  <2>1. crashes # 0
    BY <1>6 DEF FirstRun, HasProgress, Found, NothingRecorded
  <2>2. CASE kind = "update"
    BY <1>3, <1>6, <2>1, <2>2 DEF Working
  <2>3. CASE kind = "delete"
    BY <1>3, <1>6, <2>1, <2>3 DEF Working
  <2> QED
    BY <1>6, <2>2, <2>3
<1>7. CASE Begin("synchronizing")
  BY <1>3, <1>7 DEF Working
<1>8. CASE state = "synchronizing" /\ kind = "delete" /\ Begin("deleting")
  BY <1>2, <1>3, <1>8 DEF Working
<1>9. CASE state = "synchronizing" /\ kind = "update" /\ Resolve
  BY <1>4, <1>9
<1>10. CASE /\ \/ state = "synchronizing" /\ kind = "read"
               \/ state \in {"deleting", "creating", "updating"}
            /\ Finish("finished_successfully",
                      IF kind = "read" THEN ustate ELSE "Success", row)
  <2>1. awaiting = "persist"
    BY <1>10
  <2>2. Finish("finished_successfully", "Success", row)
    BY <1>10, <2>1 DEF IInv, RecordsOK
  <2>3. crashes = 0 => row.state = "Success"
    BY <1>10, <2>1 DEF FirstRun
  <2>4. /\ "finished_successfully" \in Final /\ "Success" \in UpdateStates \ {"NotStarted"}
        /\ "Success" \in Terminal /\ row \in [state : UpdateStates, progress : BoundedRecord]
    BY DEF Final, UpdateStates, Terminal, IInv, StrongTypes
  <2> QED
    BY <1>1, <2>2, <2>3, <2>4, FinishIsSeen
<1> QED
  BY <1>5, <1>6, <1>7, <1>8, <1>9, <1>10 DEF NextState

\* handleProgressUpdate, seen by the executor.
LEMMA HandleProgressIsSeen ==
    ASSUME IInv, FirstRun, NEW p, Handed(p), HandleProgress(p), UNCHANGED <<cloud, readFailed>>
    PROVE  FirstRun' /\ Seen
<1>1. PICK pr, s : pr = [progress EXCEPT ![p.op] = p] /\ s = updateState(pr)
  OBVIOUS
<1>2. /\ pr \in BoundedRecord /\ pr[p.op] = p /\ RecordOK(pr)
      /\ UpdateFromProgress(s, p) = [state |-> s, progress |-> pr]
      /\ p.op = "none" => Failed(p)
  BY <1>1, ProgressRecorded
<1>3. s \in {"InProgress", "Failed", "Success"}
  BY <1>1, UpdateStateType
<1>4. /\ p.op \in {currentOperation[state], "none"} /\ state \in Working
      /\ \A op \in Operations \cup {"none"} : op # p.op => pr[op] = progress[op]
  BY <1>1 DEF Handed, ResultsOf, IInv, StrongTypes, BoundedRecord
<1>5. Kept /\ state \notin Final /\ report = "none" /\ kind \in Kinds
  BY <1>4 DEF HandleProgress, Kept, Handed, IInv, AwaitingOK, TypeOK, Working, Final
<1>6. ASSUME ~Failed(p), progress' = pr, row' = [state |-> s, progress |-> pr],
             UNCHANGED <<state, report>>,
             awaiting' = "persist" => FinishedSuccessfully(p)
      PROVE  FirstRun' /\ Seen
  <2>1. p.op = currentOperation[state] /\ p.op \in Operations /\ p.op # "none"
    BY <1>2, <1>4, <1>6, OperationOf DEF Operations
  <2>2. crashes = 0 => pr["none"] = NoProgress
    BY <1>4, <1>5, <2>1 DEF FirstRun
  <2>3. crashes = 0 /\ kind \in {"update", "delete"} /\ state \in {"updating", "deleting"} =>
            FinishedSuccessfully(pr["Read"])
    BY <1>4, <2>1, OperationOf DEF FirstRun, Operations
  <2>4. ASSUME crashes = 0, awaiting' = "persist", state # "synchronizing" \/ kind = "read"
        PROVE  s = "Success"
    <3>1. FinishedSuccessfully(pr[currentOperation[state]])
      BY <1>2, <1>6, <2>1, <2>4
    <3>2. \A op \in requiredOperations : FinishedSuccessfully(pr[op])
      BY <1>4, <1>5, <2>3, <2>4, <3>1, KindOf, OperationOf, KindsAssumption
         DEF IInv, StateFitsKind, Working
    <3> QED
      BY <1>1, <1>2, <1>5, <2>2, <2>4, <3>2, AllCount
  <2>5. FirstRun'
    BY <1>3, <1>4, <1>5, <1>6, <2>2, <2>3, <2>4 DEF FirstRun, Kept, Working
  <2>6. Advances
    BY <1>3, <1>5, <1>6 DEF Advances
  <2> QED
    BY <2>5, <2>6 DEF Seen
<1>7. ASSUME Finish("finished_with_error", s, [state |-> s, progress |-> pr])
      PROVE  FirstRun' /\ Seen
  <2>1. PICK r : r = [state |-> s, progress |-> pr]
    OBVIOUS
  <2>2. /\ "finished_with_error" \in Final /\ s \in UpdateStates \ {"NotStarted"} /\ s # "Rejected"
        /\ r \in [state : UpdateStates, progress : BoundedRecord] /\ r.state = s
    BY <1>2, <1>3, <2>1 DEF Final, UpdateStates
  <2>3. s \notin Terminal => r.state # "Success"
    BY <2>2 DEF Terminal
  <2> QED
    BY <1>3, <1>5, <1>7, <2>1, <2>2, <2>3, FinishIsSeen
<1>8. ASSUME Finish("finished_with_error", "Failed", row)
      PROVE  FirstRun' /\ Seen
  BY <1>5, <1>8, FinishIsSeen DEF Final, UpdateStates, Terminal, IInv, StrongTypes
<1>9. ASSUME FinishedSuccessfully(p), kind = "read",
             Finish("finished_successfully", "Success", [state |-> s, progress |-> pr])
      PROVE  FirstRun' /\ Seen
  <2>1. state = "synchronizing" /\ p.op = "Read" /\ progress["none"] = NoProgress
    BY <1>2, <1>4, <1>9, OperationOf DEF Handed, Working, IInv, StateFitsKind, RecordsOK,
        Failed, FinishedSuccessfully
  <2>2. pr["none"] = NoProgress /\ FinishedSuccessfully(pr["Read"])
    BY <1>2, <1>4, <1>9, <2>1 DEF Operations
  <2>3. s = "Success"
    BY <1>1, <1>2, <1>5, <1>9, <2>2, ReadCounts
  <2>4. PICK r : r = [state |-> s, progress |-> pr]
    OBVIOUS
  <2>5. /\ "finished_successfully" \in Final /\ "Success" \in UpdateStates \ {"NotStarted"}
        /\ "Success" \in Terminal
        /\ r \in [state : UpdateStates, progress : BoundedRecord] /\ r.state = "Success"
    BY <1>2, <2>3, <2>4 DEF Final, UpdateStates, Terminal
  <2> QED
    BY <1>5, <1>9, <2>4, <2>5, FinishIsSeen
<1> QED
  <2>1. CASE /\ progress' = pr
             /\ \/ /\ FinishedSuccessfully(p)
                   /\ row' = UpdateFromProgress(s, p)
                   /\ UNCHANGED <<state, report>>
                \/ /\ FinishedSuccessfully(p) /\ kind = "read"
                   /\ Finish("finished_successfully", "Success", UpdateFromProgress(s, p))
                \/ Finish("finished_with_error", s, UpdateFromProgress(s, p))
                \/ /\ ~HasFinished(p)
                   /\ row' = UpdateFromProgress(s, p)
                   /\ awaiting' = "nothing"
                   /\ UNCHANGED <<state, report>>
    BY <1>2, <1>6, <1>7, <1>9, <2>1 DEF HasFinished, Failed, FinishedSuccessfully
  <2>2. CASE Finish("finished_with_error", "Failed", row)
    BY <1>8, <2>2
  <2> QED
    BY <1>1, <2>1, <2>2 DEF HandleProgress

\* An updater that fails with its row as it is, seen by the executor.
LEMMA FailureIsSeen ==
    ASSUME IInv, FirstRun, Kept, Finish("finished_with_error", "Failed", row), state \notin Final
    PROVE  FirstRun' /\ Seen
BY FinishIsSeen DEF Final, UpdateStates, Terminal, IInv, StrongTypes

\* Every step of a run keeps FirstRun, and the executor sees it as nothing, as
\* progress or as the report of a state.
LEMMA StepIsSeen ==
    ASSUME IInv, FirstRun, [Next]_vars
    PROVE  FirstRun' /\ (crashes' = crashes => Seen)
<1>1. CASE OperatorStep \/ UNCHANGED vars
  BY <1>1 DEF OperatorStep, vars, updaterVars, FirstRun, Seen, Unseen
<1>2. CASE Crash
  <2>1. crashes' # 0 /\ crashes' # crashes
    BY <1>2 DEF Crash, IInv, TypeOK
  <2> QED
    BY <2>1 DEF FirstRun
<1>3. CASE ReRun
  BY <1>3 DEF ReRun, FirstRun, Seen, Unseen
<1>4. CASE Start
  BY <1>4, NextStateIsSeen DEF Start, Kept
<1>5. CASE ReplyArrives
  BY <1>5, ReplyIsHanded, HandleProgressIsSeen DEF ReplyArrives
<1>6. CASE StillRunning
  <2>1. state \in Working /\ state \notin Final
    BY <1>6 DEF StillRunning, IInv, AwaitingOK, Working, Final
  <2> QED
    BY <1>6, <2>1, WorkIsUnseen DEF StillRunning, Kept
<1>7. CASE CallFails
  <2>1. state \in Working /\ state \notin Final
    BY <1>7 DEF CallFails, IInv, AwaitingOK, Working, Final
  <2>2. Kept /\ progress' = progress
    BY <1>7 DEF CallFails, Kept
  <2>3. CASE state' = state /\ awaiting' = "nothing" /\ UNCHANGED <<row, report>>
    BY <2>1, <2>2, <2>3, WorkIsUnseen
  <2> QED
    BY <1>7, <2>1, <2>2, <2>3, FailureIsSeen DEF CallFails
<1>8. CASE Persisted
  <2>1. state \notin Final /\ Kept /\ progress' = progress
    BY <1>8 DEF Persisted, Kept, IInv, AwaitingOK, Working, Final
  <2>2. CASE kind = "update" /\ Finish("rejected", "Rejected", row)
    BY <2>1, <2>2, FinishIsSeen DEF Final, UpdateStates, Terminal, IInv, StrongTypes
  <2> QED
    BY <1>8, <2>1, <2>2, NextStateIsSeen, FailureIsSeen DEF Persisted
<1>9. CASE ProgressArrives
  <2>1. CASE state \in {"creating", "updating", "deleting"} /\ HandleProgress(Head(mail))
    BY <1>9, <2>1, MessageIsHanded, HandleProgressIsSeen DEF ProgressArrives
  <2>2. CASE /\ state \notin {"creating", "updating", "deleting"}
             /\ state' = IF state \in Final THEN state ELSE "terminated"
             /\ awaiting = "nothing"
             /\ UNCHANGED <<kind, callErrors, progress, awaiting, row, report, crashes>>
    BY <2>2 DEF FirstRun, Seen, Unseen, Final
  <2> QED
    BY <1>9, <2>1, <2>2 DEF ProgressArrives
<1>10. CASE ValueResolved
  <2>1. state = "resolving" /\ state \notin Final /\ Kept /\ progress' = progress
        /\ awaiting = "nothing"
    BY <1>10 DEF ValueResolved, Kept, Final
  <2>2. CASE Resolve
    <3>1. kind = "create" \/ (kind = "update" /\ (crashes = 0 => FinishedSuccessfully(progress["Read"])))
      BY <2>1 DEF FirstRun, IInv, StateFitsKind
    <3>2. /\ UNCHANGED <<row, report>> /\ awaiting' # "persist"
          /\ state' \in {"resolving", "unsent", "creating", "updating"}
      BY <2>2, <3>1 DEF Resolve, Begin
    <3> QED
      BY <2>1, <3>1, <3>2, WorkIsUnseen DEF Working
  <2> QED
    BY <1>10, <2>1, <2>2, FailureIsSeen DEF ValueResolved
<1>11. CASE Timeout
  <2>1. state \in Working \cup {"resolving"} /\ state \notin Final
    BY <1>11 DEF Timeout, IInv, AwaitingOK, Working, Final
  <2>2. CASE Finish("finished_with_error", "Failed", row)
    BY <1>11, <2>1, <2>2, FailureIsSeen DEF Timeout, Kept, operatorVars
  <2>3. CASE state' = "terminated" /\ UNCHANGED <<row, report, awaiting>>
    BY <1>11, <2>1, <2>3 DEF Timeout, FirstRun, Seen, Unseen, Final
  <2> QED
    BY <1>11, <2>2, <2>3 DEF Timeout
<1> QED
  BY <1>1, <1>2, <1>3, <1>4, <1>5, <1>6, <1>7, <1>8, <1>9, <1>10, <1>11 DEF Next

\* The report of s, with a row that says the same unless the call that writes it
\* has failed, is a step of the executor's updater.
LEMMA ReportIsTaken ==
    ASSUME NEW s, Concludes(s), UNCHANGED <<kind, callErrors, crashes>>, row'.state \in UpdateStates,
           row.state \in UpdateStates, s \notin Terminal => kind \in {"update", "delete"},
           crashes = 0 => row.state # "Rejected",
           crashes = 0 \/ ~callErrors
    PROVE  Executor!UpdaterFinishes(ThisUpdate, s)
<1> DEFINE u == ThisUpdate
           seen == SeenRow
           old == [v \in {u} |-> seen]
<1>1. /\ report = "none" /\ report' = s /\ s # "none"
      /\ ThisUpdate' = u /\ SeenRow' = row'.state
  BY DEF Concludes, ThisUpdate, SeenRow, UpdateStates
<1>2. PICK w : /\ w = seen \/ w \in {"InProgress", "Success", "Failed"}
               /\ s = "Success" => w = "Success"
               /\ s \notin Terminal => w # "Success"
               /\ row'.state = s \/ (callErrors /\ row'.state = w)
  <2>1. CASE row'.state = s /\ s # "Success"
    BY <2>1
  <2>2. CASE row'.state = s /\ s = "Success"
    BY <2>2 DEF Terminal
  <2>3. CASE callErrors /\ row'.state # s
    <3>1. crashes = 0
      BY <2>3
    <3>2. row'.state = seen \/ row'.state \in {"InProgress", "Success", "Failed"}
      BY <1>1, <2>3, <3>1 DEF Concludes, SeenRow, UpdateStates
    <3>3. /\ s = "Success" => row'.state = "Success"
          /\ s \notin Terminal => row'.state # "Success"
      BY <2>3, <3>1 DEF Concludes
    <3> QED
      BY <2>3, <3>2, <3>3
  <2> QED
    BY <2>1, <2>2, <2>3 DEF Concludes
<1> HIDE DEF u, seen
<1>3. PICK written : written = [v \in {u} |-> w]
  OBVIOUS
<1>4. written = old \/ \E t \in {"InProgress", "Success", "Failed"} : written = [old EXCEPT ![u] = t]
  <2>1. \A t : [old EXCEPT ![u] = t] = [v \in {u} |-> t]
    OBVIOUS
  <2> QED
    BY <1>2, <1>3, <2>1
<1>5. Executor!FirstRow(written, ThisUpdate.uri) = u
  <2>1. DOMAIN written = {u} /\ u = ThisUpdate
    BY <1>3 DEF u
  <2> QED
    BY <2>1 DEF Executor!FirstRow, Executor!Leading, ThisUpdate
<1>6. Executor!MarkResourceUpdateAsComplete(written, ThisUpdate.uri, s) = [v \in {u} |-> s]
  BY <1>3, <1>5 DEF Executor!MarkResourceUpdateAsComplete
<1>7. /\ [v \in {ThisUpdate} |-> SeenRow] = old
      /\ [v \in {ThisUpdate} |-> SeenRow]' = [v \in {u} |-> row'.state]
  BY <1>1 DEF u, seen
<1>8. \/ [v \in {u} |-> row'.state] = Executor!MarkResourceUpdateAsComplete(written, ThisUpdate.uri, s)
      \/ callErrors /\ [v \in {u} |-> row'.state] = written
  BY <1>2, <1>3, <1>6
<1>9. /\ s = "Success" => written[ThisUpdate] = "Success"
      /\ s \notin Executor!Terminal => written[ThisUpdate] # "Success"
  BY <1>2, <1>3 DEF u, Terminal, Executor!Terminal
<1>10. written \in {[v \in {ThisUpdate} |-> SeenRow]}
                     \cup {Executor!UpdateFromProgress([v \in {ThisUpdate} |-> SeenRow], ThisUpdate, t) :
                           t \in {"InProgress", "Success", "Failed"}}
  BY <1>4, <1>7 DEF u, Executor!UpdateFromProgress
<1>11. \E x \in {[v \in {ThisUpdate} |-> SeenRow]}
                   \cup {Executor!UpdateFromProgress([v \in {ThisUpdate} |-> SeenRow], ThisUpdate, t) :
                         t \in {"InProgress", "Success", "Failed"}} :
          /\ s = "Success" => x[ThisUpdate] = "Success"
          /\ s \notin Executor!Terminal => x[ThisUpdate] # "Success"
          /\ \/ [v \in {ThisUpdate} |-> SeenRow]'
                   = Executor!MarkResourceUpdateAsComplete(x, ThisUpdate.uri, s)
             \/ /\ [callErrors |-> callErrors, otherTraffic |-> FALSE].callErrors
                /\ [v \in {ThisUpdate} |-> SeenRow]' = x
  BY <1>7, <1>8, <1>9, <1>10
<1>12. [v \in {ThisUpdate} |-> IF report = "none" THEN "running" ELSE "finished"]'
         = [[v \in {ThisUpdate} |-> IF report = "none" THEN "running" ELSE "finished"]
               EXCEPT ![ThisUpdate] = "finished"]
  BY <1>1 DEF u
<1>13. (IF report = "none" THEN {}
        ELSE {[uri |-> ThisUpdate.uri, state |-> report, from |-> ThisUpdate]})'
         = (IF report = "none" THEN {}
            ELSE {[uri |-> ThisUpdate.uri, state |-> report, from |-> ThisUpdate]})
              \cup {[uri |-> ThisUpdate.uri, state |-> s, from |-> ThisUpdate]}
  BY <1>1 DEF u
<1>14. UNCHANGED <<{ThisUpdate}, [callErrors |-> callErrors, otherTraffic |-> FALSE],
                   << >>, "processing", FALSE, Executor!limiterVars>>
  BY <1>1 DEF u, Executor!limiterVars
<1>15. /\ [v \in {ThisUpdate} |-> IF report = "none" THEN "running" ELSE "finished"][ThisUpdate]
            = "running"
       /\ s = "Rejected" => ThisUpdate.op = "update"
       /\ s \notin Executor!Terminal => ThisUpdate.op \in {"update", "delete"}
  BY <1>1 DEF Concludes, ThisUpdate, Terminal, Executor!Terminal
<1> QED
  BY <1>11, <1>12, <1>13, <1>14, <1>15, Zenon DEF Executor!UpdaterFinishes

\* What changes neither report nor row is no step of the executor's updater.
LEMMA UnseenIsNoStep ==
    ASSUME ThisUpdate' = ThisUpdate, SeenRow' = SeenRow, UNCHANGED <<callErrors, report>>
    PROVE  UNCHANGED Executor!vars
BY DEF Executor!vars

\* The first progress in the row is a step of the executor's updater, later
\* progress is none.
LEMMA ProgressIsTaken ==
    ASSUME Advances, UNCHANGED <<kind, callErrors>>, row.state \in UpdateStates
    PROVE  Executor!UpdaterProgress(ThisUpdate) \/ UNCHANGED Executor!vars
<1>1. ThisUpdate' = ThisUpdate /\ SeenRow' = "InProgress" /\ report = "none" /\ report' = "none"
  BY DEF Advances, ThisUpdate, SeenRow
<1>2. CASE SeenRow = "InProgress"
  BY <1>1, <1>2, UnseenIsNoStep
<1>3. CASE SeenRow # "InProgress"
  <2>1. [v \in {ThisUpdate} |-> IF report = "none" THEN "running" ELSE "finished"][ThisUpdate]
            = "running"
    BY <1>1
  <2>2. [v \in {ThisUpdate} |-> SeenRow][ThisUpdate] # "InProgress"
    BY <1>3
  <2>3. [v \in {ThisUpdate} |-> SeenRow]'
          = Executor!UpdateFromProgress([v \in {ThisUpdate} |-> SeenRow], ThisUpdate, "InProgress")
    BY <1>1 DEF Executor!UpdateFromProgress
  <2>4. UNCHANGED <<{ThisUpdate}, [callErrors |-> callErrors, otherTraffic |-> FALSE],
                    << >>, "processing", FALSE,
                    [v \in {ThisUpdate} |-> IF report = "none" THEN "running" ELSE "finished"],
                    IF report = "none" THEN {}
                    ELSE {[uri |-> ThisUpdate.uri, state |-> report, from |-> ThisUpdate]},
                    Executor!limiterVars>>
    BY <1>1 DEF Executor!limiterVars
  <2> QED
    BY <2>1, <2>2, <2>3, <2>4, Zenon DEF Executor!UpdaterProgress
<1> QED
  BY <1>2, <1>3

\* The updater is what the executor takes it for: in its model, in which an
\* updater that runs may record progress and report one state, with its row in
\* accordance, every step of ResourceUpdater is such a step or none.
THEOREM UpdaterServesExecutor == Spec => ServesExecutor
<1> DEFINE Serves == \/ Executor!UpdaterProgress(ThisUpdate)
                     \/ \E s \in UpdateStates \ {"NotStarted"} :
                           Executor!UpdaterFinishes(ThisUpdate, s)
                     \/ UNCHANGED <<Executor!vars>>
           Condition == crashes' = crashes /\ (crashes = 0 \/ ~callErrors)
<1>1. Init => FirstRun
  BY DEF Init, FirstRun, NothingRecorded, Final
<1>2. IInv /\ FirstRun /\ [Next]_vars => FirstRun'
  BY StepIsSeen
<1>3. ASSUME IInv, FirstRun, [Next]_vars, Condition PROVE Serves
  <2>1. UNCHANGED <<kind, callErrors, crashes>>
    BY <1>3 DEF Next, vars, updaterVars, Start, ReplyArrives, HandleProgress, StillRunning,
       CallFails, Persisted, ProgressArrives, ValueResolved, Timeout, Crash, ReRun, OperatorStep
  <2>2. IInv' /\ row.state \in UpdateStates /\ row'.state \in UpdateStates
    BY <1>3, StepIInv DEF IInv, TypeOK
  <2>3. Seen
    BY <1>3, StepIsSeen
  <2>4. CASE Unseen
    <3>1. ThisUpdate' = ThisUpdate /\ SeenRow' = SeenRow /\ UNCHANGED <<callErrors, report>>
      BY <2>1, <2>4 DEF Unseen, ThisUpdate, SeenRow
    <3> QED
      BY <3>1, UnseenIsNoStep
  <2>5. CASE Advances
    BY <2>1, <2>2, <2>5, ProgressIsTaken
  <2>6. CASE \E s \in UpdateStates : Concludes(s)
    <3>1. PICK s : Concludes(s)
      BY <2>6
    <3>2. s \notin Terminal => kind \in {"update", "delete"}
      BY <2>1, <2>2, <3>1 DEF IInv, ReportsFinalState, Concludes, UpdateStates
    <3>3. crashes = 0 => row.state # "Rejected"
      BY <1>3, <3>1 DEF FirstRun, Concludes
    <3>4. Executor!UpdaterFinishes(ThisUpdate, s)
      BY <1>3, <2>1, <2>2, <3>1, <3>2, <3>3, ReportIsTaken
    <3> QED
      BY <3>1, <3>4 DEF Concludes
  <2> QED
    BY <2>3, <2>4, <2>5, <2>6 DEF Seen
<1> QED
  <2> HIDE DEF Serves, Condition
  <2>1. IInv /\ FirstRun /\ [Next]_vars => [Condition => Serves]_vars
    BY <1>3
  <2>2. Spec => [][Condition => Serves]_vars
    BY <1>1, <1>2, <2>1, UpdaterInvariant, PTL DEF Spec
  <2> QED
    BY <2>2 DEF ServesExecutor, Serves, Condition

=============================================================================
