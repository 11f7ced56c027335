--------------------------- MODULE PluginOperator ---------------------------
(***************************************************************************)
(* The PluginOperator actor and the plugin behind it:                      *)
(* internal/metastructure/plugin_operation.                                *)
(*                                                                         *)
(* An operator is spawned for one plugin operation.  It answers the call   *)
(* that starts the operation, or resumes waiting for it, with a progress   *)
(* result; while the operation is neither done nor given up it checks its  *)
(* status or retries it, and sends every further progress result to the    *)
(* process that asked.                                                     *)
(*                                                                         *)
(* A progress result is a record                                           *)
(*   op           the operation it is about, "none" when it is not set     *)
(*   status       the OperationStatus, "none" for the zero value           *)
(*   recoverable  IsRecoverable of its error code                          *)
(*   attempts     Attempts                                                 *)
(* Messages, timestamps and properties are left out.                       *)
(***************************************************************************)
EXTENDS Naturals, Sequences, FiniteSets

CONSTANTS MaxRetries,   \* RetryConfig.MaxRetries
          MaxMail       \* bound: undelivered progress messages

\* What a plugin returns: a result with a status, a failure by kind of error
\* code, or a Go error; or there is no plugin for the namespace.
Answers == {"Success", "InProgress", "NotFound", "Recoverable", "Fatal",
            "Error", "NoPlugin"}

Codes == {"NotFound", "Recoverable", "Fatal"}

ASSUME RetryAssumption == MaxRetries \in Nat

ASSUME MailAssumption == MaxMail \in Nat \ {0}

VARIABLES operator,     \* the operator: its state and its request
          reply,        \* its answer to the call, not received yet
          mail,         \* its progress messages, not received yet
          cloud,        \* what has become of each operation in the cloud
          readFailed    \* the plugin has answered a Read with an error

operatorVars == <<operator, reply, mail, cloud, readFailed>>

Operations == {"Read", "Create", "Update", "Delete"}

MaxAttempts == MaxRetries + 1

Progress == [op : Operations \cup {"none"},
             status : {"Success", "Failure", "InProgress", "none"},
             recoverable : BOOLEAN, attempts : Nat]

\* No progress result.
NoProgress == [op |-> "none", status |-> "absent", recoverable |-> FALSE, attempts |-> 0]

NoOperator == [state |-> "none", request |-> "start", op |-> "Read",
               lenient |-> FALSE, attempts |-> 0]

Alive == {"not_started", "waiting_for_resource", "retrying"}

Operators ==
    [state : Alive \cup {"none", "finished_successfully", "finished_with_error"},
     request : {"start", "resume"}, op : Operations, lenient : BOOLEAN,
     attempts : 0 .. MaxAttempts + 1]

-----------------------------------------------------------------------------
(***************************************************************************)
(* Progress results.                                                       *)
(***************************************************************************)

\* Mutant: what has been accepted is taken for done.
InProgressIsSuccess(p) == p.status \in {"Success", "InProgress"}

FinishedSuccessfully(p) == p.status = "Success"

\* Mutant: the last retry is taken for the end.
FailedEarly(p) == p.status = "Failure" /\ (~p.recoverable \/ p.attempts >= MaxAttempts)

Failed(p) == p.status = "Failure" /\ (~p.recoverable \/ p.attempts > MaxAttempts)

HasFinished(p) == FinishedSuccessfully(p) \/ Failed(p)

Failure(op, recoverable, n) ==
    [op |-> op, status |-> "Failure", recoverable |-> recoverable, attempts |-> n]

\* The progress read, create, update and delete make of the plugin's answer to
\* the n-th attempt.  With lenient (TreatNotFoundAsSuccess) a read takes every
\* error code for a success.
Result(op, lenient, a, n) ==
    CASE a = "NoPlugin" -> Failure("none", FALSE, 1)
      [] a = "Error" -> Failure(IF op = "Read" THEN "Read" ELSE "none", FALSE, n)
      [] a \in Codes /\ ~(op = "Read" /\ lenient) -> Failure(op, a # "Fatal", n)
      [] OTHER -> [op |-> op, recoverable |-> FALSE, attempts |-> n,
                   status |-> IF a = "InProgress" THEN a ELSE "Success"]

\* The progress resume makes of the plugin's answer to Status.
Resumed(op, a, n) ==
    IF a = "NoPlugin"
      THEN [op |-> "none", status |-> "none", recoverable |-> FALSE, attempts |-> 0]
      ELSE Result(op, FALSE, a, n)

\* handlePluginResult: where the operator goes with progress p.
StateAfter(p) ==
    LET again == p.status = "Failure" /\ p.recoverable /\ p.attempts <= MaxAttempts
    IN  CASE p.status = "Success"    -> "finished_successfully"
          [] again                   -> "retrying"
          [] p.status = "InProgress" -> "waiting_for_resource"
          [] OTHER                   -> "finished_with_error"

-----------------------------------------------------------------------------
(***************************************************************************)
(* The plugin and the cloud.                                               *)
(***************************************************************************)

\* The plugin is asked to do op and answers a: done, running, or as before; a
\* request that ended in an error may have been carried out all the same.
PluginDoes(op, a) ==
    /\ op = "Read" => a # "InProgress"
    /\ readFailed' = (readFailed \/ (op = "Read" /\ a # "Success"))
    /\ \E c \in CASE a = "Success"    -> {"done"}
                  [] a = "InProgress" -> {"running"}
                  [] a = "Error"      -> {cloud[op], "done"}
                  [] OTHER            -> {cloud[op]} :
          cloud' = [cloud EXCEPT ![op] = c]

\* The plugin is asked how op is getting on and answers a: only what has been
\* running is running or done, and what failed is no longer running.
PluginChecks(op, a) ==
    /\ a \in Answers
    /\ a = "Success" => cloud[op] # "idle"
    /\ a = "InProgress" => cloud[op] = "running"
    /\ a \in Codes => cloud[op] # "done"
    /\ cloud' = [cloud EXCEPT ![op] = CASE a = "Success" -> "done"
                                        [] a \in Codes   -> "idle"
                                        [] OTHER         -> @]
    /\ UNCHANGED readFailed

-----------------------------------------------------------------------------
(***************************************************************************)
(* The operator.                                                           *)
(***************************************************************************)

InitOperator ==
    /\ operator = NoOperator
    /\ reply = NoProgress
    /\ mail = << >>
    /\ cloud = [op \in Operations |-> "idle"]
    /\ readFailed = FALSE

\* Mutant: an operator that resumes counts from one again.
AttemptsForgotten(request, op, lenient, n) ==
    [state |-> "not_started", request |-> request, op |-> op, lenient |-> lenient,
     attempts |-> 1]

\* The operator the supervisor starts for a request, its call in its mailbox.
Requested(request, op, lenient, n) ==
    [state |-> "not_started", request |-> request, op |-> op, lenient |-> lenient,
     attempts |-> n]

\* read, create, update, delete: the call is answered after the first attempt.
Execute ==
    /\ operator.state = "not_started"
    /\ operator.request = "start"
    /\ \E a \in Answers :
          /\ PluginDoes(operator.op, a)
          /\ \E p \in {Result(operator.op, operator.lenient, a, operator.attempts)} :
                /\ operator' = [operator EXCEPT !.state = StateAfter(p)]
                /\ reply' = p
    /\ UNCHANGED mail

\* resume
ResumeWaiting ==
    /\ operator.state = "not_started"
    /\ operator.request = "resume"
    /\ \E a \in Answers :
          /\ PluginChecks(operator.op, a)
          /\ \E p \in {Resumed(operator.op, a, operator.attempts)} :
                /\ operator' = [operator EXCEPT !.state = StateAfter(p)]
                /\ reply' = p
    /\ UNCHANGED mail

\* status, when the check is due.  An operator that cannot check gives up
\* without a word.
StatusWith(a) ==
    /\ operator.state = "waiting_for_resource"
    /\ Len(mail) < MaxMail
    /\ PluginChecks(operator.op, a)
    /\ \/ /\ a \in {"NoPlugin", "Error"}
          /\ operator' = [operator EXCEPT !.state = "finished_with_error"]
          /\ UNCHANGED mail
       \/ /\ a \notin {"NoPlugin", "Error"}
          /\ \E p \in {Result(operator.op, FALSE, a, operator.attempts)} :
                /\ operator' = [operator EXCEPT !.state = StateAfter(p)]
                /\ mail' = Append(mail, p)
    /\ UNCHANGED reply

Status == \E a \in Answers : StatusWith(a)

\* retry, when the delay is over.
Retry ==
    /\ operator.state = "retrying"
    /\ Len(mail) < MaxMail
    /\ \E a \in Answers, n \in {operator.attempts + 1} :
          /\ PluginDoes(operator.op, a)
          /\ \E p \in {[Result(operator.op, operator.lenient, a, n) EXCEPT !.attempts = n]} :
                /\ operator' = [operator EXCEPT !.state = StateAfter(p), !.attempts = n]
                /\ mail' = Append(mail, p)
    /\ UNCHANGED reply

=============================================================================
