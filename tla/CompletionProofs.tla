-------------------------- MODULE CompletionProofs --------------------------
(***************************************************************************)
(* The theorem about CommandCompletion, for any commands and any number of *)
(* crashes.                                                                *)
(*                                                                         *)
(* Values are hashed at the end of a command, and a command is run again   *)
(* from what its rows hold.  That no hash is ever run again rests on the   *)
(* rows: when a command has come to its end they are all final, and rows   *)
(* that are final stay so.                                                 *)
(***************************************************************************)
EXTENDS CommandCompletion, TLAPS

Types ==
    /\ ops \in Commands
    /\ rows \in [ops -> {"NotStarted", "InProgress"} \cup Terminal]
    /\ state \in [ops -> {"NotStarted", "InProgress", "Success", "Failed"}]
    /\ vals \in [ops -> {"clear", "hash"}] /\ mem \in [ops -> {"clear", "hash"}]
    /\ given \in [ops -> SUBSET {"clear", "hash"}]

RowsFinal == \A u \in ops : rows[u] \in Terminal

\* The rows of what the plugin has done are final.
DoneIsFinal ==
    /\ \A u \in progress \cap ops : rows[u] \in Terminal
    /\ \A u \in ops : state[u] = "Success" => u \in progress

\* The updates whose row keeps the value the forma gave them.
Plain(u) == u.op # "delete" /\ ~u.moved

\* A command that has come to its end has final rows, before it is hashed.
EndIsFinal ==
    exec \in {"finishing", "ended"} \/ (\E u \in ops : Plain(u) /\ vals[u] = "hash") => RowsFinal

\* No updater is at work but while the executor runs.
WorkEndsFirst == exec # "running" => \A u \in ops : state[u] # "InProgress"

\* What the executor runs is not hashed.
RunsInClear ==
    exec = "running" => \A u \in ops : Plain(u) => mem[u] = "clear" /\ vals[u] = "clear"

IInv ==
    Types /\ (~executorFails => /\ DoneIsFinal /\ EndIsFinal /\ WorkEndsFirst /\ RunsInClear
                                /\ PluginGetsValues)

\* Initially nothing has been done and values are in clear, but in deletes.
LEMMA InitIInv == Init => IInv
<1> SUFFICES ASSUME Init PROVE IInv
  OBVIOUS
<1>1. Types
  BY DEF Init, Types, NewRows, Loaded
<1>2. DoneIsFinal /\ EndIsFinal /\ WorkEndsFirst /\ RunsInClear /\ PluginGetsValues
  BY DEF Init, NewRows, Loaded, Plain, DoneIsFinal, EndIsFinal, WorkEndsFirst, RunsInClear, PluginGetsValues
<1> QED
  BY <1>1, <1>2 DEF IInv

\* Every write to a row is final.
LEMMA WritesAreFinal ==
    ASSUME Types
    PROVE  /\ \A x, s : s \in Terminal => [rows EXCEPT ![x] = s] \in [ops -> {"NotStarted", "InProgress"} \cup Terminal]
           /\ \A x, s : s \in Terminal =>
                 \A u \in ops : [rows EXCEPT ![x] = s][u] \in Terminal \/ (u # x /\ [rows EXCEPT ![x] = s][u] = rows[u])
           /\ \A uris : MarkResourcesAsFailed(rows, uris) \in [ops -> {"NotStarted", "InProgress"} \cup Terminal]
           /\ \A uris : \A u \in ops : MarkResourcesAsFailed(rows, uris)[u] \in Terminal \cup {rows[u]}
BY DEF Types, MarkResourcesAsFailed, BulkUpdateResourceState, Terminal

\* The row that an update completes is its own, or that of the other half of a
\* replacement: then it is a delete's or it belongs to a move.
LEMMA CompletedRow ==
    ASSUME Types, NEW u \in ops
    PROVE  /\ FirstRow(rows, u.uri) \in ops
           /\ FirstRow(rows, u.uri) # u => ~Plain(FirstRow(rows, u.uri))
<1> DEFINE Fits(v) == /\ v.uri = u.uri
                      /\ \/ v.op = Leading(v)
                         \/ \A w \in ops : w.uri = u.uri => w.op # Leading(w)
           f == CHOOSE v \in ops : Fits(v)
<1>1. \E v \in ops : Fits(v)
  <2>1. CASE \E w \in ops : w.uri = u.uri /\ w.op = Leading(w)
    BY <2>1
  <2>2. CASE ~\E w \in ops : w.uri = u.uri /\ w.op = Leading(w)
    BY <2>2
  <2> QED
    BY <2>1, <2>2
<1>2. f \in ops /\ Fits(f)
  BY <1>1
<1>3. FirstRow(rows, u.uri) = f
  BY DEF FirstRow, Types
<1> HIDE DEF f
<1>4. ASSUME f # u PROVE ~Plain(f)
  <2>1. {u.op, f.op} = {"delete", "create"} /\ u.moved = f.moved
    <3>1. WellFormed(ops)
      BY CompletionAssumption DEF Types
    <3> QED
      BY <1>2, <1>4, <3>1 DEF WellFormed
  <2> QED
    BY <1>2, <2>1 DEF Leading, Plain
<1> QED
  BY <1>2, <1>3, <1>4

\* IInv is an inductive invariant.
LEMMA StepIInv == IInv /\ [Next]_vars => IInv'
<1> SUFFICES ASSUME IInv, [Next]_vars PROVE IInv'
  OBVIOUS
<1>0. Types
  BY DEF IInv
<1>1. ops' = ops /\ executorFails' = executorFails
  BY DEF Next, Activity, vars, Start, PluginSucceeds, UpdaterSucceeds, UpdaterFails, Cascades, Finish, GiveUp,
      MarkFormaCommandAsComplete, Crash, ReRun
<1>2. ASSUME NEW u \in ops, Start(u) PROVE IInv'
  <2>1. Types'
    BY <1>0, <1>2 DEF Types, Start
  <2> QED
    BY <1>0, <1>1, <1>2, <2>1 DEF IInv, Types, Start, DoneIsFinal, EndIsFinal, RowsFinal, WorkEndsFirst, RunsInClear,
        PluginGetsValues
<1>3. ASSUME NEW u \in ops, PluginSucceeds(u) PROVE IInv'
  <2>1. /\ rows' = [rows EXCEPT ![u] = "Success"] /\ "Success" \in Terminal
        /\ UNCHANGED <<ops, vals, exec, state, mem>> /\ progress' = progress \cup {u}
        /\ given' = [given EXCEPT ![u] = given[u] \cup {mem[u]}] /\ state[u] = "InProgress"
    BY <1>3 DEF PluginSucceeds, UpdateFromProgress, Terminal
  <2>2. Types'
    BY <1>0, <2>1 DEF Types
  <2>3. ASSUME ~executorFails
        PROVE  DoneIsFinal' /\ EndIsFinal' /\ WorkEndsFirst' /\ RunsInClear' /\ PluginGetsValues'
    <3>1. exec = "running" /\ (Plain(u) => mem[u] = "clear")
      BY <2>1, <2>3 DEF IInv, WorkEndsFirst, RunsInClear
    <3>2. \A v \in ops : rows'[v] = IF v = u THEN "Success" ELSE rows[v]
      BY <1>0, <2>1 DEF Types
    <3>3. \A v \in ops : Plain(v) => given'[v] \subseteq given[v] \cup {"clear"}
      BY <1>0, <2>1, <3>1 DEF Types
    <3> QED
      BY <1>0, <2>1, <2>3, <3>1, <3>2, <3>3 DEF Plain, IInv, Types, DoneIsFinal, EndIsFinal, RowsFinal, WorkEndsFirst,
          RunsInClear, PluginGetsValues
  <2> QED
    BY <1>1, <2>2, <2>3 DEF IInv
<1>4. ASSUME NEW u \in ops, NEW s \in {"Success", "Failed"}, exec # "down", state[u] = "InProgress",
             state' = [state EXCEPT ![u] = s], s = "Success" => u \in progress, Complete(u, s),
             UNCHANGED <<ops, progress, exec, mem, given>>
      PROVE  IInv'
  <2> DEFINE x == FirstRow(rows, u.uri)
  <2>1. rows' = [rows EXCEPT ![x] = s] /\ vals' = [vals EXCEPT ![x] = mem[u]] /\ s \in Terminal
    BY <1>4 DEF Complete, MarkResourceUpdateAsComplete, Terminal
  <2>x. x \in ops /\ (x # u => ~Plain(x))
    BY <1>0, CompletedRow
  <2> HIDE DEF x
  <2>2. /\ \A v \in ops : rows'[v] = IF v = x THEN s ELSE rows[v]
        /\ \A v \in ops : vals'[v] = IF v = x THEN mem[u] ELSE vals[v]
        /\ \A v \in ops : state'[v] = IF v = u THEN s ELSE state[v]
    BY <1>0, <1>4, <2>1 DEF Types
  <2>3. Types'
    BY <1>0, <1>4, <2>1 DEF Types
  <2>4. ASSUME ~executorFails
        PROVE  DoneIsFinal' /\ EndIsFinal' /\ WorkEndsFirst' /\ RunsInClear' /\ PluginGetsValues'
    <3>1. exec = "running" /\ (Plain(u) => mem[u] = "clear")
      BY <1>4, <2>4 DEF IInv, WorkEndsFirst, RunsInClear
    <3> QED
      BY <1>0, <1>4, <2>1, <2>2, <2>4, <2>x, <3>1 DEF IInv, Types, DoneIsFinal, EndIsFinal, RowsFinal, WorkEndsFirst,
          RunsInClear, PluginGetsValues
  <2> QED
    BY <1>1, <2>3, <2>4 DEF IInv
<1>5. ASSUME NEW u \in ops, Cascades(u) PROVE IInv'
  <2>1. PICK failed \in {{u} \cup Cascade(ops, [groups |-> ops, state |-> state], u)} :
           /\ state' = [v \in ops |-> IF v \in failed THEN "Failed" ELSE state[v]]
           /\ rows' = MarkResourcesAsFailed(rows, {v.uri : v \in failed})
    BY <1>5 DEF Cascades
  <2>2. UNCHANGED <<ops, vals, progress, exec, mem, given>> /\ exec = "running"
    BY <1>5 DEF Cascades
  <2>3. /\ rows' \in [ops -> {"NotStarted", "InProgress"} \cup Terminal]
        /\ \A v \in ops : rows'[v] \in Terminal \cup {rows[v]}
    BY <1>0, <2>1, WritesAreFinal
  <2>4. Types'
    BY <1>0, <2>1, <2>2, <2>3 DEF Types
  <2>5. ~executorFails =>
           DoneIsFinal' /\ EndIsFinal' /\ WorkEndsFirst' /\ RunsInClear' /\ PluginGetsValues'
    BY <1>0, <2>1, <2>2, <2>3 DEF IInv, DoneIsFinal, EndIsFinal, RowsFinal, WorkEndsFirst,
        RunsInClear, PluginGetsValues
  <2> QED
    BY <1>1, <2>4, <2>5 DEF IInv
<1>6. CASE Finish
  <2>1. Types'
    BY <1>0, <1>6 DEF Types, Finish
  <2>2. (~executorFails => DoneIsFinal) /\ (DoneIsFinal => RowsFinal) /\ \A u \in ops : state[u] # "InProgress"
    BY <1>0, <1>6 DEF IInv, Types, Finish, DoneIsFinal, RowsFinal, Terminal
  <2> QED
    BY <1>1, <1>6, <2>1, <2>2 DEF IInv, Finish, DoneIsFinal, EndIsFinal, RowsFinal, WorkEndsFirst, RunsInClear,
        PluginGetsValues
<1>7. CASE GiveUp
  BY <1>0, <1>1, <1>7 DEF IInv, GiveUp, Types
<1>8. CASE MarkFormaCommandAsComplete
  <2>1. Types'
    BY <1>0, <1>8 DEF Types, MarkFormaCommandAsComplete
  <2> QED
    BY <1>1, <1>8, <2>1 DEF IInv, MarkFormaCommandAsComplete, DoneIsFinal, EndIsFinal, RowsFinal, WorkEndsFirst,
        RunsInClear, PluginGetsValues
<1>9. CASE Crash
  <2>1. Types'
    BY <1>0, <1>9 DEF Types, Crash, NewRows
  <2> QED
    BY <1>1, <1>9, <2>1 DEF IInv, Crash, NewRows, DoneIsFinal, EndIsFinal, RowsFinal, WorkEndsFirst,
        RunsInClear, PluginGetsValues
<1>10. CASE ReRun
  <2>1. Types'
    BY <1>0, <1>10 DEF Types, ReRun
  <2>2. (OverallCommandState(rows) = "InProgress") <=> ~RowsFinal
    BY <1>0 DEF Types, OverallCommandState, RowsFinal
  <2>3. exec' = (IF RowsFinal THEN "ended" ELSE "running") /\ mem' = vals
        /\ UNCHANGED <<ops, rows, vals, progress, state, given>> /\ exec = "down"
    BY <1>10, <2>2 DEF ReRun
  <2>4. ~executorFails => (~RowsFinal => \A u \in ops : Plain(u) => vals[u] = "clear")
    BY <1>0 DEF IInv, EndIsFinal, Types
  <2> QED
    BY <1>1, <2>1, <2>3, <2>4 DEF IInv, DoneIsFinal, EndIsFinal, RowsFinal, WorkEndsFirst, RunsInClear,
        PluginGetsValues
<1>11. CASE UNCHANGED vars
  BY <1>11 DEF vars, IInv, Types, DoneIsFinal, EndIsFinal, RowsFinal, WorkEndsFirst, RunsInClear, PluginGetsValues
<1>12. ASSUME NEW u \in ops, UpdaterSucceeds(u) PROVE IInv'
  BY <1>4, <1>12 DEF UpdaterSucceeds
<1>13. ASSUME NEW u \in ops, UpdaterFails(u) PROVE IInv'
  BY <1>4, <1>13 DEF UpdaterFails
<1> QED
  BY <1>2, <1>3, <1>5, <1>6, <1>7, <1>8, <1>9, <1>10, <1>11, <1>12, <1>13 DEF Next, Activity

\* A plugin is never given a hash for a value it is to write, through any number
\* of crashes and reruns, unless an executor gives up on its command or the
\* resource moves to another target.
THEOREM HashesAreNeverRun == Spec => []PluginGetsValues
<1>1. Init => IInv
  BY InitIInv
<1>2. IInv /\ [Next]_vars => IInv'
  BY StepIInv
<1>3. IInv => PluginGetsValues
  BY DEF IInv, PluginGetsValues
<1> QED
  BY <1>1, <1>2, <1>3, PTL DEF Spec

=============================================================================
