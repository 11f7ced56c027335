--------------------------- MODULE DependencyOrder ---------------------------
(***************************************************************************)
(* What the execution of a changeset promises, without pipelines, rate     *)
(* limits, timers or messages: an update starts only once everything it    *)
(* depends on has succeeded, and a failure fails, unstarted, everything    *)
(* that depends on it, directly or not.                                    *)
(*                                                                         *)
(* One step may conclude one running update and start any updates this     *)
(* makes possible, as the executor does in one message handler.            *)
(***************************************************************************)
EXTENDS Changeset

CONSTANT Changesets     \* the sets of resource updates a command may have

VARIABLES ops,          \* the updates of this changeset
          st            \* the state of each

vars == <<ops, st>>

\* The updates that depend on u, directly or not.
Dependents(u) ==
    LET down == [g \in ops |-> Downstream(ops, g)]
    IN  {d \in ops : \A S \in SUBSET ops :
            (\A g \in S \cup {u} : down[g] \subseteq S) => d \in S}

MayStart(s, u) ==
    s[u] = "NotStarted" /\ \A d \in Upstream(ops, u) : s[d] = "Success"

Started(s, S) == [u \in ops |-> IF u \in S THEN "InProgress" ELSE s[u]]

\* The states after u concluded with o.
Concluded(u, o) ==
    LET failed == IF o = "Success" THEN {} ELSE Dependents(u)
    IN  [d \in ops |-> IF d = u THEN o ELSE IF d \in failed THEN "Failed" ELSE st[d]]

Init ==
    /\ ops \in {SplitReplace(c) : c \in Changesets}
    /\ st = [u \in ops |-> "NotStarted"]

\* Updates that may start in s do, or not yet.
StartFrom(s) ==
    \E S \in SUBSET {u \in ops : MayStart(s, u)} : st' = Started(s, S)

Start == StartFrom(st) /\ UNCHANGED ops

Conclude(u, o) ==
    /\ st[u] = "InProgress"
    /\ \E s \in {Concluded(u, o)} : StartFrom(s)
    /\ UNCHANGED ops

Next == Start \/ \E u \in ops, o \in Terminal : Conclude(u, o)

Spec == Init /\ [][Next]_vars

=============================================================================
