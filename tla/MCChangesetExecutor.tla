------------------------- MODULE MCChangesetExecutor -------------------------
(***************************************************************************)
(* Changesets for TLC: the shapes in which ordering, cascading, shared     *)
(* URIs and rate limits meet.                                              *)
(***************************************************************************)
EXTENDS ChangesetExecutor

Update(uri, op, ns, deps) ==
    [uri |-> uri, key |-> uri, op |-> op, ns |-> ns, deps |-> deps, moved |-> FALSE]

\* b and c refer to a, d refers to both; two plugins.
Diamond ==
    { Update("a", "create", "aws", {}), Update("b", "create", "aws", {"a"}),
      Update("c", "update", "azure", {"a"}), Update("d", "create", "aws", {"b", "c"}) }

\* b refers to a, and both are replaced.
Replacements ==
    { Update("a", "delete", "aws", {}), Update("b", "delete", "aws", {"a"}),
      Update("a", "create", "aws", {}), Update("b", "create", "aws", {"a"}) }

\* a is replaced and its new version refers to b, which is created.
ReplaceOntoNew ==
    { Update("a", "delete", "aws", {}), Update("a", "create", "aws", {"b"}),
      Update("b", "create", "azure", {}) }

\* The same, but a is moved to another target.
MoveOntoNew == {[u EXCEPT !.moved = (u.uri = "a")] : u \in ReplaceOntoNew}

\* Two roots with one dependent.
TwoRoots ==
    { Update("a", "create", "aws", {}), Update("b", "update", "aws", {}),
      Update("c", "create", "aws", {"a", "b"}) }

\* A sync.
Reads == { Update("a", "read", "aws", {}), Update("b", "read", "azure", {"a"}) }

\* All changesets of two resources, with any references, the resources
\* themselves included, in which references go in a circle, for
\* which no executor is started.
Rs == {"a", "b"}
Own(r) == {Update(r, op, "aws", D) : op \in {"create", "update", "delete"}, D \in SUBSET Rs}
Alone(r) == {{}} \cup {{u} : u \in Own(r)}
Replaced(r) == {{u, v} : u \in {x \in Own(r) : x.op = "create"}, v \in {x \in Own(r) : x.op = "delete"}}
Circular(c) ==
    \E R \in {{u \in c : u.op = "delete"}, {u \in c : IsCreateOrUpdate(u)}} :
        \E S \in (SUBSET R) \ {{}} : \A g \in S : \E h \in S : h.uri \in g.deps
Circles ==
    {c \in {x \cup y : x \in Alone("a") \cup Replaced("a"), y \in Alone("b") \cup Replaced("b")} :
        Circular(c)}

MCChangesets == {Diamond, Replacements, ReplaceOntoNew, MoveOntoNew, TwoRoots, Reads, {}} \cup Circles

MCNamespaces == {"aws", "azure"}
MCCapacity == [ns \in MCNamespaces |-> IF ns = "aws" THEN 2 ELSE 1]

\* Failing calls, other executors around, or neither.
MCEnvironments ==
    [callErrors : BOOLEAN, otherTraffic : BOOLEAN] \ {[callErrors |-> TRUE, otherTraffic |-> TRUE]}

FinalStates == {"Success", "Failed", "Rejected"}

=============================================================================
