------------------------ MODULE MCCommandCompletion ------------------------
(***************************************************************************)
(* Commands for TLC: a chain, a replacement with a resource that refers to *)
(* the new one, its move, two replacements, and independent updates.       *)
(***************************************************************************)
EXTENDS CommandCompletion

Update(uri, op, deps) ==
    [uri |-> uri, key |-> uri, op |-> op, ns |-> "aws", deps |-> deps, moved |-> FALSE]

Chain == {Update("a", "create", {}), Update("b", "create", {"a"}), Update("c", "update", {"b"})}
Replacement == {Update("a", "delete", {}), Update("a", "create", {}), Update("b", "update", {"a"})}

Both == {Update("a", "delete", {}), Update("b", "delete", {"a"}),
         Update("a", "create", {}), Update("b", "create", {"a"})}
Apart == {Update("a", "create", {}), Update("b", "update", {}), Update("c", "delete", {}),
          Update("d", "create", {"a", "b"})}

\* a moves to another target, alone or with a resource that refers to it.
Move == {[u EXCEPT !.moved = TRUE] : u \in {Update("a", "delete", {}), Update("a", "create", {})}}
MoveUnder == Move \cup {Update("b", "update", {"a"})}

MCCommands == {Chain, Replacement, Move, MoveUnder, Both, Apart}

=============================================================================
