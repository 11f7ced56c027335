------------------------- MODULE MCCommandGeneration -------------------------
(***************************************************************************)
(* Instances of CommandGeneration: b refers to a, and c, of another stack, *)
(* to both. The formas change and drop them, also so that a has to be      *)
(* replaced; d is found unmanaged.                                         *)
(***************************************************************************)
EXTENDS CommandGeneration

R(s, l, v, x) == [stack |-> s, label |-> l, target |-> "t1", val |-> v, fixed |-> x,
                  once |-> FALSE, managed |-> FALSE]
Once(r) == [r EXCEPT !.once = TRUE]
At(r, t) == [r EXCEPT !.target = t]
F(rs) == [resources |-> rs, stacks |-> Stacks(rs)]

MCRefs == [l \in {"a", "b", "c", "d"} |->
             CASE l = "b" -> {<<"s", "a">>} [] l = "c" -> {<<"s", "a">>, <<"s", "b">>} [] OTHER -> {}]

A == R("s", "a", 0, 0)
B == R("s", "b", 0, 0)
C == R("u", "c", 0, 0)
D == R("s", "d", 0, 0)

MCFormas ==
    { F({A, B}), F({R("s", "a", 0, 1), B}), F({R("s", "a", 0, 1), R("s", "b", 1, 0)}),
      F({B}), F({A, C}), F({At(C, "t2"), Once(R("s", "b", 1, 0))}),
      [resources |-> {R("u", "c", 1, 0)}, stacks |-> {}], F({D, A}),
      F({R("u", "c", 0, 0), R("u", "d", 1, 1)}) }
MCDiscovered == {R(Unmanaged, "d", 0, 0), R(Unmanaged, "d", 1, 0)}

=============================================================================
