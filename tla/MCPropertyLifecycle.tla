------------------------ MODULE MCPropertyLifecycle -----------------------
(* Formas of one resource with fields p, q and the create-only field c, and *)
(* two rows of the resource it refers to.                                   *)
EXTENDS PropertyLifecycle

MCPathOrder == <<"c", "p", "q", "id">>
MCFields == {"c", "p", "q"}
MCCreateOnly == {"c"}

Str(x) == <<"str", x>>
Num(x) == <<"num", x>>
To(p) == Ref(<<"source", p>>, None, "", "")
Doc(p, q) == [x \in {"p", "q"} |-> IF x = "p" THEN p ELSE q]

\* The source: a plain value, a reference of its own, and an identifier.
Source(a) ==
    [Properties |-> [x \in {"a", "b"} |->
        IF x = "a" THEN Plain(Num(a)) ELSE Ref(<<"root", "id">>, Str("root"), "", "")],
     ReadOnlyProperties |-> [x \in {"id"} |-> Plain(Str("source"))]]
MCSources == {Source("1"), Source("2")}

Simple == Doc(Plain(Num("1")), To("a"))
Smaller == [x \in {"p"} |-> Plain(Num("2"))]
Values == Doc(Value(Str("v"), "Clear", ""), Value(Str("secret"), "Opaque", ""))
Once1 == Doc(Value(Str("once"), "", "SetOnce"), Plain(Num("1")))
Once2 == Doc(Value(Str("twice"), "Opaque", "SetOnce"), To("id"))
OnceRef == Doc(Ref(<<"source", "a">>, None, "", "SetOnce"), Plain(Num("3")))
Typed(c) == [x \in {"c", "p"} |-> IF x = "c" THEN Plain(Num(c)) ELSE To("id")]

\* A secret beside a reference, and references to a property that is a
\* reference itself.
SecretAndRef == Doc(Value(Str("secret"), "Opaque", ""), To("id"))
Through == Doc(Plain(Num("2")), To("b"))

\* An opaque reference.
Hushed == Doc(Plain(Num("3")), Ref(<<"source", "a">>, None, "Opaque", ""))

MCFormas == {Simple, Smaller, Values, Once1, Once2, OnceRef, Typed("1"), Typed("2"),
             SecretAndRef, Through, Hushed}
===========================================================================
