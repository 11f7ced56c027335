-------------------------- MODULE MCResolveCache --------------------------
(* Three resources: one that exists, and two or three that a command creates. *)
EXTENDS ResolveCache

MCPathOrder == <<"p", "r.n", "q", "id">>
MCNested == {"r.n"}
MCFields == {"p", "q", "r.n"}
MCSecrets == {"secret"}

Str(x) == <<"str", x>>
Num(x) == <<"num", x>>
To(r, p, vis) == Ref(<<r, p>>, None, vis, "")
Doc(p, q) == [x \in {"p", "q"} |-> IF x = "p" THEN p ELSE q]

Password == Doc(Value(Str("secret"), "Opaque", ""), Plain(Num("2")))

MCExisting ==
    [r \in {"vpc"} |-> [Properties |-> [x \in {"p", "q", "r.n"} |->
                                          IF x = "r.n" THEN Value(Str("secret"), "Opaque", "")
                                          ELSE Password[x]],
                        ReadOnlyProperties |-> [p \in {"id"} |-> Plain(Str("vpc"))]]]

Chain ==
    [r \in {"subnet", "host"} |->
        IF r = "subnet" THEN Doc(To("vpc", "p", "Clear"), To("vpc", "q", ""))
        ELSE Doc(To("subnet", "p", ""),
                 Ref(<<"vpc", "q">>, Str("kept"), "", "SetOnce"))]

Siblings ==
    [r \in {"subnet", "host"} |->
        IF r = "subnet" THEN Doc(To("vpc", "q", ""), To("vpc", "id", ""))
        ELSE Doc(Plain(Num("7")), To("vpc", "q", "Clear"))]

Fresh ==
    [r \in {"peer", "host"} |->
        IF r = "peer" THEN Password
        ELSE Doc(To("peer", "p", ""), To("peer", "absent", ""))]

Twice ==
    [r \in {"subnet"} |-> Doc(To("vpc", "id", ""), To("vpc", "id", ""))]

Three ==
    [r \in {"peer", "subnet", "host"} |->
        CASE r = "peer" -> Password
          [] r = "subnet" -> Doc(To("peer", "p", "Clear"), To("vpc", "q", ""))
          [] OTHER -> Doc(To("subnet", "p", ""), To("vpc", "q", ""))]

\* References to a property within another and to a null.
Inner ==
    [r \in {"subnet", "host"} |->
        IF r = "subnet" THEN Doc(Plain(None), To("vpc", "r.n", ""))
        ELSE Doc(To("subnet", "p", ""), Plain(Num("7")))]

\* Two that ask on their own, and one that waits for one of them.
Fork ==
    [r \in {"peer", "subnet", "host"} |->
        CASE r = "peer" -> Doc(To("vpc", "p", "Clear"), Plain(Num("7")))
          [] r = "subnet" -> Doc(Plain(Num("7")), To("vpc", "q", ""))
          [] OTHER -> Doc(To("peer", "p", ""), Plain(Num("7")))]

MCFormas == {Chain, Three, Siblings, Fresh, Twice, Inner, Fork}
MCResources == {"vpc", "subnet", "host", "peer"}
===========================================================================
