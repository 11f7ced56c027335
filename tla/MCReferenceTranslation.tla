----------------------- MODULE MCReferenceTranslation -----------------------
(***************************************************************************)
(* The translation of references for TLC: resources a and b in one stack,  *)
(* c and d in another, with references within a forma, into the other      *)
(* stack, in an array, and back.                                           *)
(***************************************************************************)
EXTENDS ReferenceTranslation, TLC

NoDoc == [p \in {} |-> p]
To(key) == "p" :> Res(key, "Arn")
In(key) == "q" :> Res(key, "Arn")
A == <<"s", "a">>
B == <<"s", "b">>
C == <<"r", "c">>
D == <<"r", "d">>

TwoStacks == {A :> NoDoc @@ B :> To(A),
              C :> To(D) @@ D :> (To(B) @@ In(A)),
              A :> To(C)}
Arrays == {"q"}

=============================================================================
