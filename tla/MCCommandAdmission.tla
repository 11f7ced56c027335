------------------------- MODULE MCCommandAdmission -------------------------
(***************************************************************************)
(* Command admission for TLC: requests for two stacks.                     *)
(***************************************************************************)
EXTENDS CommandAdmission

R(command, mode, stacks) ==
    [command |-> command, mode |-> mode, stacks |-> stacks, touches |-> stacks,
     force |-> FALSE, simulate |-> FALSE, cyclic |-> FALSE, empty |-> FALSE]
Apply(mode, stacks) == R("apply", mode, stacks)
Destroy(stacks) == R("destroy", "patch", stacks)

A == {"a"}
B == {"b"}
AB == {"a", "b"}

\* Requests of every kind but a reconcile without force; what depends on the
\* resources that r3 destroys is in another stack.
Various ==
    [r1 |-> Apply("patch", B),
     r2 |-> [Apply("reconcile", AB) EXCEPT !.force = TRUE],
     r3 |-> [Destroy(A) EXCEPT !.touches = AB],
     r4 |-> [Apply("patch", A) EXCEPT !.simulate = TRUE]]
\* Requests that are refused, and one that is not.
Refused ==
    [r1 |-> Apply("reconcile", A), r2 |-> [Apply("patch", A) EXCEPT !.empty = TRUE],
     r3 |-> [Apply("patch", A) EXCEPT !.cyclic = TRUE],
     r4 |-> [Destroy(B) EXCEPT !.cyclic = TRUE]]
\* Reconciles and a patch of one stack.
SameStack == [r1 |-> Apply("reconcile", A), r2 |-> Apply("reconcile", A),
              r3 |-> Apply("patch", A)]

Setting(requests, overlap, callErrors, readErrors, c, s) ==
    [requests |-> requests, overlap |-> overlap, callErrors |-> callErrors,
     readErrors |-> readErrors, crashes |-> c, syncs |-> s]

MCSettings == {Setting(Various, "settled", TRUE, FALSE, 1, 0),
               Setting(Refused, "requests", FALSE, TRUE, 2, 0),
               Setting(SameStack, "none", FALSE, TRUE, 1, 2)}

=============================================================================
