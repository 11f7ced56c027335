----------------------------- MODULE MCInventory -----------------------------
(***************************************************************************)
(* The inventory for TLC: two natives, and one with more identifiers.      *)
(***************************************************************************)
EXTENDS Inventory

N(id, type) == [id |-> id, type |-> type]

\* The forma's label and those of the natives differ at most in case.
Base(case) == [name |-> "s", case |-> case]
OwnName(n) == Base(IF n.id = "i" THEN "lower" ELSE "upper")
TwoNatives == {N("i", "A"), N("j", "A")}
OneForma == {[type |-> "A", stack |-> "s", label |-> <<Base("lower"), 0>>, config |-> "c"]}
One == {N("j", "A")}


\* j misses what its schema requires when it is changed.
Changed == One \X {"q", "o"}

\* The first two versions in reverse order.
Swapped(version) == IF version \in 1..2 THEN 3 - version ELSE version

Start(gone, issued0, changes0, bytes, apart) ==
    [gone |-> gone, issued |-> issued0, changes |-> changes0, bytes |-> bytes, apart |-> apart]
MCStarts == {Start({}, 3, 1, TRUE, TRUE), Start(One, 0, 0, TRUE, TRUE),
             Start(One, 3, 1, FALSE, TRUE), Start({}, 3, 1, TRUE, FALSE)}

=============================================================================
