--------------------------- MODULE MCSynchronizer ---------------------------
(***************************************************************************)
(* The synchronizer for TLC.                                               *)
(***************************************************************************)
EXTENDS Synchronizer

Commands == {"c1", "c2", "c3", "c4"}

=============================================================================
