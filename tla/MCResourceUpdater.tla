-------------------------- MODULE MCResourceUpdater --------------------------
(***************************************************************************)
(* Resource updates for TLC.                                               *)
(***************************************************************************)
EXTENDS ResourceUpdater

AllKinds == {"create", "update", "delete", "read"}

=============================================================================
