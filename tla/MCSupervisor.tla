---------------------------- MODULE MCSupervisor ----------------------------
(***************************************************************************)
(* Supervisor on small instances: two vaults, so that one is being set up  *)
(* while the other already runs.                                           *)
(***************************************************************************)
EXTENDS Supervisor

MCVaults == 1..2
=============================================================================
