---------------------------- MODULE MCVaultChild ----------------------------
(***************************************************************************)
(* VaultChild on small instances.  The durations keep the order of the     *)
(* production defaults (kill grace < stall timeout <= healthy reset <=     *)
(* crash window < stall window), in units of one poll interval.            *)
(***************************************************************************)
EXTENDS VaultChild
=============================================================================
