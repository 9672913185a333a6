---------------------------- MODULE MCVaultFiles ----------------------------
(* A note and an image in one folder; the vault itself and a scope on that *)
(* folder, by which the lock knows one file under two names.               *)
EXTENDS VaultFiles, TLC
CONSTANTS r1, r2, r3, note, pic, vault, scope
MCFiles == {note, pic}
MCNote == {note}
MCUnscoped == {vault}
MCScoped == {vault, scope}
MCRequests == {r1, r2, r3}
MCSymmetry == Permutations(MCRequests)
MCKeys == Mounts \X Files
=============================================================================
