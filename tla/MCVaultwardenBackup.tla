------------------------ MODULE MCVaultwardenBackup -------------------------
(***************************************************************************)
(* Interchangeable runs of the backup script.                              *)
(***************************************************************************)
EXTENDS VaultwardenBackup, TLC

Symmetry == Permutations(Calls)
=============================================================================
